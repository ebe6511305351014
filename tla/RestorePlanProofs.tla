-------------------------- MODULE RestorePlanProofs ---------------------------
(***************************************************************************)
(* What build_restore_plan makes of any dump and any gateway, for every    *)
(* set of devices, names and fields: WholePlan says of each step of a plan *)
(* which row or form it is for and what comes before it, NotAllBlocked     *)
(* that a plan has a step that goes out wherever rows differ.              *)
(*                                                                         *)
(* Diffs and plans are sequences made one row after the other.  What holds *)
(* of every prefix holds of the whole: NatInd, an induction over a set of  *)
(* numbers, is what Only and FlattenSeq are taken apart with.              *)
(***************************************************************************)
EXTENDS RestoreRun, WellFoundedInduction, SequenceTheorems, FiniteSetTheorems, TLAPS

\* Induction over the naturals, on the set of numbers a fact holds of: what the
\* library states over an operator, here from its well-founded order.
LEMMA NatInd ==
  ASSUME NEW S, 0 \in S, \A n \in Nat : n \in S => n + 1 \in S
  PROVE  Nat \subseteq S
<1> DEFINE T == Nat \ S
           R == OpToRel(<, Nat)
<1> SUFFICES ASSUME T # {} PROVE FALSE
  OBVIOUS
<1>1. IsWellFoundedOn(R, Nat) BY NatLessThanWellFounded
<1>2. \A x, y \in Nat : x < y => <<x, y>> \in R
  BY DEF OpToRel
<1> HIDE DEF R
<1>3. PICK x \in T : \A y \in T : ~ (<<y, x>> \in R)
  BY <1>1, WFMin
<1>4. x - 1 \in Nat /\ x - 1 < x /\ x # 0
  OBVIOUS
<1>5. x - 1 \in S BY <1>2, <1>3, <1>4
<1> QED BY <1>4, <1>5

Iteration(N, V, a, step) ==
  \E f \in [0..N -> V] : f[0] = a /\ \A n \in 1..N : f[n] = step[<<f[n - 1], n>>]
Steps(N, V) == [V \X (1..N) -> V]

\* A function that goes on from each value to the next exists.
LEMMA Iterates ==
  ASSUME NEW N \in Nat, NEW V, NEW a \in V, NEW step \in Steps(N, V)
  PROVE  Iteration(N, V, a, step)
<1> USE DEF Steps
<1> DEFINE Good(f, n) == f[0] = a /\ \A i \in 1..n : f[i] = step[<<f[i - 1], i>>]
           Built == {n \in Nat : n <= N => \E f \in [0..n -> V] : Good(f, n)}
<1>1. 0 \in Built
  <2>1. [i \in 0..0 |-> a] \in [0..0 -> V] /\ Good([i \in 0..0 |-> a], 0)
    OBVIOUS
  <2> QED BY <2>1
<1>2. ASSUME NEW n \in Nat, n \in Built PROVE n + 1 \in Built
  <2> SUFFICES ASSUME n + 1 <= N PROVE \E f \in [0..(n + 1) -> V] : Good(f, n + 1)
    OBVIOUS
  <2>1. PICK f \in [0..n -> V] : Good(f, n)
    BY <1>2
  <2> DEFINE g == [i \in 0..(n + 1) |-> IF i = n + 1 THEN step[<<f[n], n + 1>>] ELSE f[i]]
  <2>2. g \in [0..(n + 1) -> V]
    OBVIOUS
  <2>3. ASSUME NEW i \in 1..(n + 1) PROVE g[i] = step[<<g[i - 1], i>>]
    <3>1. CASE i = n + 1
      <4>1. n \in 0..(n + 1) /\ n + 1 \in 0..(n + 1) /\ n # n + 1 /\ i - 1 = n
        BY <3>1
      <4>2. g[n] = f[n] /\ g[n + 1] = step[<<f[n], n + 1>>]
        BY <4>1
      <4> HIDE DEF g
      <4> QED BY <3>1, <4>1, <4>2
    <3>2. CASE i # n + 1
      <4>1. i \in 1..n /\ i \in 0..(n + 1) /\ i - 1 \in 0..(n + 1) /\ i - 1 # n + 1
        BY <3>2
      <4>2. g[i] = f[i] /\ g[i - 1] = f[i - 1]
        BY <3>2, <4>1
      <4> QED BY <4>1, <4>2, <2>1
    <3> QED BY <3>1, <3>2
  <2>4. g[0] = a
    <3>1. 0 \in 0..(n + 1) /\ 0 # n + 1
      OBVIOUS
    <3> QED BY <2>1, <3>1
  <2> HIDE DEF g
  <2>5. Good(g, n + 1)
    BY <2>3, <2>4
  <2> QED BY <2>2, <2>5
<1> HIDE DEF Built
<1>3. N \in Built
  BY <1>1, <1>2, NatInd
<1> QED BY <1>3 DEF Built, Iteration

\* Only keeps its rows one by one, from the first to the last.
LEMMA OnlyIterates ==
  ASSUME NEW S, NEW items \in Seq(S), NEW keep
  PROVE  \E f : /\ f[0] = <<>>
                /\ \A n \in 1..Len(items) :
                     f[n] = IF items[n] \in keep THEN Append(f[n - 1], items[n]) ELSE f[n - 1]
                /\ Only(items, keep) = f[Len(items)]
<1> DEFINE N == Len(items)
           step == [p \in Seq(S) \X (1..N) |->
                      IF items[p[2]] \in keep THEN Append(p[1], items[p[2]]) ELSE p[1]]
           Eq(g) == g = [n \in 0..N |-> IF n = 0 THEN <<>>
                          ELSE IF items[n] \in keep THEN Append(g[n - 1], items[n])
                          ELSE g[n - 1]]
<1>1. N \in Nat /\ <<>> \in Seq(S)
  OBVIOUS
<1>2. step \in [Seq(S) \X (1..N) -> Seq(S)]
  <2>1. ASSUME NEW p \in Seq(S) \X (1..N)
        PROVE  (IF items[p[2]] \in keep THEN Append(p[1], items[p[2]]) ELSE p[1]) \in Seq(S)
    <3>1. items[p[2]] \in S
      BY ElementOfSeq
    <3> QED BY <3>1, AppendProperties
  <2> QED BY <2>1
<1>3. PICK f \in [0..N -> Seq(S)] :
        f[0] = <<>> /\ \A n \in 1..N : f[n] = step[<<f[n - 1], n>>]
  <2> DEFINE V == Seq(S)
             empty == <<>>
  <2>1. N \in Nat /\ empty \in V /\ step \in Steps(N, V)
    BY <1>1, <1>2 DEF Steps
  <2> HIDE DEF step, N, V, empty
  <2>2. Iteration(N, V, empty, step)
    BY <2>1, Iterates
  <2> QED BY <2>2 DEF V, empty, Iteration
<1>4. ASSUME NEW n \in 1..N
      PROVE  f[n] = IF items[n] \in keep THEN Append(f[n - 1], items[n]) ELSE f[n - 1]
  <2>1. n - 1 \in 0..N
    OBVIOUS
  <2>2. <<f[n - 1], n>> \in Seq(S) \X (1..N)
    BY <2>1, <1>3
  <2> QED BY <2>2, <1>3
<1>5. Eq(f)
  <2>1. ASSUME NEW n \in 0..N
        PROVE  f[n] = IF n = 0 THEN <<>>
                      ELSE IF items[n] \in keep THEN Append(f[n - 1], items[n])
                      ELSE f[n - 1]
    <3>1. CASE n = 0
      BY <3>1, <1>3
    <3>2. CASE n # 0
      <4>1. n \in 1..N
        BY <3>2, <1>1
      <4> QED BY <4>1, <3>2, <1>4
    <3> QED BY <3>1, <3>2
  <2>2. f = [n \in 0..N |-> f[n]]
    BY <1>3
  <2> HIDE DEF N
  <2> QED BY <2>1, <2>2, Zenon
<1> DEFINE g == CHOOSE h : Eq(h)
<1>6. Eq(g)
  BY <1>5
<1>7. Only(items, keep) = g[N]
  BY DEF Only
<1> HIDE DEF g
<1>8. g[0] = <<>>
  <2>1. 0 \in 0..N
    BY <1>1
  <2> QED BY <1>6, <2>1, Zenon
<1>9. ASSUME NEW n \in 1..N
      PROVE  g[n] = IF items[n] \in keep THEN Append(g[n - 1], items[n]) ELSE g[n - 1]
  <2>1. n \in 0..N /\ n # 0
    BY <1>1
  <2> QED BY <1>6, <2>1, Zenon
<1> QED BY <1>7, <1>8, <1>9

\* r lists the first n items that belong to keep; m says where each is from.
Selected(items, keep, r, n, m) ==
  /\ m \in [1..Len(r) -> 1..n]
  /\ \A i \in 1..Len(r) : r[i] = items[m[i]] /\ r[i] \in keep
  /\ \A i, j \in 1..Len(r) : i < j => m[i] < m[j]
  /\ \A k \in 1..n : items[k] \in keep => \E i \in 1..Len(r) : m[i] = k

\* One more row of the table is looked at.
LEMMA SelectedNext ==
  ASSUME NEW S, NEW items \in Seq(S), NEW keep, NEW n \in Nat, n + 1 <= Len(items),
         NEW r \in Seq(S), NEW m, Selected(items, keep, r, n, m)
  PROVE  LET rr == IF items[n + 1] \in keep THEN Append(r, items[n + 1]) ELSE r
         IN rr \in Seq(S) /\ \E mm : Selected(items, keep, rr, n + 1, mm)
<1>1. CASE items[n + 1] \notin keep
  <2>1. m \in [1..Len(r) -> 1..(n + 1)]
    BY DEF Selected
  <2>2. \A k \in 1..(n + 1) : items[k] \in keep => \E i \in 1..Len(r) : m[i] = k
    <3>1. \A k \in 1..(n + 1) : items[k] \in keep => k \in 1..n
      BY <1>1
    <3> QED BY <3>1 DEF Selected
  <2>3. Selected(items, keep, r, n + 1, m)
    BY <2>1, <2>2 DEF Selected
  <2> QED BY <1>1, <2>3
<1>2. CASE items[n + 1] \in keep
  <2> DEFINE rr == Append(r, items[n + 1])
             mm == [i \in 1..(Len(r) + 1) |-> IF i = Len(r) + 1 THEN n + 1 ELSE m[i]]
  <2>1. items[n + 1] \in S
    BY ElementOfSeq
  <2>2. /\ rr \in Seq(S)
        /\ Len(rr) = Len(r) + 1
        /\ \A i \in 1..Len(r) : rr[i] = r[i]
        /\ rr[Len(r) + 1] = items[n + 1]
    BY <2>1, AppendProperties
  <2>3. Len(r) \in Nat
    OBVIOUS
  <2>4. /\ \A i \in 1..Len(r) : mm[i] = m[i] /\ m[i] \in 1..n
        /\ mm[Len(r) + 1] = n + 1
    BY <2>3 DEF Selected
  <2>5. mm \in [1..(Len(r) + 1) -> 1..(n + 1)]
    BY <2>3 DEF Selected
  <2> HIDE DEF rr, mm
  <2>6. \A i \in 1..(Len(r) + 1) : rr[i] = items[mm[i]] /\ rr[i] \in keep
    <3> SUFFICES ASSUME NEW i \in 1..(Len(r) + 1)
                 PROVE  rr[i] = items[mm[i]] /\ rr[i] \in keep
      OBVIOUS
    <3>1. CASE i = Len(r) + 1
      BY <3>1, <2>2, <2>4, <1>2
    <3>2. CASE i # Len(r) + 1
      <4>1. i \in 1..Len(r)
        BY <3>2, <2>3
      <4> QED BY <4>1, <2>2, <2>4 DEF Selected
    <3> QED BY <3>1, <3>2
  <2>7. \A i, j \in 1..(Len(r) + 1) : i < j => mm[i] < mm[j]
    <3> SUFFICES ASSUME NEW i \in 1..(Len(r) + 1), NEW j \in 1..(Len(r) + 1), i < j
                 PROVE  mm[i] < mm[j]
      OBVIOUS
    <3>1. i \in 1..Len(r)
      BY <2>3
    <3>2. CASE j = Len(r) + 1
      BY <3>1, <3>2, <2>4
    <3>3. CASE j # Len(r) + 1
      <4>1. j \in 1..Len(r)
        BY <3>3, <2>3
      <4> QED BY <3>1, <4>1, <2>4 DEF Selected
    <3> QED BY <3>2, <3>3
  <2>8. \A k \in 1..(n + 1) :
          items[k] \in keep => \E i \in 1..(Len(r) + 1) : mm[i] = k
    <3> SUFFICES ASSUME NEW k \in 1..(n + 1), items[k] \in keep
                 PROVE  \E i \in 1..(Len(r) + 1) : mm[i] = k
      OBVIOUS
    <3>1. CASE k = n + 1
      BY <3>1, <2>3, <2>4
    <3>2. CASE k # n + 1
      <4>1. k \in 1..n
        BY <3>2
      <4>2. PICK i \in 1..Len(r) : m[i] = k
        BY <4>1 DEF Selected
      <4> QED BY <4>2, <2>3, <2>4
    <3> QED BY <3>1, <3>2
  <2>9. Selected(items, keep, rr, n + 1, mm)
    BY <2>2, <2>5, <2>6, <2>7, <2>8 DEF Selected
  <2> QED BY <1>2, <2>2, <2>9 DEF rr
<1> QED BY <1>1, <1>2

\* What is kept are the rows in `keep`, all of them, in their order.
LEMMA OnlySelects ==
  ASSUME NEW S, NEW items \in Seq(S), NEW keep
  PROVE  /\ Only(items, keep) \in Seq(S)
         /\ \E m : Selected(items, keep, Only(items, keep), Len(items), m)
<1>1. PICK f :
        /\ f[0] = <<>>
        /\ \A n \in 1..Len(items) :
             f[n] = IF items[n] \in keep THEN Append(f[n - 1], items[n]) ELSE f[n - 1]
        /\ Only(items, keep) = f[Len(items)]
  BY OnlyIterates
<1> DEFINE So(n) == f[n] \in Seq(S) /\ \E m : Selected(items, keep, f[n], n, m)
           Done == {n \in Nat : n <= Len(items) => So(n)}
<1>2. 0 \in Done
  <2>1. <<>> \in Seq(S) /\ Len(<<>>) = 0
    OBVIOUS
  <2>2. Selected(items, keep, <<>>, 0, [i \in 1..0 |-> i])
    BY DEF Selected
  <2> QED BY <1>1, <2>1, <2>2
<1>3. ASSUME NEW n \in Nat, n \in Done PROVE n + 1 \in Done
  <2> SUFFICES ASSUME n + 1 <= Len(items) PROVE So(n + 1)
    OBVIOUS
  <2>1. So(n)
    BY <1>3
  <2>2. PICK m : Selected(items, keep, f[n], n, m)
    BY <2>1
  <2>3. n + 1 \in 1..Len(items) /\ (n + 1) - 1 = n
    OBVIOUS
  <2>4. f[n + 1] = IF items[n + 1] \in keep THEN Append(f[n], items[n + 1]) ELSE f[n]
    BY <2>3, <1>1
  <2> QED BY <2>1, <2>2, <2>4, SelectedNext
<1> HIDE DEF Done
<1>4. Len(items) \in Done
  BY <1>2, <1>3, NatInd
<1> QED BY <1>1, <1>4 DEF Done

\* Only leaves the items of the set, each as often as it was there.
LEMMA OnlyFacts ==
  ASSUME NEW S, NEW items \in Seq(S), NEW keep
  PROVE  /\ Only(items, keep) \in Seq(S)
         /\ ToSet(Only(items, keep)) = ToSet(items) \cap keep
         /\ Only(items, keep) = <<>> <=> ToSet(items) \cap keep = {}
<1> DEFINE r == Only(items, keep)
<1>1. r \in Seq(S)
  BY OnlySelects
<1>2. PICK m : Selected(items, keep, r, Len(items), m)
  BY OnlySelects
<1> HIDE DEF r
<1>3. DOMAIN r = 1..Len(r) /\ DOMAIN items = 1..Len(items)
  BY <1>1
<1>4. ToSet(r) = ToSet(items) \cap keep
  BY <1>2, <1>3 DEF Selected, ToSet
<1>5. r = <<>> <=> ToSet(r) = {}
  <2>1. r = <<>> => ToSet(r) = {}
    BY <1>3 DEF ToSet
  <2>2. r # <<>> => Len(r) \in Nat \ {0}
    BY <1>1, EmptySeq
  <2>3. r # <<>> => r[1] \in ToSet(r)
    <3>1. r # <<>> => 1 \in DOMAIN r
      BY <2>2, <1>3
    <3> QED BY <3>1 DEF ToSet
  <2> QED BY <2>1, <2>3
<1> QED BY <1>1, <1>4, <1>5 DEF r

\* FlattenSeq appends its sequences one by one, from the first to the last.
LEMMA FlattenIterates ==
  ASSUME NEW S, NEW seqs \in Seq(Seq(S)), seqs # <<>>
  PROVE  \E f : /\ f[1] = seqs[1]
                /\ \A n \in 2..Len(seqs) : f[n] = f[n - 1] \o seqs[n]
                /\ FlattenSeq(seqs) = f[Len(seqs)]
<1> DEFINE N == Len(seqs)
           step == [p \in Seq(S) \X (1..N) |-> p[1] \o seqs[p[2]]]
           Eq(g) == g = [i \in 1..N |-> IF i = 1 THEN seqs[i] ELSE g[i - 1] \o seqs[i]]
<1>1. N \in Nat \ {0} /\ <<>> \in Seq(S)
  BY EmptySeq
<1>2. step \in Steps(N, Seq(S))
  <2>1. ASSUME NEW p \in Seq(S) \X (1..N) PROVE p[1] \o seqs[p[2]] \in Seq(S)
    <3>1. seqs[p[2]] \in Seq(S)
      BY ElementOfSeq
    <3> QED BY <3>1, ConcatProperties
  <2> QED BY <2>1 DEF Steps
<1>3. PICK f \in [0..N -> Seq(S)] :
        f[0] = <<>> /\ \A n \in 1..N : f[n] = step[<<f[n - 1], n>>]
  <2> DEFINE V == Seq(S)
             empty == <<>>
  <2>1. N \in Nat /\ empty \in V /\ step \in Steps(N, V)
    BY <1>1, <1>2
  <2> HIDE DEF step, N, V, empty
  <2>2. Iteration(N, V, empty, step)
    BY <2>1, Iterates
  <2> QED BY <2>2 DEF V, empty, Iteration
<1>4. ASSUME NEW n \in 1..N PROVE f[n] = f[n - 1] \o seqs[n] /\ f[n] \in Seq(S)
  <2>1. n - 1 \in 0..N /\ n \in 0..N
    OBVIOUS
  <2>2. <<f[n - 1], n>> \in Seq(S) \X (1..N)
    BY <2>1, <1>3
  <2> QED BY <2>1, <2>2, <1>3
<1> DEFINE ff == [n \in 1..N |-> f[n]]
<1>5. Eq(ff)
  <2>1. ASSUME NEW n \in 1..N
        PROVE  f[n] = IF n = 1 THEN seqs[n] ELSE ff[n - 1] \o seqs[n]
    <3>1. CASE n = 1
      <4>1. seqs[1] \in Seq(S) /\ 1 \in 1..N
        BY <1>1, ElementOfSeq
      <4>2. <<>> \o seqs[1] = seqs[1]
        BY <4>1, ConcatEmptySeq
      <4>3. f[1] = f[0] \o seqs[1]
        <5>1. n \in 1..N => f[n] = f[n - 1] \o seqs[n]
          BY <1>4
        <5>2. n - 1 = 0
          BY <3>1
        <5> QED BY <3>1, <5>1, <5>2
      <4> QED BY <3>1, <4>2, <4>3, <1>3
    <3>2. CASE n # 1
      <4>1. n - 1 \in 1..N
        BY <3>2, <1>1
      <4> QED BY <4>1, <3>2, <1>4
    <3> QED BY <3>1, <3>2
  <2> HIDE DEF N
  <2> QED BY <2>1, Zenon
<1> DEFINE g == CHOOSE h : Eq(h)
<1>6. Eq(g)
  <2> HIDE DEF ff
  <2> QED BY <1>5
<1>7. FlattenSeq(seqs) = g[N]
  BY <1>1 DEF FlattenSeq
<1> HIDE DEF g
<1>8. g[1] = seqs[1]
  <2>1. 1 \in 1..N
    BY <1>1
  <2> QED BY <1>6, <2>1, Zenon
<1>9. ASSUME NEW n \in 2..N PROVE g[n] = g[n - 1] \o seqs[n]
  <2>1. n \in 1..N /\ n # 1
    BY <1>1
  <2> QED BY <1>6, <2>1, Zenon
<1> QED BY <1>7, <1>8, <1>9

\* r lists what the first n sequences list; b and o say from which, and where.
Flattened(seqs, r, n, b, o) ==
  /\ b \in [1..Len(r) -> 1..n] /\ o \in [1..Len(r) -> Nat]
  /\ \A i \in 1..Len(r) : o[i] \in 1..Len(seqs[b[i]]) /\ r[i] = seqs[b[i]][o[i]]
  /\ \A i, j \in 1..Len(r) : i < j => b[i] < b[j] \/ (b[i] = b[j] /\ o[i] < o[j])
  /\ \A i \in 1..Len(r) :
       o[i] > 1 => i > 1 /\ b[i - 1] = b[i] /\ o[i - 1] = o[i] - 1
  /\ \A k \in 1..n : \A p \in 1..Len(seqs[k]) : \E i \in 1..Len(r) : b[i] = k /\ o[i] = p

\* The first sequence is flattened.
LEMMA FlattenedFirst ==
  ASSUME NEW S, NEW seqs \in Seq(Seq(S)), 1 \in 1..Len(seqs)
  PROVE  \E b, o : Flattened(seqs, seqs[1], 1, b, o)
<1> DEFINE b == [i \in 1..Len(seqs[1]) |-> 1]
           o == [i \in 1..Len(seqs[1]) |-> i]
<1>1. seqs[1] \in Seq(S) /\ Len(seqs[1]) \in Nat
  <2>1. seqs[1] \in Seq(S)
    BY ElementOfSeq
  <2> QED BY <2>1
<1>2. Flattened(seqs, seqs[1], 1, b, o)
  BY <1>1 DEF Flattened
<1> QED BY <1>2

\* One more sequence is appended.
LEMMA FlattenedNext ==
  ASSUME NEW S, NEW seqs \in Seq(Seq(S)), NEW n \in Nat, n + 1 \in 1..Len(seqs),
         NEW r \in Seq(S), NEW b, NEW o, Flattened(seqs, r, n, b, o)
  PROVE  \E bb, oo : Flattened(seqs, r \o seqs[n + 1], n + 1, bb, oo)
<1> DEFINE new == seqs[n + 1]
           rr == r \o new
           L == Len(r)
           bb == [i \in 1..(L + Len(new)) |-> IF i <= L THEN b[i] ELSE n + 1]
           oo == [i \in 1..(L + Len(new)) |-> IF i <= L THEN o[i] ELSE i - L]
<1>1. new \in Seq(S) /\ Len(new) \in Nat /\ L \in Nat
  <2>1. new \in Seq(S)
    BY ElementOfSeq
  <2> QED BY <2>1
<1>2. /\ Len(rr) = L + Len(new)
      /\ \A i \in 1..(L + Len(new)) : rr[i] = IF i <= L THEN r[i] ELSE new[i - L]
  BY <1>1, ConcatProperties
<1>3. \A i \in 1..Len(rr) : i <= L =>
        i \in 1..L /\ bb[i] = b[i] /\ oo[i] = o[i] /\ rr[i] = r[i]
  BY <1>1, <1>2
<1>4. \A i \in 1..Len(rr) : ~(i <= L) =>
        /\ i - L \in 1..Len(new)
        /\ bb[i] = n + 1 /\ oo[i] = i - L /\ rr[i] = new[i - L]
  BY <1>1, <1>2
<1>5. \A i \in 1..L : i \in 1..Len(rr)
  BY <1>1, <1>2
<1>6. \A i \in 1..L : b[i] \in 1..n /\ o[i] \in Nat
  BY DEF Flattened
<1>7. bb \in [1..Len(rr) -> 1..(n + 1)] /\ oo \in [1..Len(rr) -> Nat]
  <2>1. \A i \in 1..Len(rr) : bb[i] \in 1..(n + 1) /\ oo[i] \in Nat
    <3> SUFFICES ASSUME NEW i \in 1..Len(rr) PROVE bb[i] \in 1..(n + 1) /\ oo[i] \in Nat
      OBVIOUS
    <3>1. CASE i <= L
      <4>1. i \in 1..L /\ bb[i] = b[i] /\ oo[i] = o[i]
        BY <3>1, <1>3
      <4> HIDE DEF bb, oo
      <4> QED BY <4>1, <1>6
    <3>2. CASE ~(i <= L)
      <4>1. i - L \in 1..Len(new) /\ bb[i] = n + 1 /\ oo[i] = i - L
        BY <3>2, <1>4
      <4> HIDE DEF bb, oo
      <4> QED BY <4>1
    <3> QED BY <3>1, <3>2
  <2> QED BY <2>1, <1>2
<1> HIDE DEF bb, oo, rr, L, new
<1>8. \A i \in 1..Len(rr) : oo[i] \in 1..Len(seqs[bb[i]]) /\ rr[i] = seqs[bb[i]][oo[i]]
  <2> SUFFICES ASSUME NEW i \in 1..Len(rr)
               PROVE  oo[i] \in 1..Len(seqs[bb[i]]) /\ rr[i] = seqs[bb[i]][oo[i]]
    OBVIOUS
  <2>1. CASE i <= L
    <3>1. i \in 1..L /\ bb[i] = b[i] /\ oo[i] = o[i] /\ rr[i] = r[i]
      BY <2>1, <1>3
    <3> QED BY <3>1 DEF Flattened, L
  <2>2. CASE ~(i <= L)
    BY <2>2, <1>4 DEF new
  <2> QED BY <2>1, <2>2
<1>9. \A i, j \in 1..Len(rr) : i < j => bb[i] < bb[j] \/ (bb[i] = bb[j] /\ oo[i] < oo[j])
  <2> SUFFICES ASSUME NEW i \in 1..Len(rr), NEW j \in 1..Len(rr), i < j
               PROVE  bb[i] < bb[j] \/ (bb[i] = bb[j] /\ oo[i] < oo[j])
    OBVIOUS
  <2>1. CASE j <= L
    <3>1. i <= L
      BY <2>1, <1>1
    <3>2. i \in 1..L /\ bb[i] = b[i] /\ oo[i] = o[i]
      BY <3>1, <1>3
    <3>3. j \in 1..L /\ bb[j] = b[j] /\ oo[j] = o[j]
      BY <2>1, <1>3
    <3> QED BY <3>2, <3>3 DEF Flattened, L
  <2>2. CASE i <= L /\ ~(j <= L)
    <3>1. i \in 1..L /\ bb[i] = b[i]
      BY <2>2, <1>3
    <3>2. bb[j] = n + 1
      BY <2>2, <1>4
    <3> QED BY <3>1, <3>2, <1>6
  <2>3. CASE ~(i <= L)
    <3>1. ~(j <= L)
      BY <2>3, <1>1
    <3>2. bb[i] = n + 1 /\ oo[i] = i - L
      BY <2>3, <1>4
    <3>3. bb[j] = n + 1 /\ oo[j] = j - L
      BY <3>1, <1>4
    <3> QED BY <3>2, <3>3, <1>1
  <2> QED BY <2>1, <2>2, <2>3
<1>10. \A i \in 1..Len(rr) :
         oo[i] > 1 => i > 1 /\ bb[i - 1] = bb[i] /\ oo[i - 1] = oo[i] - 1
  <2> SUFFICES ASSUME NEW i \in 1..Len(rr), oo[i] > 1
               PROVE  i > 1 /\ bb[i - 1] = bb[i] /\ oo[i - 1] = oo[i] - 1
    OBVIOUS
  <2>1. CASE i <= L
    <3>1. i \in 1..L /\ bb[i] = b[i] /\ oo[i] = o[i]
      BY <2>1, <1>3
    <3>2. i > 1 /\ b[i - 1] = b[i] /\ o[i - 1] = o[i] - 1
      BY <3>1 DEF Flattened, L
    <3>3. i - 1 \in 1..Len(rr) /\ i - 1 <= L
      BY <3>1, <3>2, <1>5, <1>1
    <3>4. bb[i - 1] = b[i - 1] /\ oo[i - 1] = o[i - 1]
      BY <3>3, <1>3
    <3> QED BY <3>1, <3>2, <3>4
  <2>2. CASE ~(i <= L)
    <3>1. bb[i] = n + 1 /\ oo[i] = i - L
      BY <2>2, <1>4
    <3>2. i > 1 /\ i - 1 \in 1..Len(rr) /\ ~(i - 1 <= L)
      BY <3>1, <1>1, <1>2
    <3>3. bb[i - 1] = n + 1 /\ oo[i - 1] = (i - 1) - L
      BY <3>2, <1>4
    <3> QED BY <3>1, <3>2, <3>3, <1>1
  <2> QED BY <2>1, <2>2
<1>11. \A k \in 1..(n + 1) : \A p \in 1..Len(seqs[k]) :
         \E i \in 1..Len(rr) : bb[i] = k /\ oo[i] = p
  <2> SUFFICES ASSUME NEW k \in 1..(n + 1), NEW p \in 1..Len(seqs[k])
               PROVE  \E i \in 1..Len(rr) : bb[i] = k /\ oo[i] = p
    OBVIOUS
  <2>1. CASE k = n + 1
    <3>1. p \in 1..Len(new)
      BY <2>1 DEF new
    <3>2. p + L \in 1..Len(rr) /\ ~(p + L <= L)
      BY <3>1, <1>1, <1>2
    <3>3. bb[p + L] = n + 1 /\ oo[p + L] = (p + L) - L
      BY <3>2, <1>4
    <3> QED BY <2>1, <3>1, <3>2, <3>3, <1>1
  <2>2. CASE k # n + 1
    <3>1. k \in 1..n
      BY <2>2
    <3>2. PICK i \in 1..L : b[i] = k /\ o[i] = p
      BY <3>1 DEF Flattened, L
    <3>3. i \in 1..Len(rr) /\ i <= L
      BY <1>5, <1>1
    <3> QED BY <3>2, <3>3, <1>3
  <2> QED BY <2>1, <2>2
<1>12. Flattened(seqs, rr, n + 1, bb, oo)
  BY <1>7, <1>8, <1>9, <1>10, <1>11 DEF Flattened
<1> QED BY <1>12 DEF rr, new

\* Each element of a flattened sequence is an element of one of its sequences.
LEMMA FlattenFacts ==
  ASSUME NEW S, NEW seqs \in Seq(Seq(S))
  PROVE  /\ FlattenSeq(seqs) \in Seq(S)
         /\ \E b, o : Flattened(seqs, FlattenSeq(seqs), Len(seqs), b, o)
<1>1. CASE seqs = <<>>
  <2>1. Len(seqs) = 0 /\ FlattenSeq(seqs) = <<>>
    BY <1>1 DEF FlattenSeq
  <2>2. <<>> \in Seq(S) /\ Len(<<>>) = 0
    OBVIOUS
  <2>3. Flattened(seqs, <<>>, 0, [i \in 1..0 |-> i], [i \in 1..0 |-> i])
    BY <2>2 DEF Flattened
  <2> QED BY <2>1, <2>2, <2>3
<1>2. CASE seqs # <<>>
  <2>1. PICK f : /\ f[1] = seqs[1]
                 /\ \A n \in 2..Len(seqs) : f[n] = f[n - 1] \o seqs[n]
                 /\ FlattenSeq(seqs) = f[Len(seqs)]
    BY <1>2, FlattenIterates
  <2>2. Len(seqs) \in Nat \ {0}
    BY <1>2, EmptySeq
  <2> DEFINE So(n) == f[n] \in Seq(S) /\ \E b, o : Flattened(seqs, f[n], n, b, o)
             Done == {n \in Nat : n \in 1..Len(seqs) => So(n)}
  <2>3. 0 \in Done
    OBVIOUS
  <2>4. ASSUME NEW n \in Nat, n \in Done PROVE n + 1 \in Done
    <3> SUFFICES ASSUME n + 1 \in 1..Len(seqs) PROVE So(n + 1)
      OBVIOUS
    <3>1. seqs[n + 1] \in Seq(S)
      BY ElementOfSeq
    <3>2. CASE n = 0
      <4>1. 1 \in 1..Len(seqs) /\ f[n + 1] = seqs[1] /\ n + 1 = 1
        BY <3>2, <2>1, <2>2
      <4>2. \E b, o : Flattened(seqs, seqs[1], 1, b, o)
        BY <4>1, FlattenedFirst
      <4> QED BY <4>1, <4>2, <3>1
    <3>3. CASE n # 0
      <4>1. n \in 1..Len(seqs) /\ n + 1 \in 2..Len(seqs) /\ (n + 1) - 1 = n
        BY <3>3
      <4>2. So(n)
        BY <4>1, <2>4
      <4>3. f[n + 1] = f[n] \o seqs[n + 1]
        BY <4>1, <2>1
      <4>4. f[n + 1] \in Seq(S)
        BY <4>2, <4>3, <3>1, ConcatProperties
      <4>5. PICK b, o : Flattened(seqs, f[n], n, b, o)
        BY <4>2
      <4>6. \E bb, oo : Flattened(seqs, f[n] \o seqs[n + 1], n + 1, bb, oo)
        BY <4>2, <4>5, FlattenedNext
      <4> QED BY <4>3, <4>4, <4>6
    <3> QED BY <3>2, <3>3
  <2> HIDE DEF Done
  <2>5. Len(seqs) \in Done
    BY <2>2, <2>3, <2>4, NatInd
  <2> QED BY <2>1, <2>2, <2>5 DEF Done
<1> QED BY <1>1, <1>2

-----------------------------------------------------------------------------
(* Rows                                                                    *)

\* Without leaves the items whose key is not among the others'.
LEMMA WithoutFacts ==
  ASSUME NEW S, NEW items \in Seq(S), NEW others, NEW key
  PROVE  /\ Without(items, others, key) \in Seq(S)
         /\ ToSet(Without(items, others, key))
              = {i \in ToSet(items) : key[i] \notin {key[o] : o \in ToSet(others)}}
         /\ Without(items, others, key) = <<>> <=>
              \A i \in ToSet(items) : \E o \in ToSet(others) : key[i] = key[o]
<1> DEFINE keys == {key[o] : o \in ToSet(others)}
           keep == {i \in ToSet(items) : key[i] \notin keys}
<1>1. Without(items, others, key) = Only(items, keep)
  BY DEF Without
<1>2. ToSet(items) \cap keep = keep
  OBVIOUS
<1>3. /\ Only(items, keep) \in Seq(S)
      /\ ToSet(Only(items, keep)) = ToSet(items) \cap keep
      /\ Only(items, keep) = <<>> <=> ToSet(items) \cap keep = {}
  <2> HIDE DEF keep
  <2> QED BY OnlyFacts
<1> QED BY <1>1, <1>2, <1>3

\* No two rows of a table have one name.
Apart(rows) ==
  \A i, j \in DOMAIN rows : Fold[rows[i].name] = Fold[rows[j].name] => i = j

\* A table has no duplicate name when no two of its rows have the same one.
LEMMA ApartMeansNoDuplicates ==
  ASSUME NEW rows \in Seq(Service)
  PROVE  Apart(rows) <=> DuplicateNames(rows) = {}
<1> DEFINE same(n) == {i \in DOMAIN rows : Fold[rows[i].name] = n}
<1>1. DOMAIN rows = 1..Len(rows) /\ Len(rows) \in Nat
  OBVIOUS
<1>2. \A n : IsFiniteSet(same(n)) /\ Cardinality(same(n)) \in Nat
  <2> SUFFICES ASSUME NEW n PROVE IsFiniteSet(same(n)) /\ Cardinality(same(n)) \in Nat
    OBVIOUS
  <2>1. IsFiniteSet(1..Len(rows))
    BY <1>1, FS_Interval
  <2>2. same(n) \in SUBSET (1..Len(rows))
    BY <1>1
  <2> HIDE DEF same
  <2> QED BY <2>1, <2>2, FS_Subset, FS_CardinalityType
<1>3. ASSUME Apart(rows), NEW n \in Names PROVE ~(Cardinality(same(n)) > 1)
  <2>1. CASE same(n) = {}
    <3> HIDE DEF same
    <3> QED BY <2>1, FS_EmptySet
  <2>2. CASE same(n) # {}
    <3>1. PICK i : i \in same(n)
      BY <2>2
    <3>2. same(n) = {i}
      BY <1>3, <3>1 DEF Apart
    <3> HIDE DEF same
    <3>3. Cardinality({i}) = 1
      BY FS_Singleton
    <3> QED BY <3>2, <3>3
  <2> QED BY <2>1, <2>2
<1>4. ASSUME DuplicateNames(rows) = {}, NEW i \in DOMAIN rows, NEW j \in DOMAIN rows,
             Fold[rows[i].name] = Fold[rows[j].name], i # j
      PROVE  FALSE
  <2> DEFINE n == Fold[rows[i].name]
  <2>1. rows[i] \in Service
    BY <1>1, ElementOfSeq
  <2>2. n \in Names
    BY <2>1, SnapshotAssumption DEF Service
  <2>3. i \in same(n) /\ j \in same(n)
    BY <1>4
  <2>4. Cardinality(same(n)) > 1
    <3> HIDE DEF same, n
    <3>1. IsFiniteSet({i}) /\ Cardinality({i}) = 1
      BY FS_Singleton
    <3>2. Cardinality({i}) <= Cardinality(same(n)) /\ (Cardinality(same(n)) = Cardinality({i}) => same(n) = {i})
      <4>1. {i} \in SUBSET same(n)
        BY <2>3
      <4> QED BY <4>1, <1>2, FS_Subset
    <3>3. same(n) # {i}
      BY <2>3, <1>4
    <3> QED BY <3>1, <3>2, <3>3, <1>2
  <2>5. n \in DuplicateNames(rows)
    BY <2>2, <2>4 DEF DuplicateNames
  <2> QED BY <2>5, <1>4
<1>5. Apart(rows) => DuplicateNames(rows) = {}
  BY <1>3 DEF DuplicateNames
<1>6. DuplicateNames(rows) = {} => Apart(rows)
  BY <1>4 DEF Apart
<1> QED BY <1>5, <1>6

\* What is left of a table whose names are apart has them apart as well.
LEMMA WithoutStaysApart ==
  ASSUME NEW rows \in Seq(Service), Apart(rows), NEW others, NEW key
  PROVE  Apart(Without(rows, others, key))
<1> DEFINE keep == {i \in ToSet(rows) : key[i] \notin {key[o] : o \in ToSet(others)}}
           r == Only(rows, keep)
<1>1. Without(rows, others, key) = r
  BY DEF Without
<1> HIDE DEF keep
<1>2. r \in Seq(Service) /\ \E m : Selected(rows, keep, r, Len(rows), m)
  BY OnlySelects
<1>3. PICK m : Selected(rows, keep, r, Len(rows), m)
  BY <1>2
<1>4. DOMAIN r = 1..Len(r) /\ Len(r) \in Nat /\ DOMAIN rows = 1..Len(rows)
  BY <1>2
<1> HIDE DEF r
<1>5. ASSUME NEW i \in 1..Len(r), NEW j \in 1..Len(r), i < j,
             Fold[r[i].name] = Fold[r[j].name]
      PROVE  FALSE
  <2>1. m[i] \in 1..Len(rows) /\ m[j] \in 1..Len(rows) /\ m[i] < m[j]
    BY <1>3, <1>5 DEF Selected
  <2>2. r[i] = rows[m[i]] /\ r[j] = rows[m[j]]
    BY <1>3 DEF Selected
  <2>3. m[i] = m[j]
    BY <2>1, <2>2, <1>5, <1>4 DEF Apart
  <2> QED BY <2>1, <2>3
<1>6. \A i, j \in DOMAIN r : Fold[r[i].name] = Fold[r[j].name] => i = j
  <2> SUFFICES ASSUME NEW i \in 1..Len(r), NEW j \in 1..Len(r),
                      Fold[r[i].name] = Fold[r[j].name], i # j
               PROVE  FALSE
    BY <1>4
  <2>1. i < j \/ j < i
    BY <1>4
  <2> QED BY <2>1, <1>5
<1> QED BY <1>1, <1>6 DEF Apart

\* A row put into a table, and one taken out of it.
LEMMA InsertFacts ==
  ASSUME NEW S, NEW rows \in Seq(S), NEW row \in S, NEW at \in 1..(Len(rows) + 1)
  PROVE  /\ InsertAt(rows, at, row) \in Seq(S)
         /\ Len(InsertAt(rows, at, row)) = Len(rows) + 1
         /\ InsertAt(rows, at, row)[at] = row
         /\ \A i \in 1..(Len(rows) + 1) :
              /\ i < at => InsertAt(rows, at, row)[i] = rows[i]
              /\ i > at => InsertAt(rows, at, row)[i] = rows[i - 1]
         /\ ToSet(InsertAt(rows, at, row)) = ToSet(rows) \cup {row}
<1> DEFINE L == Len(rows)
           a == SubSeq(rows, 1, at - 1)
           b == SubSeq(rows, at, L)
           ab == a \o <<row>>
           r == ab \o b
<1>1. L \in Nat /\ at \in Nat /\ DOMAIN rows = 1..L
  OBVIOUS
<1>2. /\ a \in Seq(S) /\ Len(a) = at - 1
      /\ \A i \in 1..(at - 1) : a[i] = rows[i]
  <2>1. \A i \in 1..(at - 1) : rows[i] \in S
    BY <1>1, ElementOfSeq
  <2>2. a \in Seq(S) /\ Len(a) = (IF 1 <= at - 1 THEN (at - 1) - 1 + 1 ELSE 0)
        /\ \A i \in 1..((at - 1) - 1 + 1) : a[i] = rows[1 + i - 1]
    BY <2>1, <1>1, SubSeqProperties, at - 1 \in Int
  <2> HIDE DEF a
  <2> QED BY <2>2, <1>1
<1>3. /\ b \in Seq(S) /\ Len(b) = L - at + 1
      /\ \A i \in 1..(L - at + 1) : b[i] = rows[at + i - 1]
  <2>1. \A i \in at..L : rows[i] \in S
    BY <1>1, ElementOfSeq
  <2>2. b \in Seq(S) /\ Len(b) = (IF at <= L THEN L - at + 1 ELSE 0)
        /\ \A i \in 1..(L - at + 1) : b[i] = rows[at + i - 1]
    BY <2>1, <1>1, SubSeqProperties
  <2> HIDE DEF b
  <2> QED BY <2>2, <1>1
<1>4. <<row>> \in Seq(S) /\ Len(<<row>>) = 1 /\ <<row>>[1] = row
  OBVIOUS
<1>5. /\ ab \in Seq(S) /\ Len(ab) = at
      /\ \A i \in 1..at : ab[i] = IF i < at THEN rows[i] ELSE row
  <2> DEFINE one == <<row>>
  <2>1. one \in Seq(S) /\ Len(one) = 1 /\ one[1] = row
    BY <1>4
  <2> HIDE DEF a, one
  <2>2. a \o one \in Seq(S) /\ Len(a \o one) = Len(a) + Len(one)
        /\ \A i \in 1..(Len(a) + Len(one)) :
             (a \o one)[i] = IF i <= Len(a) THEN a[i] ELSE one[i - Len(a)]
    BY <1>2, <2>1, ConcatProperties
  <2>3. \A i \in 1..at : (a \o one)[i] = IF i < at THEN rows[i] ELSE row
    BY <2>1, <2>2, <1>2, <1>1
  <2> QED BY <2>1, <2>2, <2>3, <1>2, <1>1 DEF one
<1>6. /\ r \in Seq(S) /\ Len(r) = L + 1
      /\ \A i \in 1..(L + 1) : r[i] = IF i < at THEN rows[i] ELSE IF i = at THEN row ELSE rows[i - 1]
  <2> HIDE DEF ab, b
  <2>1. ab \o b \in Seq(S) /\ Len(ab \o b) = Len(ab) + Len(b)
        /\ \A i \in 1..(Len(ab) + Len(b)) :
             (ab \o b)[i] = IF i <= Len(ab) THEN ab[i] ELSE b[i - Len(ab)]
    BY <1>3, <1>5, ConcatProperties
  <2>2. ASSUME NEW i \in 1..(L + 1)
        PROVE  (ab \o b)[i] = IF i < at THEN rows[i] ELSE IF i = at THEN row ELSE rows[i - 1]
    <3>1. CASE i <= at
      BY <3>1, <2>1, <1>3, <1>5, <1>1
    <3>2. CASE i > at
      <4>1. i - at \in 1..(L - at + 1) /\ at + (i - at) - 1 = i - 1
        BY <3>2, <1>1
      <4>2. b[i - at] = rows[i - 1]
        BY <4>1, <1>3
      <4>3. i \in 1..(Len(ab) + Len(b)) /\ ~(i <= Len(ab)) /\ i - Len(ab) = i - at
        BY <3>2, <1>3, <1>5, <1>1
      <4>4. (ab \o b)[i] = b[i - at]
        BY <4>3, <2>1
      <4>5. ~(i < at) /\ i # at
        BY <3>2, <1>1
      <4> QED BY <4>2, <4>4, <4>5
    <3>3. i <= at \/ i > at
      BY <1>1
    <3> QED BY <3>1, <3>2, <3>3
  <2> QED BY <2>1, <2>2, <1>3, <1>5, <1>1
<1>7. InsertAt(rows, at, row) = r
  BY DEF InsertAt
<1> HIDE DEF r
<1>8. DOMAIN r = 1..(L + 1)
  BY <1>6
<1>9. ToSet(r) = ToSet(rows) \cup {row}
  <2>1. ASSUME NEW i \in 1..(L + 1) PROVE r[i] \in ToSet(rows) \cup {row}
    <3>1. i < at => i \in 1..L
      BY <1>1
    <3>2. i > at => i - 1 \in 1..L
      BY <1>1
    <3>3. CASE i < at
      <4>1. r[i] = rows[i] /\ i \in DOMAIN rows
        BY <3>1, <3>3, <1>6, <1>1
      <4> QED BY <4>1 DEF ToSet
    <3>4. CASE i = at
      BY <3>4, <1>6, <1>1
    <3>5. CASE i > at
      <4>1. ~(i < at) /\ i # at
        BY <3>5, <1>1
      <4>2. r[i] = rows[i - 1] /\ i - 1 \in DOMAIN rows
        BY <3>2, <3>5, <4>1, <1>6, <1>1
      <4> QED BY <4>2 DEF ToSet
    <3> QED BY <3>3, <3>4, <3>5, <1>1
  <2>2. ASSUME NEW i \in 1..L PROVE \E k \in 1..(L + 1) : r[k] = rows[i]
    <3>1. CASE i < at
      BY <3>1, <1>6, <1>1
    <3>2. CASE ~(i < at)
      <4>1. i + 1 \in 1..(L + 1) /\ ~(i + 1 < at) /\ i + 1 # at /\ (i + 1) - 1 = i
        BY <3>2, <1>1
      <4> QED BY <4>1, <1>6
    <3> QED BY <3>1, <3>2
  <2>3. at \in 1..(L + 1) /\ r[at] = row
    BY <1>6, <1>1
  <2> QED BY <2>1, <2>2, <2>3, <1>8, <1>1 DEF ToSet
<1> QED BY <1>6, <1>7, <1>9, <1>1

\* What RemoveAt leaves: every other row, in its order.
LEMMA RemoveFacts ==
  ASSUME NEW S, NEW rows \in Seq(S), NEW at \in 1..Len(rows)
  PROVE  /\ RemoveAt(rows, at) \in Seq(S)
         /\ Len(RemoveAt(rows, at)) = Len(rows) - 1
         /\ \A i \in 1..(Len(rows) - 1) :
              RemoveAt(rows, at)[i] = IF i < at THEN rows[i] ELSE rows[i + 1]
         /\ ToSet(RemoveAt(rows, at)) = {rows[i] : i \in 1..Len(rows) \ {at}}
<1> DEFINE L == Len(rows)
           a == SubSeq(rows, 1, at - 1)
           b == SubSeq(rows, at + 1, L)
           r == a \o b
<1>1. L \in Nat /\ at \in Nat /\ DOMAIN rows = 1..L
  OBVIOUS
<1>2. /\ a \in Seq(S) /\ Len(a) = at - 1
      /\ \A i \in 1..(at - 1) : a[i] = rows[i]
  <2>1. \A i \in 1..(at - 1) : rows[i] \in S
    BY <1>1, ElementOfSeq
  <2>2. a \in Seq(S) /\ Len(a) = (IF 1 <= at - 1 THEN (at - 1) - 1 + 1 ELSE 0)
        /\ \A i \in 1..((at - 1) - 1 + 1) : a[i] = rows[1 + i - 1]
    BY <2>1, <1>1, SubSeqProperties, at - 1 \in Int
  <2> HIDE DEF a
  <2> QED BY <2>2, <1>1
<1>3. /\ b \in Seq(S) /\ Len(b) = L - at
      /\ \A i \in 1..(L - at) : b[i] = rows[at + i]
  <2>1. \A i \in (at + 1)..L : rows[i] \in S
    BY <1>1, ElementOfSeq
  <2>2. b \in Seq(S) /\ Len(b) = (IF at + 1 <= L THEN L - (at + 1) + 1 ELSE 0)
        /\ \A i \in 1..(L - (at + 1) + 1) : b[i] = rows[(at + 1) + i - 1]
    <3> DEFINE from == at + 1
    <3>1. from \in Int /\ L \in Int /\ \A i \in from..L : rows[i] \in S
      BY <2>1, <1>1
    <3> HIDE DEF from
    <3>2. /\ SubSeq(rows, from, L) \in Seq(S)
          /\ Len(SubSeq(rows, from, L)) = IF from <= L THEN L - from + 1 ELSE 0
          /\ \A i \in 1..(L - from + 1) : SubSeq(rows, from, L)[i] = rows[from + i - 1]
      BY <3>1, SubSeqProperties
    <3> QED BY <3>2 DEF from
  <2> HIDE DEF b
  <2>3. Len(b) = L - at /\ L - (at + 1) + 1 = L - at
    <3>1. Len(b) = (IF at + 1 <= L THEN L - (at + 1) + 1 ELSE 0)
      BY <2>2
    <3>2. at <= L
      OBVIOUS
    <3> HIDE DEF L
    <3> QED BY <3>1, <3>2, <1>1
  <2>4. ASSUME NEW i \in 1..(L - at) PROVE b[i] = rows[at + i]
    <3>1. i \in 1..(L - (at + 1) + 1) /\ (at + 1) + i - 1 = at + i
      BY <1>1
    <3> QED BY <3>1, <2>2
  <2> QED BY <2>2, <2>3, <2>4
<1>4. /\ r \in Seq(S) /\ Len(r) = L - 1
      /\ \A i \in 1..(L - 1) : r[i] = IF i < at THEN rows[i] ELSE rows[i + 1]
  <2> HIDE DEF a, b
  <2>1. a \o b \in Seq(S) /\ Len(a \o b) = Len(a) + Len(b)
        /\ \A i \in 1..(Len(a) + Len(b)) :
             (a \o b)[i] = IF i <= Len(a) THEN a[i] ELSE b[i - Len(a)]
    BY <1>2, <1>3, ConcatProperties
  <2>2. ASSUME NEW i \in 1..(L - 1)
        PROVE  (a \o b)[i] = IF i < at THEN rows[i] ELSE rows[i + 1]
    <3>1. CASE i < at
      BY <3>1, <2>1, <1>2, <1>3, <1>1
    <3>2. CASE ~(i < at)
      <4>1. i - (at - 1) \in 1..(L - at) /\ at + (i - (at - 1)) = i + 1
        BY <3>2, <1>1
      <4>2. b[i - (at - 1)] = rows[i + 1]
        BY <4>1, <1>3
      <4> QED BY <3>2, <4>2, <2>1, <1>2, <1>3, <1>1
    <3> QED BY <3>1, <3>2, <1>1
  <2> QED BY <2>1, <2>2, <1>2, <1>3, <1>1
<1>5. RemoveAt(rows, at) = r
  BY DEF RemoveAt
<1> HIDE DEF r
<1>6. DOMAIN r = 1..(L - 1)
  BY <1>4, <1>1
<1>7. ToSet(r) = {rows[i] : i \in 1..L \ {at}}
  <2>1. ASSUME NEW i \in 1..(L - 1) PROVE \E k \in 1..L \ {at} : r[i] = rows[k]
    <3>1. CASE i < at
      BY <3>1, <1>4, <1>1
    <3>2. CASE ~(i < at)
      <4>1. i + 1 \in 1..L \ {at}
        BY <3>2, <1>1
      <4> QED BY <3>2, <4>1, <1>4
    <3> QED BY <3>1, <3>2
  <2>2. ASSUME NEW k \in 1..L \ {at} PROVE \E i \in 1..(L - 1) : r[i] = rows[k]
    <3>1. CASE k < at
      BY <3>1, <1>4, <1>1
    <3>2. CASE ~(k < at)
      <4>1. k - 1 \in 1..(L - 1) /\ ~(k - 1 < at) /\ (k - 1) + 1 = k
        BY <3>2, <1>1
      <4>2. r[k - 1] = rows[(k - 1) + 1]
        BY <4>1, <1>4
      <4> QED BY <4>1, <4>2
    <3> QED BY <3>1, <3>2
  <2>3. ToSet(r) = {r[i] : i \in 1..(L - 1)}
    BY <1>6 DEF ToSet
  <2> HIDE DEF L
  <2>4. ToSet(r) \subseteq {rows[i] : i \in 1..L \ {at}}
    BY <2>1, <2>3
  <2>5. {rows[i] : i \in 1..L \ {at}} \subseteq ToSet(r)
    BY <2>2, <2>3
  <2> QED BY <2>4, <2>5
<1> QED BY <1>4, <1>5, <1>7, <1>1

-----------------------------------------------------------------------------
(* Pages, dumps and differences                                            *)

\* What the pages of a gateway are made of.
LEMMA PagesFields ==
  ASSUME NEW now \in Pages
  PROVE  /\ now.services \in Seq(Service) /\ now.forwards \in Seq(Forward)
         /\ now.fixed \in [Devices -> Ips \cup {NoIp}]
         /\ now.listed \subseteq Devices /\ now.label \in [Devices -> Labels]
         /\ \A page \in FormPages : now.forms[page] \in Form(page)
         /\ now.menus \in BOOLEAN /\ now.buttons \in BOOLEAN
<1>1. \A page \in FormPages : now.forms[page] \in Form(page)
  BY DEF Pages, FormPages
<1> QED BY <1>1 DEF Pages

\* What a dump is made of; the loader refuses one with two services of one name.
LEMMA DumpFields ==
  ASSUME NEW dump \in Dumps
  PROVE  /\ dump.services \in Seq(Service) /\ dump.forwards \in Seq(Forward)
         /\ dump.fixed \in [Devices -> Ips \cup {NoIp}]
         /\ \A page \in FormPages : dump.forms[page] \in DumpedForm(page)
         /\ Apart(dump.services)
<1>1. \A page \in FormPages : dump.forms[page] \in DumpedForm(page)
  BY DEF Dumps, FormPages
<1>2. dump.services \in Seq(Service) /\ DuplicateNames(dump.services) = {}
  BY DEF Dumps
<1>3. Apart(dump.services)
  BY <1>2, ApartMeansNoDuplicates
<1> QED BY <1>1, <1>2, <1>3 DEF Dumps

\* The key of a service folds the case of its name.
LEMMA ServiceKeys ==
  ASSUME NEW s \in Service
  PROVE  /\ s.name \in Names /\ s.kind \in Kinds /\ Fold[s.name] \in Names
         /\ ServiceKey[s] = <<Fold[s.name], s.kind>>
BY SnapshotAssumption DEF Service, ServiceKey

\* The key of a forward folds the case of its service.
LEMMA ForwardKeys ==
  ASSUME NEW f \in Forward
  PROVE  /\ f.service \in Names /\ f.device \in Devices /\ Fold[f.service] \in Names
         /\ ForwardKey[f] = <<Fold[f.service], f.device>>
BY SnapshotAssumption DEF Forward, ForwardKey

\* What the two tables differ in.
LEMMA DiffRows ==
  ASSUME NEW dump \in Dumps, NEW now \in Pages, NEW selected, NEW diff,
         diff = Diff(dump, now, selected)
  PROVE  /\ diff.missingServices \in Seq(Service)
         /\ diff.extraServices \in Seq(Service)
         /\ diff.missingForwards \in Seq(Forward)
         /\ diff.extraForwards \in Seq(Forward)
         /\ Apart(diff.missingServices)
         /\ ToSet(diff.missingServices) \subseteq ToSet(dump.services)
         /\ ToSet(diff.missingForwards) \subseteq ToSet(dump.forwards)
         /\ \A s \in ToSet(diff.extraServices) :
              s \in ToSet(now.services)
              /\ \A w \in ToSet(dump.services) : ServiceKey[s] # ServiceKey[w]
         /\ \A f \in ToSet(diff.extraForwards) :
              f \in ToSet(now.forwards)
              /\ \A w \in ToSet(dump.forwards) : ForwardKey[f] # ForwardKey[w]
<1> USE DumpFields, PagesFields
<1>1. <<>> \in Seq(Service) /\ <<>> \in Seq(Forward) /\ ToSet(<<>>) = {} /\ Apart(<<>>)
  BY DEF ToSet, Apart
<1>2. /\ diff.missingServices \in {<<>>, Without(dump.services, now.services, ServiceKey)}
      /\ diff.extraServices \in {<<>>, Without(now.services, dump.services, ServiceKey)}
      /\ diff.missingForwards \in {<<>>, Without(dump.forwards, now.forwards, ForwardKey)}
      /\ diff.extraForwards \in {<<>>, Without(now.forwards, dump.forwards, ForwardKey)}
  BY DEF Diff
<1>3. /\ Without(dump.services, now.services, ServiceKey) \in Seq(Service)
      /\ ToSet(Without(dump.services, now.services, ServiceKey)) \subseteq ToSet(dump.services)
      /\ Apart(Without(dump.services, now.services, ServiceKey))
  <2>1. dump.services \in Seq(Service) /\ Apart(dump.services)
    OBVIOUS
  <2> QED BY <2>1, WithoutFacts, WithoutStaysApart
<1>4. /\ Without(now.services, dump.services, ServiceKey) \in Seq(Service)
      /\ \A s \in ToSet(Without(now.services, dump.services, ServiceKey)) :
           s \in ToSet(now.services)
           /\ \A w \in ToSet(dump.services) : ServiceKey[s] # ServiceKey[w]
  <2>1. now.services \in Seq(Service)
    OBVIOUS
  <2> QED BY <2>1, WithoutFacts
<1>5. /\ Without(dump.forwards, now.forwards, ForwardKey) \in Seq(Forward)
      /\ ToSet(Without(dump.forwards, now.forwards, ForwardKey)) \subseteq ToSet(dump.forwards)
  <2>1. dump.forwards \in Seq(Forward)
    OBVIOUS
  <2> QED BY <2>1, WithoutFacts
<1>6. /\ Without(now.forwards, dump.forwards, ForwardKey) \in Seq(Forward)
      /\ \A s \in ToSet(Without(now.forwards, dump.forwards, ForwardKey)) :
           s \in ToSet(now.forwards)
           /\ \A w \in ToSet(dump.forwards) : ForwardKey[s] # ForwardKey[w]
  <2>1. now.forwards \in Seq(Forward)
    OBVIOUS
  <2> QED BY <2>1, WithoutFacts
<1>7. /\ diff.missingServices \in Seq(Service) /\ Apart(diff.missingServices)
      /\ ToSet(diff.missingServices) \subseteq ToSet(dump.services)
  BY <1>1, <1>2, <1>3
<1>8. /\ diff.extraServices \in Seq(Service)
      /\ \A s \in ToSet(diff.extraServices) :
           s \in ToSet(now.services)
           /\ \A w \in ToSet(dump.services) : ServiceKey[s] # ServiceKey[w]
  BY <1>1, <1>2, <1>4
<1>9. /\ diff.missingForwards \in Seq(Forward)
      /\ ToSet(diff.missingForwards) \subseteq ToSet(dump.forwards)
  BY <1>1, <1>2, <1>5
<1>10. /\ diff.extraForwards \in Seq(Forward)
       /\ \A f \in ToSet(diff.extraForwards) :
            f \in ToSet(now.forwards)
            /\ \A w \in ToSet(dump.forwards) : ForwardKey[f] # ForwardKey[w]
  BY <1>1, <1>2, <1>6
<1> QED BY <1>7, <1>8, <1>9, <1>10

\* The members of a sequence are its elements.
LEMMA Members ==
  ASSUME NEW S, NEW s \in Seq(S)
  PROVE  /\ DOMAIN s = 1..Len(s) /\ Len(s) \in Nat
         /\ ToSet(s) = {s[i] : i \in 1..Len(s)} /\ ToSet(s) \subseteq S
         /\ \A i \in 1..Len(s) : s[i] \in S /\ s[i] \in ToSet(s)
<1>1. DOMAIN s = 1..Len(s) /\ Len(s) \in Nat /\ \A i \in 1..Len(s) : s[i] \in S
  BY ElementOfSeq
<1> QED BY <1>1 DEF ToSet

\* A function on 1..n is a sequence.
LEMMA Listed ==
  ASSUME NEW S, NEW n \in Nat, NEW f, f \in [1..n -> S]
  PROVE  f \in Seq(S) /\ Len(f) = n /\ DOMAIN f = 1..n
OBVIOUS

\* Where an element of two sequences in a row is from.
LEMMA Joined ==
  ASSUME NEW S, NEW s \in Seq(S), NEW t \in Seq(S)
  PROVE  /\ s \o t \in Seq(S) /\ DOMAIN (s \o t) = 1..(Len(s) + Len(t))
         /\ Len(s \o t) = Len(s) + Len(t)
         /\ \A i \in 1..Len(s) : i \in 1..(Len(s) + Len(t)) /\ (s \o t)[i] = s[i]
         /\ \A i \in 1..Len(t) :
              Len(s) + i \in 1..(Len(s) + Len(t)) /\ (s \o t)[Len(s) + i] = t[i]
         /\ \A k \in 1..(Len(s) + Len(t)) :
              k \in 1..Len(s) \/ (k > Len(s) /\ k - Len(s) \in 1..Len(t)
                                  /\ (s \o t)[k] = t[k - Len(s)])
<1> DEFINE A == Len(s)
           B == Len(t)
           st == s \o t
<1>1. A \in Nat /\ B \in Nat
  OBVIOUS
<1>2. /\ st \in Seq(S) /\ Len(st) = A + B
      /\ \A i \in 1..(A + B) : st[i] = IF i <= A THEN s[i] ELSE t[i - A]
  BY ConcatProperties
<1>3. DOMAIN st = 1..(A + B)
  BY <1>2
<1> HIDE DEF A, B, st
<1>4. \A i \in 1..A : i \in 1..(A + B) /\ st[i] = s[i]
  BY <1>1, <1>2
<1>5. ASSUME NEW i \in 1..B PROVE A + i \in 1..(A + B) /\ st[A + i] = t[i]
  <2>1. A + i \in 1..(A + B) /\ ~(A + i <= A) /\ (A + i) - A = i
    BY <1>1
  <2> QED BY <2>1, <1>2
<1>6. \A k \in 1..(A + B) :
        k \in 1..A \/ (k > A /\ k - A \in 1..B /\ st[k] = t[k - A])
  BY <1>1, <1>2
<1> QED BY <1>2, <1>3, <1>4, <1>5, <1>6 DEF A, B, st

-----------------------------------------------------------------------------
(* The steps                                                               *)

\* The steps on the two tables; the others are a union over many payloads.  Only
\* the add of a forward may be put off.
RowKinds == {"add-service", "add-forward", "remove-service", "remove-forward"}
RowSteps ==
  {x \in [kind : RowKinds, page : {"services", "apphosting"}, of : Service \cup Forward,
          at : Nat, blocked : BOOLEAN, deferred : BOOLEAN, payload : {NoPayload},
          fields : {{}}, moves : {FALSE}] :
     x.deferred => x.kind = "add-forward" /\ ~x.blocked}

\* A step of a table, as the planner makes it.
LEMMA StepTyped ==
  ASSUME NEW k \in RowKinds, NEW p \in {"services", "apphosting"}, NEW o \in Service \cup Forward
  PROVE  /\ Step(k, p, o) \in RowSteps
         /\ Step(k, p, o).kind = k /\ Step(k, p, o).page = p /\ Step(k, p, o).of = o
         /\ Step(k, p, o).at = 0 /\ ~Step(k, p, o).blocked /\ ~Step(k, p, o).deferred
         /\ BlockedStep(k, p, o) \in RowSteps
         /\ BlockedStep(k, p, o).kind = k /\ BlockedStep(k, p, o).page = p
         /\ BlockedStep(k, p, o).of = o
         /\ BlockedStep(k, p, o).at = 0 /\ BlockedStep(k, p, o).blocked
         /\ ~BlockedStep(k, p, o).deferred
BY DEF Step, BlockedStep, RowSteps

\* A step the planner blocks is the same step otherwise.
LEMMA BlockTyped ==
  ASSUME NEW step \in RowSteps
  PROVE  /\ Block(step) \in RowSteps
         /\ Block(step).kind = step.kind /\ Block(step).page = step.page
         /\ Block(step).of = step.of
         /\ Block(step).at = 0 /\ Block(step).blocked
<1>1. step.kind \in RowKinds /\ step.page \in {"services", "apphosting"}
      /\ step.of \in Service \cup Forward
  BY DEF RowSteps
<1> QED BY <1>1, StepTyped DEF Block

\* The add of a service is blocked on a page without its menus.
LEMMA AddServiceTyped ==
  ASSUME NEW service \in Service, NEW now \in Pages
  PROVE  /\ AddService(service, now) \in RowSteps
         /\ AddService(service, now).kind = "add-service"
         /\ AddService(service, now).of = service /\ AddService(service, now).at = 0
         /\ AddService(service, now).page = "services"
         /\ AddService(service, now).blocked = ~now.menus
<1>1. now.menus \in BOOLEAN
  BY PagesFields
<1> QED BY <1>1 DEF AddService, Step, RowSteps, RowKinds

\* The add of a forward; one that waits for its service is not blocked.
LEMMA AddForwardTyped ==
  ASSUME NEW forward \in Forward, NEW now, NEW names
  PROVE  /\ AddForward(forward, now, names) \in RowSteps
         /\ AddForward(forward, now, names).kind = "add-forward"
         /\ AddForward(forward, now, names).of = forward
         /\ AddForward(forward, now, names).at = 0
         /\ AddForward(forward, now, names).page = "apphosting"
         /\ AddForward(forward, now, names).deferred => ~AddForward(forward, now, names).blocked
<1> DEFINE step == Step("add-forward", "apphosting", forward)
           later == [step EXCEPT !.deferred = TRUE]
<1>1. "add-forward" \in RowKinds
  BY DEF RowKinds
<1>2. /\ step \in RowSteps /\ step.kind = "add-forward" /\ step.of = forward /\ step.at = 0
      /\ step.page = "apphosting" /\ ~step.blocked
  BY <1>1, StepTyped
<1>3. /\ later \in RowSteps /\ later.kind = "add-forward" /\ later.of = forward /\ later.at = 0
      /\ later.page = "apphosting" /\ ~later.blocked
  <2> HIDE DEF step
  <2> QED BY <1>2 DEF RowSteps
<1>4. /\ Block(step) \in RowSteps /\ Block(step).kind = "add-forward"
      /\ Block(step).of = forward /\ Block(step).at = 0 /\ Block(step).page = "apphosting"
      /\ ~Block(step).deferred
  <2>1. Block(step) = BlockedStep("add-forward", "apphosting", forward)
    BY <1>2 DEF Block
  <2> QED BY <1>1, <2>1, StepTyped
<1>5. ~step.deferred
  BY <1>1, StepTyped
<1>6. AddForward(forward, now, names) \in {step, later, Block(step)}
  BY DEF AddForward
<1> HIDE DEF step, later
<1> QED BY <1>2, <1>3, <1>4, <1>5, <1>6

\* step is of this kind; if it goes out, it is to the one matching row.
Pressing(step, k, p, o, matching) ==
  /\ step \in RowSteps
  /\ step.kind = k /\ step.page = p /\ step.of = o
  /\ step.blocked => step.at = 0
  /\ ~step.blocked => matching = {step.at}

\* A remove presses the button of the one row it matches, or is blocked.
LEMMA RemoveRowTyped ==
  ASSUME NEW k \in RowKinds, NEW p \in {"services", "apphosting"},
         NEW o \in Service \cup Forward, NEW now \in Pages, NEW n \in Nat,
         NEW matching \in SUBSET (1..n),
         NEW step, step = RemoveRow(k, p, o, matching, now)
  PROVE  /\ Pressing(step, k, p, o, matching)
         /\ now.buttons /\ Cardinality(matching) = 1 => ~step.blocked
<1> DEFINE at == CHOOSE i \in matching : TRUE
           pressed == [Step(k, p, o) EXCEPT !.at = at]
<1>1. now.buttons \in BOOLEAN
  BY PagesFields
<1>2. CASE now.buttons /\ Cardinality(matching) = 1
  <2>1. IsFiniteSet(matching)
    <3>1. IsFiniteSet(1..n)
      BY FS_Interval
    <3> QED BY <3>1, FS_Subset
  <2>2. PICK x : matching = {x}
    BY <1>2, <2>1, FS_Singleton
  <2>3. at = x /\ x \in Nat
    BY <2>2
  <2>4. RemoveRow(k, p, o, matching, now) = pressed
    BY <1>2 DEF RemoveRow
  <2> HIDE DEF at
  <2>5. pressed \in RowSteps /\ pressed.kind = k /\ pressed.page = p /\ pressed.of = o
        /\ ~pressed.blocked /\ pressed.at = x
    BY <2>3 DEF Step, RowSteps
  <2> QED BY <1>2, <2>2, <2>4, <2>5 DEF Pressing
<1>3. CASE ~(now.buttons /\ Cardinality(matching) = 1)
  <2>1. RemoveRow(k, p, o, matching, now) = BlockedStep(k, p, o)
    BY <1>3 DEF RemoveRow
  <2> QED BY <1>3, <2>1, StepTyped DEF Pressing
<1> QED BY <1>2, <1>3

\* The button of the one row with the service's name.
LEMMA RemoveServiceTyped ==
  ASSUME NEW service \in Service, NEW now \in Pages, service \in ToSet(now.services)
  PROVE  LET step == RemoveService(service, now) IN
         /\ step \in RowSteps
         /\ step.kind = "remove-service" /\ step.page = "services" /\ step.of = service
         /\ step.blocked => step.at = 0
         /\ ~step.blocked => /\ step.at \in 1..Len(now.services)
                             /\ now.services[step.at] = service
                             /\ \A i \in 1..Len(now.services) :
                                  now.services[i].name = service.name => i = step.at
<1> DEFINE matching == {i \in DOMAIN now.services : now.services[i].name = service.name}
           step == RemoveRow("remove-service", "services", service, matching, now)
<1>1. now.services \in Seq(Service)
  BY PagesFields
<1>2. /\ DOMAIN now.services = 1..Len(now.services) /\ Len(now.services) \in Nat
      /\ \E i \in 1..Len(now.services) : now.services[i] = service
  BY <1>1, Members
<1>3. RemoveService(service, now) = step
  BY DEF RemoveService
<1>4. matching \in SUBSET (1..Len(now.services)) /\ "remove-service" \in RowKinds
  BY <1>2 DEF RowKinds
<1>5. \E i \in matching : now.services[i] = service
  BY <1>2
<1>6. \A i \in 1..Len(now.services) : now.services[i].name = service.name => i \in matching
  BY <1>2
<1> HIDE DEF matching
<1>7. /\ step \in RowSteps
      /\ step.kind = "remove-service" /\ step.page = "services" /\ step.of = service
      /\ step.blocked => step.at = 0
      /\ ~step.blocked => matching = {step.at}
  <2> DEFINE n == Len(now.services)
             k == "remove-service"
             p == "services"
  <2>1. /\ n \in Nat /\ matching \in SUBSET (1..n) /\ service \in Service \cup Forward
        /\ k \in RowKinds /\ p \in {"services", "apphosting"}
    BY <1>2, <1>4
  <2>2. step = RemoveRow(k, p, service, matching, now)
    OBVIOUS
  <2> HIDE DEF n, k, p, step
  <2>3. Pressing(step, k, p, service, matching)
    BY <2>1, <2>2, RemoveRowTyped
  <2> QED BY <2>3 DEF k, p, Pressing
<1> HIDE DEF step
<1> QED BY <1>3, <1>4, <1>5, <1>6, <1>7

\* The button of the one row that shows the forward.
LEMMA RemoveForwardTyped ==
  ASSUME NEW forward \in Forward, NEW now \in Pages, forward \in ToSet(now.forwards)
  PROVE  LET step == RemoveForward(forward, now) IN
         /\ step \in RowSteps
         /\ step.kind = "remove-forward" /\ step.page = "apphosting" /\ step.of = forward
         /\ step.blocked => step.at = 0
         /\ ~step.blocked => /\ step.at \in 1..Len(now.forwards)
                             /\ now.forwards[step.at] = forward
<1> DEFINE matching == {i \in DOMAIN now.forwards :
                          /\ now.forwards[i].service = forward.service
                          /\ now.label[now.forwards[i].device] = now.label[forward.device]}
           step == RemoveRow("remove-forward", "apphosting", forward, matching, now)
<1>1. now.forwards \in Seq(Forward)
  BY PagesFields
<1>2. /\ DOMAIN now.forwards = 1..Len(now.forwards) /\ Len(now.forwards) \in Nat
      /\ \E i \in 1..Len(now.forwards) : now.forwards[i] = forward
  BY <1>1, Members
<1>3. RemoveForward(forward, now) = step
  BY DEF RemoveForward
<1>4. matching \in SUBSET (1..Len(now.forwards)) /\ "remove-forward" \in RowKinds
  BY <1>2 DEF RowKinds
<1>5. \E i \in matching : now.forwards[i] = forward
  BY <1>2
<1> HIDE DEF matching
<1>6. /\ step \in RowSteps
      /\ step.kind = "remove-forward" /\ step.page = "apphosting" /\ step.of = forward
      /\ step.blocked => step.at = 0
      /\ ~step.blocked => matching = {step.at}
  <2> DEFINE n == Len(now.forwards)
             k == "remove-forward"
             p == "apphosting"
  <2>1. /\ n \in Nat /\ matching \in SUBSET (1..n) /\ forward \in Service \cup Forward
        /\ k \in RowKinds /\ p \in {"services", "apphosting"}
    BY <1>2, <1>4
  <2>2. step = RemoveRow(k, p, forward, matching, now)
    OBVIOUS
  <2> HIDE DEF n, k, p, step
  <2>3. Pressing(step, k, p, forward, matching)
    BY <2>1, <2>2, RemoveRowTyped
  <2> QED BY <2>3 DEF k, p, Pressing
<1> HIDE DEF step
<1> QED BY <1>3, <1>4, <1>5, <1>6

\* rs are steps ss, some of them blocked instead.
Restrained(rs, ss) ==
  /\ rs \in Seq(RowSteps) /\ Len(rs) = Len(ss)
  /\ \A i \in 1..Len(ss) :
       \/ rs[i] = ss[i]
       \/ /\ rs[i].blocked /\ rs[i].at = 0 /\ rs[i].kind = ss[i].kind
          /\ rs[i].of = ss[i].of /\ rs[i].page = ss[i].page

\* The planner either leaves its steps alone or blocks some of them.
LEMMA RestrainedOnce ==
  ASSUME NEW ss \in Seq(RowSteps), NEW rs,
         rs = ss \/ \E c \in [1..Len(ss) -> BOOLEAN] :
                      rs = [i \in DOMAIN ss |-> IF c[i] THEN Block(ss[i]) ELSE ss[i]]
  PROVE  Restrained(rs, ss)
<1>1. DOMAIN ss = 1..Len(ss) /\ Len(ss) \in Nat /\ \A i \in 1..Len(ss) : ss[i] \in RowSteps
  BY Members
<1>2. CASE rs = ss
  BY <1>2 DEF Restrained
<1>3. ASSUME NEW c \in [1..Len(ss) -> BOOLEAN],
             rs = [i \in DOMAIN ss |-> IF c[i] THEN Block(ss[i]) ELSE ss[i]]
      PROVE  Restrained(rs, ss)
  <2>1. \A i \in 1..Len(ss) :
          /\ Block(ss[i]) \in RowSteps
          /\ Block(ss[i]).kind = ss[i].kind /\ Block(ss[i]).page = ss[i].page
          /\ Block(ss[i]).of = ss[i].of
          /\ Block(ss[i]).at = 0 /\ Block(ss[i]).blocked
    BY <1>1, BlockTyped
  <2>2. rs \in [1..Len(ss) -> RowSteps]
    BY <1>1, <1>3, <2>1
  <2>3. rs \in Seq(RowSteps) /\ Len(rs) = Len(ss)
    BY <1>1, <2>2, Listed
  <2>4. \A i \in 1..Len(ss) : rs[i] = IF c[i] THEN Block(ss[i]) ELSE ss[i]
    BY <1>1, <1>3
  <2> QED BY <2>1, <2>3, <2>4 DEF Restrained
<1> QED BY <1>2, <1>3

\* Behind an add to its page a remove is blocked.
LEMMA BehindAddsFacts ==
  ASSUME NEW removes \in Seq(RowSteps), NEW steps, NEW page
  PROVE  LET rs == BehindAdds(removes, steps, page)
             adds == {i \in Planned(steps, {"add-service", "add-forward"}) : steps[i].page = page}
         IN /\ Restrained(rs, removes)
            /\ adds # {} => \A i \in 1..Len(removes) : rs[i].blocked
            /\ adds = {} => rs = removes
<1> DEFINE rs == BehindAdds(removes, steps, page)
           adds == {i \in Planned(steps, {"add-service", "add-forward"}) : steps[i].page = page}
<1>1. DOMAIN removes = 1..Len(removes) /\ \A i \in 1..Len(removes) : removes[i] \in RowSteps
  BY Members
<1>2. CASE adds = {}
  <2>1. rs = removes
    BY <1>2 DEF BehindAdds
  <2> QED BY <1>2, <2>1, RestrainedOnce
<1>3. CASE adds # {}
  <2> DEFINE c == [i \in 1..Len(removes) |-> TRUE]
  <2>1. rs = [i \in DOMAIN removes |-> Block(removes[i])]
    BY <1>3 DEF BehindAdds
  <2>2. rs = [i \in DOMAIN removes |-> IF c[i] THEN Block(removes[i]) ELSE removes[i]]
    BY <1>1, <2>1
  <2>3. c \in [1..Len(removes) -> BOOLEAN]
    OBVIOUS
  <2> HIDE DEF rs, c
  <2>4. Restrained(rs, removes)
    BY <2>2, <2>3, RestrainedOnce
  <2>5. \A i \in 1..Len(removes) : rs[i].blocked
    BY <1>1, <2>1, BlockTyped
  <2> QED BY <1>3, <2>4, <2>5 DEF rs
<1> QED BY <1>2, <1>3

\* Of the removes at most one goes out, the first that can.
LEMMA LimitedFacts ==
  ASSUME NEW removes \in Seq(RowSteps)
  PROVE  LET rs == Limited(removes) IN
         /\ Restrained(rs, removes)
         /\ \A i, j \in 1..Len(removes) : j < i /\ ~rs[i].blocked => rs[j].blocked
         /\ 1 \in 1..Len(removes) => rs[1] = removes[1]
<1> DEFINE rs == Limited(removes)
           c == [i \in 1..Len(removes) |-> \E j \in 1..(i - 1) : ~removes[j].blocked]
<1>1. /\ DOMAIN removes = 1..Len(removes) /\ Len(removes) \in Nat
      /\ \A i \in 1..Len(removes) : removes[i] \in RowSteps
  BY Members
<1>2. \A i \in 1..Len(removes) : c[i] = \E j \in 1..(i - 1) : ~removes[j].blocked
  OBVIOUS
<1>3. c \in [1..Len(removes) -> BOOLEAN]
  OBVIOUS
<1>4. rs = [i \in DOMAIN removes |-> IF c[i] THEN Block(removes[i]) ELSE removes[i]]
  BY <1>1 DEF Limited
<1> HIDE DEF rs, c
<1>5. Restrained(rs, removes)
  BY <1>3, <1>4, RestrainedOnce
<1>6. \A i \in 1..Len(removes) : rs[i] = IF c[i] THEN Block(removes[i]) ELSE removes[i]
  BY <1>1, <1>4
<1>7. \A i \in 1..Len(removes) : Block(removes[i]).blocked
  BY <1>1, BlockTyped
<1>8. ASSUME NEW i \in 1..Len(removes), NEW j \in 1..Len(removes), j < i, ~rs[i].blocked
      PROVE  rs[j].blocked
  <2>1. ~c[i]
    BY <1>6, <1>7, <1>8, Zenon
  <2>2. j \in 1..(i - 1)
    BY <1>8
  <2>3. removes[j].blocked
    BY <2>1, <2>2, <1>2
  <2> QED BY <2>3, <1>6, <1>7
<1>9. 1 \in 1..Len(removes) => rs[1] = removes[1]
  <2> SUFFICES ASSUME 1 \in 1..Len(removes) PROVE rs[1] = removes[1]
    OBVIOUS
  <2>1. ~ \E j \in 1..(1 - 1) : ~removes[j].blocked
    OBVIOUS
  <2>2. ~c[1]
    BY <2>1, <1>2, Zenon
  <2> QED BY <2>2, <1>6, Zenon
<1> QED BY <1>5, <1>8, <1>9 DEF rs

Spared(r, step, now) ==
  /\ r \in RowSteps /\ r.kind = step.kind /\ r.of = step.of /\ r.page = step.page
  /\ r = step \/ (r.blocked /\ r.at = 0)
  /\ (\A u \in ToSet(now.forwards) : u.service # step.of.name) => r = step

\* The remove of a service no forward uses is left alone, another one blocked.
LEMMA UnlessInUseFacts ==
  ASSUME NEW step \in RowSteps, NEW now, NEW steps,
         NEW r, r = UnlessInUse(step, now, steps, TRUE)
  PROVE  Spared(r, step, now)
BY BlockTyped DEF UnlessInUse, Spared

\* A remove, and the add that replaces what it takes away.
LEMMA ReplacementFacts ==
  ASSUME NEW dump \in Dumps, NEW now \in Pages, NEW selected, NEW diff,
         diff = Diff(dump, now, selected), NEW prune, NEW step \in RowSteps
  PROVE  LET r == Replacement(step, diff, now, prune) IN
         /\ r \in Seq(RowSteps) /\ (Len(r) = 1 \/ Len(r) = 2) /\ r[1] = step
         /\ Len(r) = 2 =>
              /\ r[2].kind = "add-service" /\ r[2].at = 0 /\ r[2].page = "services"
              /\ r[2].of \in ToSet(diff.missingServices)
              /\ Fold[r[2].of.name] = Fold[step.of.name]
              /\ step.blocked => r[2].blocked
<1> DEFINE same == {s \in Replaced(diff, prune) : Fold[s.name] = Fold[step.of.name]}
           s == CHOOSE x \in same : TRUE
           add == AddService(s, now)
           second == IF step.blocked THEN Block(add) ELSE add
<1>1. CASE same = {}
  <2>1. Replacement(step, diff, now, prune) = <<step>>
    BY <1>1 DEF Replacement
  <2> QED BY <2>1
<1>2. CASE same # {}
  <2>1. Replacement(step, diff, now, prune) = <<step, second>>
    BY <1>2 DEF Replacement
  <2>2. s \in same
    BY <1>2
  <2>3. s \in ToSet(diff.missingServices) /\ Fold[s.name] = Fold[step.of.name]
    BY <2>2 DEF Replaced
  <2>4. s \in Service
    BY <2>3, DiffRows, Members
  <2> HIDE DEF s
  <2>5. /\ add \in RowSteps /\ add.kind = "add-service" /\ add.of = s /\ add.at = 0
        /\ add.page = "services"
    BY <2>4, AddServiceTyped
  <2> HIDE DEF add
  <2>6. /\ second \in RowSteps /\ second.kind = "add-service" /\ second.of = s
        /\ second.at = 0 /\ (step.blocked => second.blocked) /\ second.page = "services"
    BY <2>5, BlockTyped
  <2> HIDE DEF second
  <2>7. <<step, second>> \in Seq(RowSteps) /\ Len(<<step, second>>) = 2
        /\ <<step, second>>[1] = step /\ <<step, second>>[2] = second
    BY <2>6
  <2> QED BY <2>1, <2>3, <2>6, <2>7
<1> QED BY <1>1, <1>2

-----------------------------------------------------------------------------
(* The parts of a plan                                                     *)

\* The steps for one missing service: one at most.
OneAdd(r, service, diff, now) ==
  /\ r \in Seq(RowSteps) /\ Len(r) \in {0, 1}
  /\ Len(r) = 1 => /\ r[1].kind = "add-service" /\ r[1].page = "services"
                   /\ r[1].of = service /\ r[1].at = 0
                   /\ ~r[1].blocked => Fold[service.name] \notin NamesOf(now.services)
  /\ /\ Fold[service.name] \notin NamesOf(diff.extraServices)
     /\ Fold[service.name] \notin NamesOf(now.services) /\ now.menus
     => Len(r) = 1 /\ ~r[1].blocked

\* A missing service is planned as one add.
LEMMA PlanServiceFacts ==
  ASSUME NEW service \in Service, NEW diff, NEW now \in Pages, NEW prune,
         NEW r, r = PlanService(service, diff, now, prune)
  PROVE  OneAdd(r, service, diff, now)
<1> USE DEF OneAdd
<1> DEFINE add == AddService(service, now)
           block == BlockedStep("add-service", "services", service)
<1>1. /\ add \in RowSteps /\ add.kind = "add-service" /\ add.page = "services"
      /\ add.of = service /\ add.at = 0 /\ add.blocked = ~now.menus
  BY AddServiceTyped
<1>2. "add-service" \in RowKinds /\ service \in Service \cup Forward
  BY DEF RowKinds
<1>3. /\ block \in RowSteps /\ block.kind = "add-service" /\ block.page = "services"
      /\ block.of = service /\ block.at = 0 /\ block.blocked
  BY <1>2, StepTyped
<1>4. \/ /\ r = <<add>> /\ Fold[service.name] \notin NamesOf(diff.extraServices)
         /\ Fold[service.name] \notin NamesOf(now.services)
      \/ /\ r \in {<<>>, <<block>>}
         /\ \/ Fold[service.name] \in NamesOf(diff.extraServices)
            \/ Fold[service.name] \in NamesOf(now.services)
  BY DEF PlanService
<1> HIDE DEF add, block
<1>5. /\ <<add>> \in Seq(RowSteps) /\ Len(<<add>>) = 1 /\ <<add>>[1] = add
      /\ <<block>> \in Seq(RowSteps) /\ Len(<<block>>) = 1 /\ <<block>>[1] = block
      /\ <<>> \in Seq(RowSteps) /\ Len(<<>>) = 0
  BY <1>1, <1>3
<1>6. CASE /\ r = <<add>> /\ Fold[service.name] \notin NamesOf(diff.extraServices)
           /\ Fold[service.name] \notin NamesOf(now.services)
  BY <1>1, <1>5, <1>6
<1>7. CASE r = <<>> /\ \/ Fold[service.name] \in NamesOf(diff.extraServices)
                       \/ Fold[service.name] \in NamesOf(now.services)
  BY <1>5, <1>7
<1>8. CASE r = <<block>> /\ \/ Fold[service.name] \in NamesOf(diff.extraServices)
                            \/ Fold[service.name] \in NamesOf(now.services)
  BY <1>3, <1>5, <1>8
<1> QED BY <1>4, <1>6, <1>7, <1>8

\* The adds of services that are not replacements: each of a name of its own.
LEMMA ServicesPart ==
  ASSUME NEW dump \in Dumps, NEW now \in Pages, NEW selected, NEW prune,
         NEW diff, diff = Diff(dump, now, selected),
         NEW s, s = PlanServices(diff, now, prune)
  PROVE  /\ s \in Seq(RowSteps)
         /\ \A k \in 1..Len(s) :
              /\ s[k].kind = "add-service" /\ s[k].page = "services" /\ s[k].at = 0
              /\ s[k].of \in ToSet(dump.services)
              /\ ~s[k].blocked => Fold[s[k].of.name] \notin NamesOf(now.services)
         /\ \A i, j \in 1..Len(s) : i < j => Fold[s[i].of.name] # Fold[s[j].of.name]
         /\ \A m \in 1..Len(diff.missingServices) :
              LET n == Fold[diff.missingServices[m].name] IN
              n \notin NamesOf(diff.extraServices) /\ n \notin NamesOf(now.services) /\ now.menus
                => \E k \in 1..Len(s) : ~s[k].blocked
<1> DEFINE missing == diff.missingServices
           parts == [i \in DOMAIN missing |-> PlanService(missing[i], diff, now, prune)]
<1>1. /\ missing \in Seq(Service) /\ Apart(missing)
      /\ ToSet(missing) \subseteq ToSet(dump.services)
  BY DiffRows
<1>2. /\ DOMAIN missing = 1..Len(missing) /\ Len(missing) \in Nat
      /\ \A i \in 1..Len(missing) : missing[i] \in Service /\ missing[i] \in ToSet(missing)
  BY <1>1, Members
<1> HIDE DEF missing
<1>3. ASSUME NEW i \in 1..Len(missing)
      PROVE  OneAdd(parts[i], missing[i], diff, now)
  <2>1. parts[i] = PlanService(missing[i], diff, now, prune) /\ missing[i] \in Service
    BY <1>2
  <2> HIDE DEF parts
  <2> QED BY <2>1, PlanServiceFacts
<1>4. parts \in Seq(Seq(RowSteps)) /\ Len(parts) = Len(missing)
  <2>1. parts \in [1..Len(missing) -> Seq(RowSteps)]
    BY <1>2, <1>3 DEF OneAdd
  <2> HIDE DEF parts
  <2> QED BY <2>1, <1>2, Listed
<1>5. s = FlattenSeq(parts)
  BY DEF PlanServices, missing
<1> HIDE DEF parts
<1>6. s \in Seq(RowSteps) /\ \E b, o : Flattened(parts, s, Len(parts), b, o)
  BY <1>4, <1>5, FlattenFacts
<1>7. PICK b, o : Flattened(parts, s, Len(parts), b, o)
  BY <1>6
<1>8. ASSUME NEW k \in 1..Len(s)
      PROVE  /\ b[k] \in 1..Len(missing) /\ Len(parts[b[k]]) = 1 /\ o[k] = 1
             /\ s[k] = parts[b[k]][1]
  <2>1. b[k] \in 1..Len(missing) /\ o[k] \in 1..Len(parts[b[k]]) /\ s[k] = parts[b[k]][o[k]]
    BY <1>4, <1>7 DEF Flattened
  <2>2. Len(parts[b[k]]) \in {0, 1}
    BY <2>1, <1>3 DEF OneAdd
  <2> QED BY <2>1, <2>2
<1>9. ASSUME NEW k \in 1..Len(s)
      PROVE  /\ s[k].kind = "add-service" /\ s[k].page = "services" /\ s[k].at = 0
             /\ s[k].of = missing[b[k]]
             /\ ~s[k].blocked => Fold[s[k].of.name] \notin NamesOf(now.services)
  BY <1>3, <1>8 DEF OneAdd
<1>10. ASSUME NEW i \in 1..Len(s), NEW j \in 1..Len(s), i < j
       PROVE  Fold[s[i].of.name] # Fold[s[j].of.name]
  <2>1. b[i] < b[j] \/ o[i] < o[j]
    BY <1>7, <1>10 DEF Flattened
  <2>2. b[i] # b[j] /\ b[i] \in 1..Len(missing) /\ b[j] \in 1..Len(missing)
    BY <2>1, <1>8
  <2>3. s[i].of = missing[b[i]] /\ s[j].of = missing[b[j]]
    BY <1>9
  <2> QED BY <2>2, <2>3, <1>1, <1>2 DEF Apart
<1>11. ASSUME NEW m \in 1..Len(missing),
              Fold[missing[m].name] \notin NamesOf(diff.extraServices),
              Fold[missing[m].name] \notin NamesOf(now.services), now.menus
       PROVE  \E k \in 1..Len(s) : ~s[k].blocked
  <2>1. Len(parts[m]) = 1 /\ ~parts[m][1].blocked
    BY <1>3, <1>11 DEF OneAdd
  <2>2. m \in 1..Len(parts) /\ 1 \in 1..Len(parts[m])
    BY <2>1, <1>4
  <2>3. PICK k \in 1..Len(s) : b[k] = m /\ o[k] = 1
    BY <2>2, <1>7 DEF Flattened
  <2>4. s[k] = parts[m][1]
    BY <2>3, <1>8
  <2> QED BY <2>1, <2>4
<1>12. \A k \in 1..Len(s) : s[k].of \in ToSet(dump.services)
  BY <1>1, <1>2, <1>8, <1>9
<1> QED BY <1>6, <1>9, <1>10, <1>11, <1>12 DEF missing

\* Every missing forward is planned as one add of it.
LEMMA ForwardsPart ==
  ASSUME NEW dump \in Dumps, NEW now \in Pages, NEW selected, NEW prune,
         NEW diff, diff = Diff(dump, now, selected), NEW steps,
         NEW s, s = PlanForwards(diff, now, prune, steps)
  PROVE  /\ s \in Seq(RowSteps) /\ Len(s) = Len(diff.missingForwards)
         /\ \A k \in 1..Len(s) :
              /\ s[k].kind = "add-forward" /\ s[k].page = "apphosting" /\ s[k].at = 0
              /\ s[k].of \in ToSet(dump.forwards)
              /\ s[k].deferred => ~s[k].blocked
<1> DEFINE missing == diff.missingForwards
           names == {steps[i].of.name : i \in Planned(steps, {"add-service"})}
           replaced == {Fold[x.name] : x \in Replaced(diff, prune)}
           one(f) == IF Fold[f.service] \in replaced
                     THEN BlockedStep("add-forward", "apphosting", f)
                     ELSE AddForward(f, now, names)
<1>1. missing \in Seq(Forward) /\ ToSet(missing) \subseteq ToSet(dump.forwards)
  BY DiffRows
<1>2. /\ DOMAIN missing = 1..Len(missing) /\ Len(missing) \in Nat
      /\ \A i \in 1..Len(missing) : missing[i] \in Forward /\ missing[i] \in ToSet(missing)
  BY <1>1, Members
<1>3. s = [i \in DOMAIN missing |-> one(missing[i])]
  BY DEF PlanForwards
<1> HIDE DEF missing, names, replaced
<1>4. ASSUME NEW f \in Forward
      PROVE  /\ one(f) \in RowSteps /\ one(f).kind = "add-forward"
             /\ one(f).page = "apphosting" /\ one(f).at = 0 /\ one(f).of = f
             /\ one(f).deferred => ~one(f).blocked
  <2> DEFINE block == BlockedStep("add-forward", "apphosting", f)
  <2>1. "add-forward" \in RowKinds /\ f \in Service \cup Forward
    BY DEF RowKinds
  <2>2. /\ block \in RowSteps /\ block.kind = "add-forward" /\ block.page = "apphosting"
        /\ block.at = 0 /\ block.of = f /\ ~block.deferred
    BY <2>1, StepTyped
  <2> HIDE DEF block
  <2>3. /\ AddForward(f, now, names) \in RowSteps
        /\ AddForward(f, now, names).kind = "add-forward"
        /\ AddForward(f, now, names).of = f
        /\ AddForward(f, now, names).at = 0
        /\ AddForward(f, now, names).page = "apphosting"
        /\ AddForward(f, now, names).deferred => ~AddForward(f, now, names).blocked
    BY AddForwardTyped
  <2>4. one(f) \in {block, AddForward(f, now, names)}
    BY DEF block
  <2> HIDE DEF one
  <2> QED BY <2>2, <2>3, <2>4
<1> HIDE DEF one
<1>5. s \in [1..Len(missing) -> RowSteps]
  BY <1>2, <1>3, <1>4
<1>6. s \in Seq(RowSteps) /\ Len(s) = Len(missing)
  BY <1>2, <1>5, Listed
<1>7. \A k \in 1..Len(s) : s[k] = one(missing[k])
  BY <1>2, <1>3, <1>6
<1>8. \A k \in 1..Len(s) :
        /\ s[k].kind = "add-forward" /\ s[k].page = "apphosting" /\ s[k].at = 0
        /\ s[k].of = missing[k] /\ (s[k].deferred => ~s[k].blocked)
  BY <1>2, <1>4, <1>6, <1>7
<1>9. \A k \in 1..Len(s) : s[k].of \in ToSet(dump.forwards)
  BY <1>1, <1>2, <1>6, <1>8
<1> QED BY <1>6, <1>8, <1>9 DEF missing

NoAdds(steps, page) ==
  {i \in Planned(steps, {"add-service", "add-forward"}) : steps[i].page = page} = {}

\* The removes of one table: at most one goes out, and none behind an add.
OneRemove(rs, ss, steps, page) ==
  /\ rs \in Seq(RowSteps) /\ Len(rs) = Len(ss)
  /\ \A k \in 1..Len(rs) :
       /\ rs[k].kind = ss[k].kind /\ rs[k].of = ss[k].of /\ rs[k].page = ss[k].page
       /\ rs[k].blocked => rs[k].at = 0
       /\ ~rs[k].blocked => /\ rs[k] = ss[k] /\ NoAdds(steps, page)
                            /\ \A j \in 1..(k - 1) : rs[j].blocked
  /\ 1 \in 1..Len(ss) /\ ~ss[1].blocked /\ NoAdds(steps, page) => ~rs[1].blocked

\* Of the removes of a page at most the first goes out, and none behind an add.
LEMMA OneRemoveGoesOut ==
  ASSUME NEW ss \in Seq(RowSteps), NEW steps, NEW page,
         \A k \in 1..Len(ss) : ss[k].blocked => ss[k].at = 0
  PROVE  OneRemove(Limited(BehindAdds(ss, steps, page)), ss, steps, page)
<1> DEFINE bs == BehindAdds(ss, steps, page)
           rs == Limited(bs)
           adds == {i \in Planned(steps, {"add-service", "add-forward"}) : steps[i].page = page}
<1>1. /\ Restrained(bs, ss)
      /\ adds # {} => \A i \in 1..Len(ss) : bs[i].blocked
      /\ adds = {} => bs = ss
  BY BehindAddsFacts
<1>2. adds = {} <=> NoAdds(steps, page)
  BY DEF NoAdds
<1> HIDE DEF adds, bs
<1>3. bs \in Seq(RowSteps) /\ Len(bs) = Len(ss)
  BY <1>1 DEF Restrained
<1>4. /\ Restrained(rs, bs)
      /\ \A i, j \in 1..Len(bs) : j < i /\ ~rs[i].blocked => rs[j].blocked
      /\ 1 \in 1..Len(bs) => rs[1] = bs[1]
  BY <1>3, LimitedFacts
<1> HIDE DEF rs
<1>5. rs \in Seq(RowSteps) /\ Len(rs) = Len(ss)
  BY <1>3, <1>4 DEF Restrained
<1>6. ASSUME NEW k \in 1..Len(ss)
      PROVE  /\ rs[k].kind = ss[k].kind /\ rs[k].of = ss[k].of /\ rs[k].page = ss[k].page
             /\ rs[k].blocked => rs[k].at = 0
             /\ ~rs[k].blocked => rs[k] = ss[k] /\ NoAdds(steps, page)
  <2>1. \/ bs[k] = ss[k]
        \/ /\ bs[k].blocked /\ bs[k].at = 0 /\ bs[k].kind = ss[k].kind
           /\ bs[k].of = ss[k].of /\ bs[k].page = ss[k].page
    BY <1>1 DEF Restrained
  <2>2. \/ rs[k] = bs[k]
        \/ /\ rs[k].blocked /\ rs[k].at = 0 /\ rs[k].kind = bs[k].kind
           /\ rs[k].of = bs[k].of /\ rs[k].page = bs[k].page
    BY <1>3, <1>4 DEF Restrained
  <2>3. ~rs[k].blocked => NoAdds(steps, page)
    BY <2>2, <1>1, <1>2
  <2> QED BY <2>1, <2>2, <2>3
<1>7. ASSUME NEW k \in 1..Len(ss), NEW j \in 1..(k - 1), ~rs[k].blocked
      PROVE  rs[j].blocked
  <2>1. j \in 1..Len(ss) /\ j < k
    OBVIOUS
  <2> QED BY <2>1, <1>3, <1>4, <1>7
<1>8. ASSUME 1 \in 1..Len(ss), ~ss[1].blocked, NoAdds(steps, page)
      PROVE  ~rs[1].blocked
  BY <1>1, <1>2, <1>3, <1>4, <1>8
<1> QED BY <1>5, <1>6, <1>7, <1>8 DEF OneRemove, rs, bs

\* The rows a remove step may be for.
ForwardRows(ss, now, rows) ==
  /\ ss \in Seq(RowSteps)
  /\ \A k \in 1..Len(ss) :
       /\ ss[k].kind = "remove-forward" /\ ss[k].page = "apphosting"
       /\ ss[k].of \in ToSet(rows)
       /\ ss[k].blocked => ss[k].at = 0
       /\ ~ss[k].blocked => /\ ss[k].at \in 1..Len(now.forwards)
                            /\ now.forwards[ss[k].at] = ss[k].of

ServiceRows(ss, now, rows) ==
  /\ ss \in Seq(RowSteps)
  /\ \A k \in 1..Len(ss) :
       /\ ss[k].kind = "remove-service" /\ ss[k].page = "services"
       /\ ss[k].of \in ToSet(rows)
       /\ ss[k].blocked => ss[k].at = 0
       /\ ~ss[k].blocked => /\ ss[k].at \in 1..Len(now.services)
                            /\ now.services[ss[k].at] = ss[k].of
                            /\ \A i \in 1..Len(now.services) :
                                 now.services[i].name = ss[k].of.name => i = ss[k].at

\* The removes of the extra forwards, one of each.
LEMMA ForwardRemoves ==
  ASSUME NEW dump \in Dumps, NEW now \in Pages, NEW selected,
         NEW diff, diff = Diff(dump, now, selected),
         NEW ss, ss = [i \in DOMAIN diff.extraForwards |->
                         RemoveForward(diff.extraForwards[i], now)]
  PROVE  /\ ForwardRows(ss, now, diff.extraForwards)
         /\ Len(ss) = Len(diff.extraForwards)
<1> DEFINE extra == diff.extraForwards
<1>1. extra \in Seq(Forward) /\ \A f \in ToSet(extra) : f \in ToSet(now.forwards)
  BY DiffRows
<1>2. /\ DOMAIN extra = 1..Len(extra) /\ Len(extra) \in Nat
      /\ \A i \in 1..Len(extra) : extra[i] \in Forward /\ extra[i] \in ToSet(extra)
  BY <1>1, Members
<1>3. ss = [i \in DOMAIN extra |-> RemoveForward(extra[i], now)]
  OBVIOUS
<1> HIDE DEF extra
<1>4. ASSUME NEW i \in 1..Len(extra)
      PROVE  /\ ss[i] \in RowSteps
             /\ ss[i].kind = "remove-forward" /\ ss[i].page = "apphosting"
             /\ ss[i].of = extra[i]
             /\ ss[i].blocked => ss[i].at = 0
             /\ ~ss[i].blocked => /\ ss[i].at \in 1..Len(now.forwards)
                                  /\ now.forwards[ss[i].at] = extra[i]
  <2> DEFINE step == RemoveForward(extra[i], now)
  <2>1. extra[i] \in Forward /\ extra[i] \in ToSet(now.forwards)
    BY <1>1, <1>2
  <2>2. ss[i] = step
    BY <1>2, <1>3
  <2>3. /\ step \in RowSteps
        /\ step.kind = "remove-forward" /\ step.page = "apphosting" /\ step.of = extra[i]
        /\ step.blocked => step.at = 0
        /\ ~step.blocked => /\ step.at \in 1..Len(now.forwards)
                            /\ now.forwards[step.at] = extra[i]
    BY <2>1, RemoveForwardTyped
  <2> HIDE DEF step
  <2> QED BY <2>2, <2>3
<1>5. ss \in [1..Len(extra) -> RowSteps]
  BY <1>2, <1>3, <1>4
<1>6. ss \in Seq(RowSteps) /\ Len(ss) = Len(extra)
  BY <1>2, <1>5, Listed
<1>7. ForwardRows(ss, now, extra)
  <2> SUFFICES ASSUME NEW k \in 1..Len(ss)
               PROVE  /\ ss[k].kind = "remove-forward" /\ ss[k].page = "apphosting"
                      /\ ss[k].of \in ToSet(extra)
                      /\ ss[k].blocked => ss[k].at = 0
                      /\ ~ss[k].blocked => /\ ss[k].at \in 1..Len(now.forwards)
                                           /\ now.forwards[ss[k].at] = ss[k].of
    BY <1>6 DEF ForwardRows
  <2>1. k \in 1..Len(extra) /\ extra[k] \in ToSet(extra)
    BY <1>2, <1>6
  <2>2. ss[k].kind = "remove-forward" /\ ss[k].page = "apphosting" /\ ss[k].of = extra[k]
    BY <2>1, <1>4
  <2>3. ss[k].blocked => ss[k].at = 0
    BY <2>1, <1>4
  <2>4. ~ss[k].blocked => ss[k].at \in 1..Len(now.forwards) /\ now.forwards[ss[k].at] = extra[k]
    BY <2>1, <1>4
  <2> QED BY <2>1, <2>2, <2>3, <2>4
<1> QED BY <1>6, <1>7 DEF extra

\* With its button, and no forward that goes to it, a service can be removed.
Free(ss, extra, now) ==
  \A k \in 1..Len(ss) :
    /\ ~RemoveService(extra[k], now).blocked
    /\ \A u \in ToSet(now.forwards) : u.service # extra[k].name
    => ~ss[k].blocked

\* The removes of the extra services, one of each; those of a service that
\* no forward uses press a button.
LEMMA ServiceRemoves ==
  ASSUME NEW dump \in Dumps, NEW now \in Pages, NEW selected,
         NEW diff, diff = Diff(dump, now, selected), NEW sofar,
         NEW ss, ss = [i \in DOMAIN diff.extraServices |->
                         UnlessInUse(RemoveService(diff.extraServices[i], now),
                                     now, sofar, TRUE)]
  PROVE  /\ ServiceRows(ss, now, diff.extraServices)
         /\ Len(ss) = Len(diff.extraServices)
         /\ Free(ss, diff.extraServices, now)
<1> DEFINE extra == diff.extraServices
<1>1. extra \in Seq(Service) /\ \A f \in ToSet(extra) : f \in ToSet(now.services)
  BY DiffRows
<1>2. /\ DOMAIN extra = 1..Len(extra) /\ Len(extra) \in Nat
      /\ \A i \in 1..Len(extra) : extra[i] \in Service /\ extra[i] \in ToSet(extra)
  BY <1>1, Members
<1>3. ss = [i \in DOMAIN extra |-> UnlessInUse(RemoveService(extra[i], now), now, sofar, TRUE)]
  OBVIOUS
<1> HIDE DEF extra
<1>4. ASSUME NEW i \in 1..Len(extra)
      PROVE  /\ ss[i] \in RowSteps
             /\ ss[i].kind = "remove-service" /\ ss[i].page = "services"
             /\ ss[i].of = extra[i]
             /\ ss[i].blocked => ss[i].at = 0
             /\ ~ss[i].blocked => /\ ss[i].at \in 1..Len(now.services)
                                  /\ now.services[ss[i].at] = extra[i]
                                  /\ \A j \in 1..Len(now.services) :
                                       now.services[j].name = extra[i].name => j = ss[i].at
             /\ /\ ~RemoveService(extra[i], now).blocked
                /\ \A u \in ToSet(now.forwards) : u.service # extra[i].name
                => ~ss[i].blocked
  <2> DEFINE step == RemoveService(extra[i], now)
  <2>1. extra[i] \in Service /\ extra[i] \in ToSet(now.services)
    BY <1>1, <1>2
  <2>2. ss[i] = UnlessInUse(step, now, sofar, TRUE)
    BY <1>2, <1>3
  <2>3. /\ step \in RowSteps
        /\ step.kind = "remove-service" /\ step.page = "services" /\ step.of = extra[i]
        /\ step.blocked => step.at = 0
        /\ ~step.blocked => /\ step.at \in 1..Len(now.services)
                            /\ now.services[step.at] = extra[i]
                            /\ \A j \in 1..Len(now.services) :
                                 now.services[j].name = extra[i].name => j = step.at
    BY <2>1, RemoveServiceTyped
  <2> HIDE DEF step
  <2>4. Spared(ss[i], step, now)
    BY <2>2, <2>3, UnlessInUseFacts
  <2>5. /\ ss[i] \in RowSteps /\ ss[i].kind = step.kind /\ ss[i].of = step.of
        /\ ss[i].page = step.page
        /\ ss[i] = step \/ (ss[i].blocked /\ ss[i].at = 0)
    BY <2>4 DEF Spared
  <2>6. /\ ~step.blocked
        /\ \A u \in ToSet(now.forwards) : u.service # extra[i].name
        => ~ss[i].blocked
    BY <2>3, <2>4 DEF Spared
  <2>7. /\ ~RemoveService(extra[i], now).blocked
        /\ \A u \in ToSet(now.forwards) : u.service # extra[i].name
        => ~ss[i].blocked
    BY <2>6 DEF step
  <2> QED BY <2>3, <2>5, <2>7
<1>5. ss \in [1..Len(extra) -> RowSteps]
  BY <1>2, <1>3, <1>4
<1>6. ss \in Seq(RowSteps) /\ Len(ss) = Len(extra)
  BY <1>2, <1>5, Listed
<1>7. ServiceRows(ss, now, extra)
  <2> SUFFICES ASSUME NEW k \in 1..Len(ss)
               PROVE  /\ ss[k].kind = "remove-service" /\ ss[k].page = "services"
                      /\ ss[k].of \in ToSet(extra)
                      /\ ss[k].blocked => ss[k].at = 0
                      /\ ~ss[k].blocked => /\ ss[k].at \in 1..Len(now.services)
                                           /\ now.services[ss[k].at] = ss[k].of
                                           /\ \A i \in 1..Len(now.services) :
                                                now.services[i].name = ss[k].of.name
                                                  => i = ss[k].at
    BY <1>6 DEF ServiceRows
  <2>1. k \in 1..Len(extra) /\ extra[k] \in ToSet(extra)
    BY <1>2, <1>6
  <2>2. ss[k].kind = "remove-service" /\ ss[k].page = "services" /\ ss[k].of = extra[k]
    BY <2>1, <1>4
  <2>3. ss[k].blocked => ss[k].at = 0
    BY <2>1, <1>4
  <2>4. ~ss[k].blocked => /\ ss[k].at \in 1..Len(now.services)
                         /\ now.services[ss[k].at] = extra[k]
                         /\ \A j \in 1..Len(now.services) :
                              now.services[j].name = extra[k].name => j = ss[k].at
    BY <2>1, <1>4
  <2> QED BY <2>1, <2>2, <2>3, <2>4
<1>8. \A k \in 1..Len(ss) :
        /\ ~RemoveService(extra[k], now).blocked
        /\ \A u \in ToSet(now.forwards) : u.service # extra[k].name
        => ~ss[k].blocked
  BY <1>4, <1>6
<1>9. Free(ss, extra, now)
  BY <1>8 DEF Free
<1> QED BY <1>6, <1>7, <1>9 DEF extra

\* The removes of services, each with the add that replaces it behind it.
Replacing(fl, rs, missing) ==
  /\ fl \in Seq(RowSteps)
  /\ \A k \in 1..Len(fl) :
       \/ \E i \in 1..Len(rs) :
            /\ fl[k] = rs[i]
            /\ (\A j \in 1..(i - 1) : rs[j].blocked) => \A j \in 1..(k - 1) : fl[j].blocked
       \/ \E i \in 1..Len(rs) :
            /\ k > 1 /\ fl[k - 1] = rs[i]
            /\ fl[k].kind = "add-service" /\ fl[k].at = 0 /\ fl[k].page = "services"
            /\ fl[k].of \in ToSet(missing)
            /\ Fold[fl[k].of.name] = Fold[rs[i].of.name]
            /\ rs[i].blocked => fl[k].blocked
  /\ \A i \in 1..Len(rs) : \E k \in 1..Len(fl) : fl[k] = rs[i]

\* Behind the remove of a service may come the add that replaces it.
LEMMA ReplacementsPart ==
  ASSUME NEW dump \in Dumps, NEW now \in Pages, NEW selected, NEW prune,
         NEW diff, diff = Diff(dump, now, selected), NEW rs \in Seq(RowSteps),
         NEW fl, fl = FlattenSeq([i \in DOMAIN rs |-> Replacement(rs[i], diff, now, prune)])
  PROVE  Replacing(fl, rs, diff.missingServices)
<1> DEFINE parts == [i \in DOMAIN rs |-> Replacement(rs[i], diff, now, prune)]
<1>1. /\ DOMAIN rs = 1..Len(rs) /\ Len(rs) \in Nat
      /\ \A i \in 1..Len(rs) : rs[i] \in RowSteps
  BY Members
<1>2. ASSUME NEW i \in 1..Len(rs)
      PROVE  /\ parts[i] \in Seq(RowSteps) /\ (Len(parts[i]) = 1 \/ Len(parts[i]) = 2) /\ parts[i][1] = rs[i]
             /\ Len(parts[i]) = 2 =>
                  /\ parts[i][2].kind = "add-service" /\ parts[i][2].at = 0
                  /\ parts[i][2].page = "services"
                  /\ parts[i][2].of \in ToSet(diff.missingServices)
                  /\ Fold[parts[i][2].of.name] = Fold[rs[i].of.name]
                  /\ rs[i].blocked => parts[i][2].blocked
  <2> DEFINE r == Replacement(rs[i], diff, now, prune)
  <2>1. parts[i] = r /\ rs[i] \in RowSteps
    BY <1>1
  <2>2. /\ r \in Seq(RowSteps) /\ (Len(r) = 1 \/ Len(r) = 2) /\ r[1] = rs[i]
        /\ Len(r) = 2 =>
             /\ r[2].kind = "add-service" /\ r[2].at = 0 /\ r[2].page = "services"
             /\ r[2].of \in ToSet(diff.missingServices)
             /\ Fold[r[2].of.name] = Fold[rs[i].of.name]
             /\ rs[i].blocked => r[2].blocked
    BY <2>1, ReplacementFacts
  <2> HIDE DEF r, parts
  <2> QED BY <2>1, <2>2
<1>3. parts \in Seq(Seq(RowSteps)) /\ Len(parts) = Len(rs)
  <2>1. parts \in [1..Len(rs) -> Seq(RowSteps)]
    BY <1>1, <1>2
  <2> HIDE DEF parts
  <2> QED BY <2>1, <1>1, Listed
<1>4. fl = FlattenSeq(parts)
  OBVIOUS
<1> HIDE DEF parts
<1>5. fl \in Seq(RowSteps) /\ \E b, o : Flattened(parts, fl, Len(parts), b, o)
  BY <1>3, <1>4, FlattenFacts
<1>6. PICK b, o : Flattened(parts, fl, Len(parts), b, o)
  BY <1>5
<1>7. ASSUME NEW k \in 1..Len(fl)
      PROVE  /\ b[k] \in 1..Len(rs) /\ o[k] \in {1, 2}
             /\ o[k] = 2 => Len(parts[b[k]]) = 2
             /\ fl[k] = parts[b[k]][o[k]]
             /\ rs[b[k]].blocked => fl[k].blocked
  <2>1. b[k] \in 1..Len(rs) /\ o[k] \in 1..Len(parts[b[k]]) /\ fl[k] = parts[b[k]][o[k]]
    BY <1>3, <1>6 DEF Flattened
  <2>2. Len(parts[b[k]]) = 1 \/ Len(parts[b[k]]) = 2
    BY <2>1, <1>2
  <2>3. o[k] \in {1, 2} /\ o[k] <= Len(parts[b[k]])
    BY <2>1, <2>2
  <2>6. o[k] = 2 => Len(parts[b[k]]) = 2
    BY <2>1, <2>2
  <2>4. CASE o[k] = 1
    BY <2>1, <2>3, <2>4, <1>2
  <2>5. CASE o[k] = 2
    <3>1. Len(parts[b[k]]) = 2
      BY <2>5, <2>6
    <3> QED BY <2>1, <2>3, <2>5, <3>1, <1>2
  <2> QED BY <2>3, <2>4, <2>5, <2>6
<1>8. ASSUME NEW k \in 1..Len(fl)
      PROVE  \/ \E i \in 1..Len(rs) :
                  /\ fl[k] = rs[i]
                  /\ (\A j \in 1..(i - 1) : rs[j].blocked) => \A j \in 1..(k - 1) : fl[j].blocked
             \/ \E i \in 1..Len(rs) :
                  /\ k > 1 /\ fl[k - 1] = rs[i]
                  /\ fl[k].kind = "add-service" /\ fl[k].at = 0 /\ fl[k].page = "services"
                  /\ fl[k].of \in ToSet(diff.missingServices)
                  /\ Fold[fl[k].of.name] = Fold[rs[i].of.name]
                  /\ rs[i].blocked => fl[k].blocked
  <2> DEFINE i == b[k]
  <2>1. i \in 1..Len(rs) /\ fl[k] = parts[i][o[k]]
    BY <1>7
  <2>2. CASE o[k] = 1
    <3>1. fl[k] = rs[i]
      BY <2>1, <2>2, <1>2
    <3>2. ASSUME \A j \in 1..(i - 1) : rs[j].blocked, NEW j \in 1..(k - 1)
          PROVE  fl[j].blocked
      <4>1. j \in 1..Len(fl) /\ j < k
        OBVIOUS
      <4>2. b[j] < b[k] \/ (b[j] = b[k] /\ o[j] < o[k])
        BY <4>1, <1>6 DEF Flattened
      <4>3. b[j] \in 1..Len(rs) /\ o[j] \in {1, 2}
        BY <4>1, <1>7
      <4>4. b[j] \in 1..(i - 1)
        BY <4>2, <4>3, <2>1, <2>2
      <4> QED BY <4>1, <4>4, <3>2, <1>7
    <3> QED BY <2>1, <3>1, <3>2
  <2>3. CASE o[k] = 2
    <3>1. k > 1 /\ b[k - 1] = b[k] /\ o[k - 1] = o[k] - 1
      BY <2>3, <1>6 DEF Flattened
    <3>2. k - 1 \in 1..Len(fl) /\ o[k - 1] = 1
      BY <3>1, <2>3
    <3>3. fl[k - 1] = rs[i]
      <4>1. b[k - 1] = i /\ fl[k - 1] = parts[b[k - 1]][o[k - 1]]
        BY <3>1, <3>2, <1>7
      <4>2. parts[i][1] = rs[i]
        BY <2>1, <1>2
      <4> QED BY <4>1, <4>2, <3>2
    <3>4. Len(parts[i]) = 2
      BY <2>3, <1>7
    <3>6. fl[k] = parts[i][o[k]]
      BY <2>1, Zenon
    <3>5. fl[k] = parts[i][2]
      BY <2>3, <3>6, Zenon
    <3>7. i \in 1..Len(rs)
      BY <2>1
    <3>8. /\ parts[i][2].kind = "add-service" /\ parts[i][2].at = 0
          /\ parts[i][2].page = "services"
          /\ parts[i][2].of \in ToSet(diff.missingServices)
          /\ Fold[parts[i][2].of.name] = Fold[rs[i].of.name]
          /\ rs[i].blocked => parts[i][2].blocked
      BY <3>4, <3>7, <1>2
    <3> HIDE DEF i
    <3>9. /\ k > 1 /\ fl[k - 1] = rs[i]
          /\ fl[k].kind = "add-service" /\ fl[k].at = 0 /\ fl[k].page = "services"
          /\ fl[k].of \in ToSet(diff.missingServices)
          /\ Fold[fl[k].of.name] = Fold[rs[i].of.name]
          /\ rs[i].blocked => fl[k].blocked
      BY <3>1, <3>3, <3>5, <3>8
    <3> QED BY <3>7, <3>9
  <2> QED BY <2>2, <2>3, <1>7
<1>9. ASSUME NEW i \in 1..Len(rs) PROVE \E k \in 1..Len(fl) : fl[k] = rs[i]
  <2>0. /\ \A p \in 1..Len(parts) : \A q \in 1..Len(parts[p]) :
              \E k \in 1..Len(fl) : b[k] = p /\ o[k] = q
    BY <1>6 DEF Flattened
  <2>1. i \in 1..Len(parts)
    BY <1>3
  <2>4. Len(parts[i]) = 1 \/ Len(parts[i]) = 2
    BY <1>2
  <2>5. 1 \in 1..Len(parts[i])
    <3> DEFINE n == Len(parts[i])
    <3>1. n = 1 \/ n = 2
      BY <2>4
    <3> HIDE DEF n
    <3>2. 1 \in 1..n
      BY <3>1
    <3> QED BY <3>2 DEF n
  <2>2. PICK k \in 1..Len(fl) : b[k] = i /\ o[k] = 1
    BY <2>0, <2>1, <2>5
  <2>3. parts[i][1] = rs[i] /\ fl[k] = parts[b[k]][o[k]]
    BY <1>2, <1>7
  <2> QED BY <2>2, <2>3
<1> QED BY <1>5, <1>8, <1>9 DEF Replacing

\* A plan without adds to a page has none in its first part.
LEMMA NoAddsBefore ==
  ASSUME NEW s \in Seq(RowSteps), NEW t \in Seq(RowSteps), NEW page
  PROVE  /\ NoAdds(s \o t, page) => NoAdds(s, page)
         /\ /\ NoAdds(s, page)
            /\ \A k \in 1..Len(t) : t[k].kind \notin {"add-service", "add-forward"}
            => NoAdds(s \o t, page)
<1> DEFINE adds == {"add-service", "add-forward"}
           u == s \o t
<1>1. /\ DOMAIN s = 1..Len(s) /\ DOMAIN u = 1..(Len(s) + Len(t))
      /\ \A i \in 1..Len(s) : i \in 1..(Len(s) + Len(t)) /\ u[i] = s[i]
      /\ \A k \in 1..(Len(s) + Len(t)) :
           k \in 1..Len(s) \/ (k - Len(s) \in 1..Len(t) /\ u[k] = t[k - Len(s)])
  BY Members, Joined
<1> HIDE DEF u
<1>2. ASSUME NoAdds(u, page)
      PROVE  NoAdds(s, page)
  <2> SUFFICES ASSUME NEW i \in 1..Len(s), s[i].kind \in adds, ~s[i].blocked, s[i].page = page
               PROVE  FALSE
    BY <1>1 DEF NoAdds, Planned
  <2>1. i \in DOMAIN u /\ u[i] = s[i]
    BY <1>1
  <2> QED BY <2>1, <1>2 DEF NoAdds, Planned
<1>3. ASSUME NoAdds(s, page), \A k \in 1..Len(t) : t[k].kind \notin adds
      PROVE  NoAdds(u, page)
  <2> SUFFICES ASSUME NEW i \in DOMAIN u, u[i].kind \in adds, ~u[i].blocked, u[i].page = page
               PROVE  FALSE
    BY DEF NoAdds, Planned
  <2>1. CASE i \in 1..Len(s)
    <3>1. i \in DOMAIN s /\ u[i] = s[i]
      BY <2>1, <1>1
    <3> QED BY <3>1, <1>3 DEF NoAdds, Planned
  <2>2. CASE i - Len(s) \in 1..Len(t) /\ u[i] = t[i - Len(s)]
    BY <2>2, <1>3
  <2> QED BY <2>1, <2>2, <1>1
<1> QED BY <1>2, <1>3 DEF u

\* A remove of a forward at k of r, which follows steps.
ForwardGone(r, k, now, extra, steps) ==
  /\ r[k].kind = "remove-forward" /\ r[k].page = "apphosting" /\ r[k].of \in ToSet(extra)
  /\ r[k].blocked => r[k].at = 0
  /\ ~r[k].blocked => /\ r[k].at \in 1..Len(now.forwards)
                      /\ now.forwards[r[k].at] = r[k].of
                      /\ NoAdds(steps, "apphosting")
                      /\ \A j \in 1..(k - 1) : r[j].blocked

ServiceGone(r, k, now, extra, steps) ==
  /\ r[k].kind = "remove-service" /\ r[k].page = "services" /\ r[k].of \in ToSet(extra)
  /\ r[k].blocked => r[k].at = 0
  /\ ~r[k].blocked => /\ r[k].at \in 1..Len(now.services)
                      /\ now.services[r[k].at] = r[k].of
                      /\ NoAdds(steps, "services")
                      /\ \A j \in 1..(k - 1) : r[j].blocked \/ r[j].kind = "remove-forward"

Replaces(r, k, missing) ==
  /\ k > 1 /\ r[k - 1].kind = "remove-service"
  /\ r[k].kind = "add-service" /\ r[k].at = 0 /\ r[k].page = "services"
  /\ r[k].of \in ToSet(missing)
  /\ Fold[r[k].of.name] = Fold[r[k - 1].of.name]
  /\ r[k - 1].blocked => r[k].blocked

\* A remove of a forward that goes out is of an extra one's row, and nothing
\* before it moved the rows.
LEMMA ForwardsGo ==
  ASSUME NEW ss \in Seq(RowSteps), NEW rs, NEW now, NEW extra, NEW steps,
         ForwardRows(ss, now, extra), OneRemove(rs, ss, steps, "apphosting")
  PROVE  \A k \in 1..Len(rs) : ForwardGone(rs, k, now, extra, steps)
<1> SUFFICES ASSUME NEW k \in 1..Len(rs)
             PROVE  ForwardGone(rs, k, now, extra, steps)
  OBVIOUS
<1>1. k \in 1..Len(ss)
  BY DEF OneRemove
<1>2. /\ rs[k].kind = ss[k].kind /\ rs[k].of = ss[k].of /\ rs[k].page = ss[k].page
      /\ rs[k].blocked => rs[k].at = 0
      /\ ~rs[k].blocked => /\ rs[k] = ss[k] /\ NoAdds(steps, "apphosting")
                           /\ \A j \in 1..(k - 1) : rs[j].blocked
  BY <1>1 DEF OneRemove
<1>3. /\ ss[k].kind = "remove-forward" /\ ss[k].page = "apphosting"
      /\ ss[k].of \in ToSet(extra)
      /\ ~ss[k].blocked => /\ ss[k].at \in 1..Len(now.forwards)
                           /\ now.forwards[ss[k].at] = ss[k].of
  BY <1>1 DEF ForwardRows
<1> QED BY <1>2, <1>3 DEF ForwardGone

\* A remove of a service that goes out is of an extra one's row, and nothing
\* before it moved the rows.
LEMMA ServicesGo ==
  ASSUME NEW ss \in Seq(RowSteps), NEW rs, NEW now, NEW extra, NEW steps, NEW fr,
         ServiceRows(ss, now, extra), OneRemove(rs, ss, steps \o fr, "services"),
         steps \in Seq(RowSteps), fr \in Seq(RowSteps)
  PROVE  \A k \in 1..Len(rs) : ServiceGone(rs, k, now, extra, steps)
<1> SUFFICES ASSUME NEW k \in 1..Len(rs)
             PROVE  ServiceGone(rs, k, now, extra, steps)
  OBVIOUS
<1>1. k \in 1..Len(ss)
  BY DEF OneRemove
<1>2. /\ rs[k].kind = ss[k].kind /\ rs[k].of = ss[k].of /\ rs[k].page = ss[k].page
      /\ rs[k].blocked => rs[k].at = 0
      /\ ~rs[k].blocked => /\ rs[k] = ss[k] /\ NoAdds(steps \o fr, "services")
                           /\ \A j \in 1..(k - 1) : rs[j].blocked
  BY <1>1 DEF OneRemove
<1>3. /\ ss[k].kind = "remove-service" /\ ss[k].page = "services"
      /\ ss[k].of \in ToSet(extra)
      /\ ~ss[k].blocked => /\ ss[k].at \in 1..Len(now.services)
                           /\ now.services[ss[k].at] = ss[k].of
  BY <1>1 DEF ServiceRows
<1>4. NoAdds(steps \o fr, "services") => NoAdds(steps, "services")
  BY NoAddsBefore
<1> QED BY <1>2, <1>3, <1>4 DEF ServiceGone

\* The same of the removes with their replacements between them.
LEMMA ReplacementsGo ==
  ASSUME NEW rs \in Seq(RowSteps), NEW fl, NEW missing, NEW now, NEW extra, NEW steps,
         Replacing(fl, rs, missing),
         \A k \in 1..Len(rs) : ServiceGone(rs, k, now, extra, steps)
  PROVE  \A k \in 1..Len(fl) :
           ServiceGone(fl, k, now, extra, steps) \/ Replaces(fl, k, missing)
<1> SUFFICES ASSUME NEW k \in 1..Len(fl)
             PROVE  ServiceGone(fl, k, now, extra, steps) \/ Replaces(fl, k, missing)
  OBVIOUS
<1>1. CASE \E i \in 1..Len(rs) :
             /\ fl[k] = rs[i]
             /\ (\A j \in 1..(i - 1) : rs[j].blocked) => \A j \in 1..(k - 1) : fl[j].blocked
  <2>1. PICK i \in 1..Len(rs) :
          /\ fl[k] = rs[i]
          /\ (\A j \in 1..(i - 1) : rs[j].blocked) => \A j \in 1..(k - 1) : fl[j].blocked
    BY <1>1
  <2>2. ServiceGone(rs, i, now, extra, steps)
    OBVIOUS
  <2>3. /\ rs[i].kind = "remove-service" /\ rs[i].page = "services"
        /\ rs[i].of \in ToSet(extra)
        /\ rs[i].blocked => rs[i].at = 0
    BY <2>2 DEF ServiceGone
  <2>4. ASSUME ~rs[i].blocked
        PROVE  /\ rs[i].at \in 1..Len(now.services) /\ now.services[rs[i].at] = rs[i].of
               /\ NoAdds(steps, "services")
               /\ \A j \in 1..(k - 1) : fl[j].blocked
    <3>1. /\ rs[i].at \in 1..Len(now.services) /\ now.services[rs[i].at] = rs[i].of
          /\ NoAdds(steps, "services")
          /\ \A j \in 1..(i - 1) : rs[j].blocked \/ rs[j].kind = "remove-forward"
      BY <2>2, <2>4 DEF ServiceGone
    <3>2. ASSUME NEW j \in 1..(i - 1) PROVE rs[j].blocked
      <4>1. j \in 1..Len(rs)
        OBVIOUS
      <4>2. rs[j].kind = "remove-service"
        BY <4>1 DEF ServiceGone
      <4> QED BY <4>2, <3>1
    <3> QED BY <3>1, <3>2, <2>1
  <2> QED BY <2>1, <2>3, <2>4 DEF ServiceGone
<1>2. CASE \E i \in 1..Len(rs) :
             /\ k > 1 /\ fl[k - 1] = rs[i]
             /\ fl[k].kind = "add-service" /\ fl[k].at = 0 /\ fl[k].page = "services"
             /\ fl[k].of \in ToSet(missing)
             /\ Fold[fl[k].of.name] = Fold[rs[i].of.name]
             /\ rs[i].blocked => fl[k].blocked
  <2>1. PICK i \in 1..Len(rs) :
             /\ k > 1 /\ fl[k - 1] = rs[i]
             /\ fl[k].kind = "add-service" /\ fl[k].at = 0 /\ fl[k].page = "services"
             /\ fl[k].of \in ToSet(missing)
             /\ Fold[fl[k].of.name] = Fold[rs[i].of.name]
             /\ rs[i].blocked => fl[k].blocked
    BY <1>2
  <2>2. rs[i].kind = "remove-service"
    BY DEF ServiceGone
  <2> QED BY <2>1, <2>2 DEF Replaces
<1> QED BY <1>1, <1>2 DEF Replacing

NoRemoves == <<>>

\* Without --prune there is nothing of all that.
LEMMA NothingToRemove ==
  ASSUME NEW now, NEW extra, NEW steps, NEW page
  PROVE  /\ ForwardRows(NoRemoves, now, extra) /\ ServiceRows(NoRemoves, now, extra)
         /\ OneRemove(NoRemoves, NoRemoves, steps, page)
<1>1. NoRemoves \in Seq(RowSteps) /\ Len(NoRemoves) = 0
  BY DEF NoRemoves
<1>2. ForwardRows(NoRemoves, now, extra)
  BY <1>1 DEF ForwardRows
<1>3. ServiceRows(NoRemoves, now, extra)
  BY <1>1 DEF ServiceRows
<1>4. OneRemove(NoRemoves, NoRemoves, steps, page)
  BY <1>1 DEF OneRemove
<1> QED BY <1>2, <1>3, <1>4

\* What the removes are made of: sf and sv are asked for, fr and rs what the
\* limits leave of them, fl has the replacements.
RemovesMade(r, sf, fr, sv, rs, fl, now, diff, steps) ==
  /\ ForwardRows(sf, now, diff.extraForwards) /\ OneRemove(fr, sf, steps, "apphosting")
  /\ ServiceRows(sv, now, diff.extraServices) /\ OneRemove(rs, sv, steps \o fr, "services")
  /\ Replacing(fl, rs, diff.missingServices)
  /\ r = fr \o fl

ForwardsAsked(diff, now) ==
  [i \in DOMAIN diff.extraForwards |-> RemoveForward(diff.extraForwards[i], now)]
ServicesAsked(diff, now, sofar) ==
  [i \in DOMAIN diff.extraServices |->
     UnlessInUse(RemoveService(diff.extraServices[i], now), now, sofar, TRUE)]

Asked(sf, fr, sv, now, diff, prune, selected, steps) ==
  /\ prune /\ "apphosting" \in selected => sf = ForwardsAsked(diff, now)
  /\ prune /\ "services" \in selected => sv = ServicesAsked(diff, now, steps \o fr)

\* The removes of a plan, built as PlanRemoves builds them.
LEMMA RemovesPart ==
  ASSUME NEW dump \in Dumps, NEW now \in Pages, NEW selected, NEW prune,
         NEW diff, diff = Diff(dump, now, selected), NEW steps,
         NEW r, r = PlanRemoves(diff, now, prune, selected, steps)
  PROVE  \E sf, fr, sv, rs, fl :
           /\ RemovesMade(r, sf, fr, sv, rs, fl, now, diff, steps)
           /\ Asked(sf, fr, sv, now, diff, prune, selected, steps)
<1> DEFINE sf == IF prune /\ "apphosting" \in selected THEN ForwardsAsked(diff, now)
                 ELSE NoRemoves
           fr == IF prune /\ "apphosting" \in selected
                 THEN Limited(BehindAdds(ForwardsAsked(diff, now), steps, "apphosting"))
                 ELSE NoRemoves
           sofar == steps \o fr
           sv == IF prune /\ "services" \in selected THEN ServicesAsked(diff, now, sofar)
                 ELSE NoRemoves
           rs == IF prune /\ "services" \in selected
                 THEN Limited(BehindAdds(ServicesAsked(diff, now, sofar), sofar, "services"))
                 ELSE NoRemoves
           fl == FlattenSeq([i \in DOMAIN rs |-> Replacement(rs[i], diff, now, prune)])
<1>1. r = fr \o fl
  BY DEF PlanRemoves, ForwardsAsked, ServicesAsked, NoRemoves
<1>2. ForwardRows(sf, now, diff.extraForwards) /\ OneRemove(fr, sf, steps, "apphosting")
  <2>1. CASE prune /\ "apphosting" \in selected
    <3> DEFINE ss == ForwardsAsked(diff, now)
    <3>1. ForwardRows(ss, now, diff.extraForwards)
      BY ForwardRemoves DEF ForwardsAsked
    <3>2. ss \in Seq(RowSteps) /\ \A k \in 1..Len(ss) : ss[k].blocked => ss[k].at = 0
      BY <3>1 DEF ForwardRows
    <3> HIDE DEF ss
    <3>3. OneRemove(Limited(BehindAdds(ss, steps, "apphosting")), ss, steps, "apphosting")
      BY <3>2, OneRemoveGoesOut
    <3>4. sf = ss /\ fr = Limited(BehindAdds(ss, steps, "apphosting"))
      BY <2>1 DEF ss
    <3> QED BY <3>1, <3>3, <3>4
  <2>2. CASE ~(prune /\ "apphosting" \in selected)
    <3>1. sf = NoRemoves /\ fr = NoRemoves
      BY <2>2
    <3> QED BY <3>1, NothingToRemove
  <2> QED BY <2>1, <2>2
<1> HIDE DEF sf, fr, sofar
<1>3. ServiceRows(sv, now, diff.extraServices) /\ OneRemove(rs, sv, sofar, "services")
  <2>1. CASE prune /\ "services" \in selected
    <3> DEFINE ss == ServicesAsked(diff, now, sofar)
    <3>1. ServiceRows(ss, now, diff.extraServices)
      BY ServiceRemoves DEF ServicesAsked
    <3>2. ss \in Seq(RowSteps) /\ \A k \in 1..Len(ss) : ss[k].blocked => ss[k].at = 0
      BY <3>1 DEF ServiceRows
    <3> HIDE DEF ss
    <3>3. OneRemove(Limited(BehindAdds(ss, sofar, "services")), ss, sofar, "services")
      BY <3>2, OneRemoveGoesOut
    <3>4. sv = ss /\ rs = Limited(BehindAdds(ss, sofar, "services"))
      BY <2>1 DEF ss
    <3> QED BY <3>1, <3>3, <3>4
  <2>2. CASE ~(prune /\ "services" \in selected)
    <3>1. sv = NoRemoves /\ rs = NoRemoves
      BY <2>2
    <3> QED BY <3>1, NothingToRemove
  <2> QED BY <2>1, <2>2
<1>4. prune /\ "services" \in selected => sv = ServicesAsked(diff, now, sofar)
  OBVIOUS
<1> HIDE DEF sv, rs
<1>5. rs \in Seq(RowSteps)
  BY <1>3 DEF OneRemove
<1>6. Replacing(fl, rs, diff.missingServices)
  BY <1>5, ReplacementsPart
<1>7. prune /\ "apphosting" \in selected => sf = ForwardsAsked(diff, now)
  BY DEF sf
<1> HIDE DEF fl
<1>8. RemovesMade(r, sf, fr, sv, rs, fl, now, diff, steps)
  BY <1>1, <1>2, <1>3, <1>6 DEF RemovesMade, sofar
<1>9. Asked(sf, fr, sv, now, diff, prune, selected, steps)
  BY <1>4, <1>7 DEF Asked, sofar
<1> QED BY <1>8, <1>9

Gone(r, k, now, diff, steps) ==
  \/ ForwardGone(r, k, now, diff.extraForwards, steps)
  \/ ServiceGone(r, k, now, diff.extraServices, steps)
  \/ Replaces(r, k, diff.missingServices)

\* Every step PlanRemoves makes is the remove of an extra row, or replaces one.
LEMMA RemovesFacts ==
  ASSUME NEW r, NEW sf, NEW fr, NEW sv, NEW rs, NEW fl, NEW now, NEW diff,
         NEW steps \in Seq(RowSteps),
         RemovesMade(r, sf, fr, sv, rs, fl, now, diff, steps)
  PROVE  /\ r \in Seq(RowSteps)
         /\ \A k \in 1..Len(r) : Gone(r, k, now, diff, steps)
<1>1. /\ ForwardRows(sf, now, diff.extraForwards) /\ OneRemove(fr, sf, steps, "apphosting")
      /\ ServiceRows(sv, now, diff.extraServices) /\ OneRemove(rs, sv, steps \o fr, "services")
      /\ Replacing(fl, rs, diff.missingServices)
      /\ r = fr \o fl
  BY DEF RemovesMade
<1>2. /\ fr \in Seq(RowSteps) /\ rs \in Seq(RowSteps) /\ fl \in Seq(RowSteps)
      /\ sf \in Seq(RowSteps) /\ sv \in Seq(RowSteps)
  BY <1>1 DEF ForwardRows, ServiceRows, OneRemove, Replacing
<1>3. \A k \in 1..Len(fr) : ForwardGone(fr, k, now, diff.extraForwards, steps)
  BY <1>1, <1>2, ForwardsGo
<1>4. \A k \in 1..Len(rs) : ServiceGone(rs, k, now, diff.extraServices, steps)
  BY <1>1, <1>2, ServicesGo
<1>5. \A k \in 1..Len(fl) : \/ ServiceGone(fl, k, now, diff.extraServices, steps)
                            \/ Replaces(fl, k, diff.missingServices)
  BY <1>1, <1>2, <1>4, ReplacementsGo
<1>6. /\ r \in Seq(RowSteps) /\ Len(r) = Len(fr) + Len(fl)
      /\ \A i \in 1..Len(fr) : r[i] = fr[i]
      /\ \A i \in 1..Len(fl) : r[Len(fr) + i] = fl[i]
      /\ \A k \in 1..Len(r) :
           k \in 1..Len(fr) \/ (k > Len(fr) /\ k - Len(fr) \in 1..Len(fl)
                                /\ r[k] = fl[k - Len(fr)])
  <2> DEFINE u == fr \o fl
  <2>1. u \in Seq(RowSteps) /\ Len(u) = Len(fr) + Len(fl)
    BY <1>2, Joined
  <2>2. \A i \in 1..Len(fr) : u[i] = fr[i]
    BY <1>2, Joined
  <2>3. \A i \in 1..Len(fl) : u[Len(fr) + i] = fl[i]
    BY <1>2, Joined
  <2>4. \A k \in 1..(Len(fr) + Len(fl)) :
           k \in 1..Len(fr) \/ (k > Len(fr) /\ k - Len(fr) \in 1..Len(fl)
                                /\ u[k] = fl[k - Len(fr)])
    BY <1>2, Joined
  <2>5. r = u
    BY <1>1
  <2> HIDE DEF u
  <2> QED BY <2>1, <2>2, <2>3, <2>4, <2>5
<1>7. Len(fr) \in Nat /\ Len(fl) \in Nat
  BY <1>2
<1>8. ASSUME NEW k \in 1..Len(r) PROVE Gone(r, k, now, diff, steps)
  <2>1. CASE k \in 1..Len(fr)
    <3>1. ForwardGone(fr, k, now, diff.extraForwards, steps)
      BY <2>1, <1>3
    <3>2. \A j \in 1..k : j \in 1..Len(fr) /\ r[j] = fr[j]
      BY <2>1, <1>6, <1>7
    <3>3. r[k] = fr[k] /\ \A j \in 1..(k - 1) : r[j] = fr[j]
      BY <3>2
    <3>4. ForwardGone(r, k, now, diff.extraForwards, steps)
      BY <3>1, <3>3 DEF ForwardGone
    <3> QED BY <3>4 DEF Gone
  <2>2. CASE k > Len(fr) /\ k - Len(fr) \in 1..Len(fl) /\ r[k] = fl[k - Len(fr)]
    <3> DEFINE m == k - Len(fr)
    <3>1. m \in 1..Len(fl) /\ k = Len(fr) + m /\ r[k] = fl[m]
      BY <2>2, <1>7
    <3> HIDE DEF m
    <3>2. \A j \in 1..(k - 1) : \/ j \in 1..Len(fr)
                                \/ j - Len(fr) \in 1..(m - 1) /\ r[j] = fl[j - Len(fr)]
      <4> SUFFICES ASSUME NEW j \in 1..(k - 1), j \notin 1..Len(fr)
                   PROVE  j - Len(fr) \in 1..(m - 1) /\ r[j] = fl[j - Len(fr)]
        OBVIOUS
      <4>1. j \in 1..Len(r)
        OBVIOUS
      <4>2. j > Len(fr) /\ r[j] = fl[j - Len(fr)]
        BY <4>1, <1>6
      <4>3. j - Len(fr) \in 1..(m - 1)
        BY <4>2, <3>1, <1>7
      <4> QED BY <4>2, <4>3
    <3>3. CASE ServiceGone(fl, m, now, diff.extraServices, steps)
      <4>1. /\ r[k].kind = "remove-service" /\ r[k].page = "services"
            /\ r[k].of \in ToSet(diff.extraServices)
            /\ r[k].blocked => r[k].at = 0
        BY <3>1, <3>3 DEF ServiceGone
      <4>2. ASSUME ~r[k].blocked
            PROVE  /\ r[k].at \in 1..Len(now.services)
                   /\ now.services[r[k].at] = r[k].of
                   /\ NoAdds(steps, "services")
                   /\ \A j \in 1..(k - 1) : r[j].blocked \/ r[j].kind = "remove-forward"
        <5>1. /\ r[k].at \in 1..Len(now.services)
              /\ now.services[r[k].at] = r[k].of
              /\ NoAdds(steps, "services")
              /\ \A j \in 1..(m - 1) : fl[j].blocked \/ fl[j].kind = "remove-forward"
          BY <3>1, <3>3, <4>2 DEF ServiceGone
        <5>2. \A j \in 1..Len(fr) : fr[j].kind = "remove-forward"
          BY <1>3 DEF ForwardGone
        <5>3. \A j \in 1..Len(fr) : r[j].kind = "remove-forward"
          BY <5>2, <1>6
        <5> QED BY <5>1, <5>3, <3>2
      <4>3. ServiceGone(r, k, now, diff.extraServices, steps)
        BY <4>1, <4>2 DEF ServiceGone
      <4> QED BY <4>3 DEF Gone
    <3>4. CASE Replaces(fl, m, diff.missingServices)
      <4>1. m > 1 /\ m - 1 \in 1..Len(fl)
        BY <3>1, <3>4, <1>7 DEF Replaces
      <4>2. k > 1 /\ k - 1 = Len(fr) + (m - 1)
        BY <4>1, <3>1, <1>7
      <4>3. r[k - 1] = fl[m - 1]
        BY <4>1, <4>2, <1>6
      <4>4. Replaces(r, k, diff.missingServices)
        BY <4>2, <4>3, <3>1, <3>4 DEF Replaces
      <4> QED BY <4>4 DEF Gone
    <3> QED BY <3>1, <3>3, <3>4, <1>5
  <2> QED BY <2>1, <2>2, <1>6
<1> QED BY <1>6, <1>8

\* What is planned for the rows: an add is of a dumped row; a service is added
\* where its name is new, or behind the remove of one of that name; a remove has
\* the position of a row the dump has none of, and no step that could move the
\* rows of its table before it.
AddsService(p, k, dump, now) ==
  p[k].kind = "add-service" =>
    /\ p[k].of \in ToSet(dump.services) /\ p[k].at = 0
    /\ ~p[k].blocked =>
         \/ /\ Fold[p[k].of.name] \notin NamesOf(now.services)
            /\ \A j \in 1..(k - 1) :
                 p[j].kind = "add-service" => Fold[p[j].of.name] # Fold[p[k].of.name]
         \/ /\ k > 1 /\ p[k - 1].kind = "remove-service" /\ ~p[k - 1].blocked
            /\ Fold[p[k].of.name] = Fold[p[k - 1].of.name]
AddsForward(p, k, dump) ==
  p[k].kind = "add-forward" => p[k].of \in ToSet(dump.forwards) /\ p[k].at = 0
RemovesService(p, k, dump, now) ==
  p[k].kind = "remove-service" =>
    /\ p[k].of \in ToSet(now.services)
    /\ p[k].blocked => p[k].at = 0
    /\ ~p[k].blocked =>
         /\ p[k].at \in 1..Len(now.services) /\ now.services[p[k].at] = p[k].of
         /\ \A w \in ToSet(dump.services) : ServiceKey[p[k].of] # ServiceKey[w]
         /\ \A j \in 1..(k - 1) : p[j].kind \in {"add-service", "remove-service"} => p[j].blocked
RemovesForward(p, k, dump, now) ==
  p[k].kind = "remove-forward" =>
    /\ p[k].of \in ToSet(now.forwards)
    /\ p[k].blocked => p[k].at = 0
    /\ ~p[k].blocked =>
         /\ p[k].at \in 1..Len(now.forwards) /\ now.forwards[p[k].at] = p[k].of
         /\ \A w \in ToSet(dump.forwards) : ForwardKey[p[k].of] # ForwardKey[w]
         /\ \A j \in 1..(k - 1) : p[j].kind \in {"add-forward", "remove-forward"} => p[j].blocked
RowAt(p, k, dump, now) ==
  /\ AddsService(p, k, dump, now) /\ AddsForward(p, k, dump)
  /\ RemovesService(p, k, dump, now) /\ RemovesForward(p, k, dump, now)

\* It depends on the steps so far only.
LEMMA RowPrefix ==
  ASSUME NEW p, NEW q, NEW k \in Nat, k >= 1, \A j \in 1..k : p[j] = q[j],
         NEW dump, NEW now, RowAt(p, k, dump, now)
  PROVE  RowAt(q, k, dump, now)
<1>1. p[k] = q[k] /\ \A j \in 1..(k - 1) : p[j] = q[j]
  OBVIOUS
<1>2. k > 1 => p[k - 1] = q[k - 1]
  OBVIOUS
<1>3. AddsService(q, k, dump, now)
  BY <1>1, <1>2 DEF RowAt, AddsService
<1>4. AddsForward(q, k, dump)
  BY <1>1 DEF RowAt, AddsForward
<1>5. RemovesService(q, k, dump, now)
  BY <1>1 DEF RowAt, RemovesService
<1>6. RemovesForward(q, k, dump, now)
  BY <1>1 DEF RowAt, RemovesForward
<1> QED BY <1>3, <1>4, <1>5, <1>6 DEF RowAt

\* The adds, which come first.
OnlyAdds(steps) ==
  \A k \in 1..Len(steps) :
    \/ steps[k].kind = "add-service" /\ steps[k].page = "services"
    \/ steps[k].kind = "add-forward" /\ steps[k].page = "apphosting"

\* Every add is of a row the dump holds and the gateway lacks.
LEMMA AddsPart ==
  ASSUME NEW dump \in Dumps, NEW now \in Pages, NEW selected, NEW prune,
         NEW diff, diff = Diff(dump, now, selected),
         NEW s, s = PlanServices(diff, now, prune),
         NEW f, f = PlanForwards(diff, now, prune, s)
  PROVE  /\ s \o f \in Seq(RowSteps) /\ OnlyAdds(s \o f)
         /\ \A k \in 1..Len(s \o f) : RowAt(s \o f, k, dump, now)
<1> DEFINE p == s \o f
<1>1. /\ s \in Seq(RowSteps)
      /\ \A k \in 1..Len(s) :
           /\ s[k].kind = "add-service" /\ s[k].page = "services" /\ s[k].at = 0
           /\ s[k].of \in ToSet(dump.services)
           /\ ~s[k].blocked => Fold[s[k].of.name] \notin NamesOf(now.services)
      /\ \A i, j \in 1..Len(s) : i < j => Fold[s[i].of.name] # Fold[s[j].of.name]
  BY ServicesPart
<1>2. /\ f \in Seq(RowSteps)
      /\ \A k \in 1..Len(f) :
           /\ f[k].kind = "add-forward" /\ f[k].page = "apphosting" /\ f[k].at = 0
           /\ f[k].of \in ToSet(dump.forwards)
  BY ForwardsPart
<1>3. p \in Seq(RowSteps) /\ Len(p) = Len(s) + Len(f)
  BY <1>1, <1>2, Joined
<1>4. \A i \in 1..Len(s) : p[i] = s[i]
  BY <1>1, <1>2, Joined
<1>5. \A k \in 1..(Len(s) + Len(f)) :
           k \in 1..Len(s) \/ (k - Len(s) \in 1..Len(f) /\ p[k] = f[k - Len(s)])
  BY <1>1, <1>2, Joined
<1> HIDE DEF p
<1>6. ASSUME NEW k \in 1..Len(p)
      PROVE  /\ \/ p[k].kind = "add-service" /\ p[k].page = "services"
                \/ p[k].kind = "add-forward" /\ p[k].page = "apphosting"
             /\ RowAt(p, k, dump, now)
  <2>1. CASE k \in 1..Len(s)
    <3>1. p[k] = s[k] /\ \A j \in 1..(k - 1) : j \in 1..Len(s) /\ j < k /\ p[j] = s[j]
      BY <2>1, <1>4
    <3>2. /\ p[k].kind = "add-service" /\ p[k].page = "services" /\ p[k].at = 0
          /\ p[k].of \in ToSet(dump.services)
          /\ ~p[k].blocked => Fold[p[k].of.name] \notin NamesOf(now.services)
      BY <2>1, <3>1, <1>1
    <3>3. \A j \in 1..(k - 1) : Fold[p[j].of.name] # Fold[p[k].of.name]
      BY <2>1, <3>1, <1>1
    <3> QED BY <3>2, <3>3 DEF RowAt, AddsService, AddsForward, RemovesService, RemovesForward
  <2>2. CASE k - Len(s) \in 1..Len(f) /\ p[k] = f[k - Len(s)]
    <3>1. /\ p[k].kind = "add-forward" /\ p[k].page = "apphosting" /\ p[k].at = 0
          /\ p[k].of \in ToSet(dump.forwards)
      BY <2>2, <1>2
    <3> QED BY <3>1 DEF RowAt, AddsService, AddsForward, RemovesService, RemovesForward
  <2> QED BY <2>1, <2>2, <1>3, <1>5
<1>7. OnlyAdds(p)
  BY <1>6 DEF OnlyAdds
<1> QED BY <1>3, <1>6, <1>7 DEF p

\* The rows' steps of a plan, adds and removes, are of these two kinds.
LEMMA RowsPart ==
  ASSUME NEW dump \in Dumps, NEW now \in Pages, NEW selected,
         NEW diff, diff = Diff(dump, now, selected),
         NEW steps \in Seq(RowSteps), OnlyAdds(steps),
         \A k \in 1..Len(steps) : RowAt(steps, k, dump, now),
         NEW r \in Seq(RowSteps), \A k \in 1..Len(r) : Gone(r, k, now, diff, steps)
  PROVE  /\ steps \o r \in Seq(RowSteps)
         /\ \A k \in 1..Len(steps \o r) : RowAt(steps \o r, k, dump, now)
<1> DEFINE p == steps \o r
           n == Len(steps)
<1>1. p \in Seq(RowSteps) /\ Len(p) = n + Len(r)
  BY Joined
<1>2. \A i \in 1..n : p[i] = steps[i]
  BY Joined
<1>3. \A k \in 1..(n + Len(r)) :
           k \in 1..n \/ (k > n /\ k - n \in 1..Len(r) /\ p[k] = r[k - n])
  BY Joined
<1>4. \A i \in 1..Len(r) : p[n + i] = r[i]
  BY Joined
<1>5. n \in Nat /\ Len(r) \in Nat
  OBVIOUS
<1>6. DOMAIN steps = 1..n
  OBVIOUS
<1>7. ASSUME NEW page, NoAdds(steps, page), NEW j \in 1..n
      PROVE  /\ page = "services" => (p[j].kind = "add-service" => p[j].blocked)
             /\ page = "apphosting" => (p[j].kind = "add-forward" => p[j].blocked)
             /\ p[j].kind \notin {"remove-service", "remove-forward"}
  <2>1. p[j] = steps[j] /\ j \in DOMAIN steps
    BY <1>2, <1>6
  <2>2. \/ p[j].kind = "add-service" /\ p[j].page = "services"
        \/ p[j].kind = "add-forward" /\ p[j].page = "apphosting"
    BY <2>1 DEF OnlyAdds
  <2>3. p[j].kind \in {"add-service", "add-forward"} /\ p[j].page = page => p[j].blocked
    BY <2>1, <1>7 DEF NoAdds, Planned
  <2> QED BY <2>2, <2>3
<1>9. /\ \A x \in ToSet(diff.extraForwards) :
           x \in ToSet(now.forwards) /\ \A w \in ToSet(dump.forwards) : ForwardKey[x] # ForwardKey[w]
      /\ \A x \in ToSet(diff.extraServices) :
           x \in ToSet(now.services) /\ \A w \in ToSet(dump.services) : ServiceKey[x] # ServiceKey[w]
      /\ ToSet(diff.missingServices) \subseteq ToSet(dump.services)
  BY DiffRows, ZenonT(30)
<1> HIDE DEF p, n
<1>8. ASSUME NEW k \in 1..Len(p) PROVE RowAt(p, k, dump, now)
  <2>1. CASE k \in 1..n
    <3>1. \A j \in 1..k : j \in 1..n /\ steps[j] = p[j]
      BY <2>1, <1>2, <1>5
    <3>2. RowAt(steps, k, dump, now)
      BY <2>1 DEF n
    <3> QED BY <3>1, <3>2, <2>1, RowPrefix
  <2>2. CASE k > n /\ k - n \in 1..Len(r) /\ p[k] = r[k - n]
    <3> DEFINE m == k - n
    <3>1. m \in 1..Len(r) /\ k = n + m /\ p[k] = r[m]
      BY <2>2, <1>5
    <3>2. Gone(r, m, now, diff, steps)
      BY <3>1
    <3> HIDE DEF m
    <3>3. \A j \in 1..(k - 1) : \/ j \in 1..n
                                \/ j - n \in 1..(m - 1) /\ p[j] = r[j - n]
      <4> SUFFICES ASSUME NEW j \in 1..(k - 1), j \notin 1..n
                   PROVE  j - n \in 1..(m - 1) /\ p[j] = r[j - n]
        OBVIOUS
      <4>1. j \in 1..(n + Len(r))
        BY <1>1
      <4>2. j > n /\ p[j] = r[j - n]
        BY <4>1, <1>3
      <4>3. j - n \in 1..(m - 1)
        BY <4>2, <3>1, <1>5, SMTT(20)
      <4> QED BY <4>2, <4>3
    <3>4. CASE ForwardGone(r, m, now, diff.extraForwards, steps)
      <4>1. /\ p[k].kind = "remove-forward" /\ p[k].of \in ToSet(diff.extraForwards)
            /\ p[k].blocked => p[k].at = 0
        BY <3>1, <3>4 DEF ForwardGone
      <4>2. /\ p[k].of \in ToSet(now.forwards)
            /\ \A w \in ToSet(dump.forwards) : ForwardKey[p[k].of] # ForwardKey[w]
        BY <4>1, <1>9
      <4>3. ASSUME ~p[k].blocked
            PROVE  /\ p[k].at \in 1..Len(now.forwards) /\ now.forwards[p[k].at] = p[k].of
                   /\ \A j \in 1..(k - 1) :
                        p[j].kind \in {"add-forward", "remove-forward"} => p[j].blocked
        <5>1. /\ p[k].at \in 1..Len(now.forwards) /\ now.forwards[p[k].at] = p[k].of
              /\ NoAdds(steps, "apphosting")
              /\ \A j \in 1..(m - 1) : r[j].blocked
          BY <3>1, <3>4, <4>3 DEF ForwardGone
        <5>2. \A j \in 1..n : p[j].kind \in {"add-forward", "remove-forward"} => p[j].blocked
          BY <5>1, <1>7
        <5> QED BY <5>1, <5>2, <3>3
      <4>4. RemovesForward(p, k, dump, now)
        BY <4>1, <4>2, <4>3 DEF RemovesForward
      <4> QED BY <4>1, <4>4 DEF RowAt, AddsService, AddsForward, RemovesService
    <3>5. CASE ServiceGone(r, m, now, diff.extraServices, steps)
      <4>1. /\ p[k].kind = "remove-service" /\ p[k].of \in ToSet(diff.extraServices)
            /\ p[k].blocked => p[k].at = 0
        BY <3>1, <3>5 DEF ServiceGone
      <4>2. /\ p[k].of \in ToSet(now.services)
            /\ \A w \in ToSet(dump.services) : ServiceKey[p[k].of] # ServiceKey[w]
        BY <4>1, <1>9
      <4>3. ASSUME ~p[k].blocked
            PROVE  /\ p[k].at \in 1..Len(now.services) /\ now.services[p[k].at] = p[k].of
                   /\ \A j \in 1..(k - 1) :
                        p[j].kind \in {"add-service", "remove-service"} => p[j].blocked
        <5>1. /\ p[k].at \in 1..Len(now.services) /\ now.services[p[k].at] = p[k].of
              /\ NoAdds(steps, "services")
              /\ \A j \in 1..(m - 1) : r[j].blocked \/ r[j].kind = "remove-forward"
          BY <3>1, <3>5, <4>3 DEF ServiceGone
        <5>2. \A j \in 1..n : p[j].kind \in {"add-service", "remove-service"} => p[j].blocked
          BY <5>1, <1>7
        <5> QED BY <5>1, <5>2, <3>3
      <4>4. RemovesService(p, k, dump, now)
        BY <4>1, <4>2, <4>3 DEF RemovesService
      <4> QED BY <4>1, <4>4 DEF RowAt, AddsService, AddsForward, RemovesForward
    <3>6. CASE Replaces(r, m, diff.missingServices)
      <4>1. /\ m > 1 /\ r[m - 1].kind = "remove-service"
            /\ p[k].kind = "add-service" /\ p[k].at = 0
            /\ p[k].of \in ToSet(diff.missingServices)
            /\ Fold[p[k].of.name] = Fold[r[m - 1].of.name]
            /\ r[m - 1].blocked => p[k].blocked
        BY <3>1, <3>6 DEF Replaces
      <4>6. m \in Nat /\ m > 1 /\ m <= Len(r) /\ n \in Nat /\ Len(r) \in Nat /\ k = n + m
        BY <4>1, <3>1, <1>5
      <4>2. m - 1 \in 1..Len(r) /\ k > 1 /\ k - 1 = n + (m - 1)
        BY <4>6
      <4>3. p[k - 1] = r[m - 1]
        BY <4>2, <1>4
      <4>4. p[k].of \in ToSet(dump.services)
        BY <4>1, <1>9
      <4>5. AddsService(p, k, dump, now)
        BY <4>1, <4>2, <4>3, <4>4 DEF AddsService
      <4> QED BY <4>1, <4>5 DEF RowAt, AddsForward, RemovesForward, RemovesService
    <3> QED BY <3>2, <3>4, <3>5, <3>6 DEF Gone
  <2> QED BY <2>1, <2>2, <1>1, <1>3
<1> QED BY <1>1, <1>8 DEF p

PageNames == {"services", "apphosting", "ipalloc", "packetfilter"} \cup FormPages
FieldNames == {"security", "key", "box", "wmacr", "ipaddr", "lease"}
Payloads == UNION {[D -> Values] : D \in SUBSET FieldNames}
PlanSteps ==
  [kind : RowKinds \cup {"reserve", "form", "skip"}, page : PageNames,
   of : Service \cup Forward \cup Devices \cup PageNames, at : Nat,
   blocked : BOOLEAN, deferred : BOOLEAN, payload : Payloads,
   fields : SUBSET FieldNames, moves : BOOLEAN]

\* What a save of a form is for.
DumpedOf(dumped, form, page) ==
  {c \in FieldDiffs(dumped, form, page) : c.dump # Absent}
AppliedOf(dumped, form, page) ==
  {c \in DumpedOf(dumped, form, page) :
     /\ c.field \in form.shows
     /\ ~(IsMarker(c.dump, dumped.text, c.field) /\ c.field \notin form.boxes)}
OffOf(dumped, form, page) ==
  {c \in AppliedOf(dumped, form, page) : IsMarker(c.dump, dumped.text, c.field)}
SaveOf(dumped, form, page) ==
  SaveForm(page, AppliedOf(dumped, form, page), OffOf(dumped, form, page), form)

OtherStep(x, dump, now, selected) ==
  /\ x \in PlanSteps /\ x.at = 0 /\ ~x.deferred
  /\ x.blocked => x.payload = NoPayload
  /\ \/ x.kind = "skip"
     \/ x.kind = "reserve" /\ x.of \in Devices
     \/ /\ x.kind = "form" /\ x.page \in FormPages
        /\ ~x.blocked => /\ x.page \in selected /\ dump.forms[x.page].captured
                         /\ x = SaveOf(dump.forms[x.page], now.forms[x.page], x.page)

\* A step with no form sends an empty payload.
LEMMA PayloadKnown == NoPayload \in Payloads
<1>1. NoPayload \in [{} -> Values]
  BY DEF NoPayload
<1>2. {} \in SUBSET FieldNames
  OBVIOUS
<1> QED BY <1>1, <1>2 DEF Payloads

\* A step of a table is a step of a plan.
LEMMA RowStepsArePlanned == RowSteps \subseteq PlanSteps
<1> SUFFICES ASSUME NEW x \in RowSteps PROVE x \in PlanSteps
  OBVIOUS
<1>1. /\ x = [kind |-> x.kind, page |-> x.page, of |-> x.of, at |-> x.at,
              blocked |-> x.blocked, deferred |-> x.deferred, payload |-> x.payload,
              fields |-> x.fields, moves |-> x.moves]
      /\ x.kind \in RowKinds /\ x.page \in {"services", "apphosting"}
      /\ x.of \in Service \cup Forward /\ x.at \in Nat /\ x.blocked \in BOOLEAN
      /\ x.deferred \in BOOLEAN /\ x.payload = NoPayload /\ x.fields = {} /\ x.moves = FALSE
  BY DEF RowSteps
<1>2. x.payload \in Payloads /\ x.page \in PageNames /\ x.fields \in SUBSET FieldNames /\ x.moves \in BOOLEAN
  BY <1>1, PayloadKnown DEF PageNames
<1>3. [kind |-> x.kind, page |-> x.page, of |-> x.of, at |-> x.at,
       blocked |-> x.blocked, deferred |-> x.deferred, payload |-> x.payload,
       fields |-> x.fields, moves |-> x.moves] \in PlanSteps
  BY <1>1, <1>2 DEF PlanSteps
<1> QED BY <1>1, <1>3

\* A note about fields left alone.
LEMMA SkipTyped ==
  ASSUME NEW page \in PageNames, NEW fields \in SUBSET FieldNames,
         NEW dump, NEW now, NEW selected, NEW x, x = SkipStep(page, fields)
  PROVE  OtherStep(x, dump, now, selected) /\ x \in PlanSteps /\ x.kind = "skip"
<1>1. x = [kind |-> "skip", page |-> page, of |-> page, at |-> 0, blocked |-> FALSE,
           deferred |-> FALSE, payload |-> NoPayload, fields |-> fields, moves |-> FALSE]
  BY DEF SkipStep, Step
<1>2. x \in PlanSteps
  BY <1>1, PayloadKnown DEF PlanSteps
<1>3. /\ x.kind = "skip" /\ x.at = 0 /\ ~x.deferred /\ x.payload = NoPayload
  BY <1>1
<1> QED BY <1>2, <1>3 DEF OtherStep

\* The reservation of one device's address.
LEMMA ReserveTyped ==
  ASSUME NEW d \in Devices, NEW now \in Pages, NEW dump, NEW selected,
         NEW x, x = Reserve(d, now)
  PROVE  OtherStep(x, dump, now, selected) /\ x \in PlanSteps /\ x.kind = "reserve"
<1> DEFINE stop == d \notin now.listed /\ now.fixed[d] = NoIp
<1>0. stop \in BOOLEAN
  OBVIOUS
<1>1. x = [kind |-> "reserve", page |-> "ipalloc", of |-> d, at |-> 0, blocked |-> stop,
           deferred |-> FALSE, payload |-> NoPayload, fields |-> {}, moves |-> FALSE]
  BY DEF Reserve, Step
<1> HIDE DEF stop
<1>2. x \in PlanSteps
  BY <1>0, <1>1, PayloadKnown DEF PlanSteps, PageNames
<1>3. /\ x.kind = "reserve" /\ x.at = 0 /\ ~x.deferred /\ x.payload = NoPayload /\ x.of = d
  BY <1>1
<1> QED BY <1>2, <1>3 DEF OtherStep

BlockedForm(page, fields) == [BlockedStep("form", page, page) EXCEPT !.fields = fields]

\* The save of a form the planner blocks.
LEMMA BlockedFormTyped ==
  ASSUME NEW page \in FormPages, NEW fields \in SUBSET FieldNames,
         NEW dump, NEW now, NEW selected,
         NEW x, x = BlockedForm(page, fields)
  PROVE  /\ OtherStep(x, dump, now, selected) /\ x \in PlanSteps
         /\ x.kind = "form" /\ x.page = page /\ x.blocked
<1>1. x = [kind |-> "form", page |-> page, of |-> page, at |-> 0, blocked |-> TRUE,
           deferred |-> FALSE, payload |-> NoPayload, fields |-> fields, moves |-> FALSE]
  BY DEF BlockedForm, BlockedStep, Step
<1>2. page \in PageNames
  BY DEF PageNames
<1>3. x \in PlanSteps
  BY <1>1, <1>2, PayloadKnown DEF PlanSteps
<1>4. /\ x.kind = "form" /\ x.at = 0 /\ ~x.deferred
      /\ x.payload = NoPayload /\ x.page = page /\ x.blocked
  BY <1>1
<1> QED BY <1>3, <1>4 DEF OtherStep

\* The differences of a form name its fields and what the dump has of them.
LEMMA DifferencesTyped ==
  ASSUME NEW page \in FormPages, NEW dumped \in DumpedForm(page), NEW form \in Form(page),
         NEW c \in FieldDiffs(dumped, form, page)
  PROVE  /\ c.field \in Fields[page] /\ c.field \in FieldNames
         /\ c.dump = dumped.value[c.field] /\ c.dump \in STRING
         /\ c.live = FormValue(form, c.field)
         /\ ~Agree(dumped, form, c.field)
<1>1. PICK f \in {g \in Fields[page] : ~Agree(dumped, form, g)} :
        c = [field |-> f, dump |-> dumped.value[f], live |-> FormValue(form, f),
             disabled |-> f \in Disabled(form),
             unrendered |-> form.shows # {} /\ f \notin form.shows]
  BY DEF FieldDiffs
<1>2. c.field = f /\ c.dump = dumped.value[f] /\ c.live = FormValue(form, f)
  BY <1>1
<1>3. dumped.value \in [Fields[page] -> STRING]
  BY DEF DumpedForm
<1>4. f \in Fields[page] /\ ~Agree(dumped, form, f)
  OBVIOUS
<1>5. f \in FieldNames
  BY <1>4 DEF Fields, FormPages, FieldNames
<1> QED BY <1>2, <1>3, <1>4, <1>5

\* What a save of a form sends.
LEMMA PayloadTyped ==
  ASSUME NEW page \in FormPages, NEW dumped \in DumpedForm(page), NEW form \in Form(page),
         NEW applied \in SUBSET {c \in FieldDiffs(dumped, form, page) : c.dump # Absent},
         NEW off
  PROVE  SaveForm(page, applied, off, form).payload \in Payloads
<1> DEFINE given == [f \in {c.field : c \in applied \ off} |->
                       (CHOOSE c \in applied : c.field = f).dump]
           base == BasePayload(form, page)
           omitted == {c.field : c \in off}
           payload == Overlay(base, given, omitted)
<1>1. SaveForm(page, applied, off, form).payload = payload
  BY DEF SaveForm, Step
<1>2. /\ DOMAIN given \in SUBSET FieldNames /\ \A f \in DOMAIN given : given[f] \in Values
  <2>1. ASSUME NEW f \in DOMAIN given
        PROVE  f \in FieldNames /\ given[f] \in Values
    <3>1. PICK d \in applied : d.field = f
      OBVIOUS
    <3>2. f \in FieldNames
      BY <3>1, DifferencesTyped
    <3> DEFINE e == CHOOSE c \in applied : c.field = f
    <3>3. e \in applied
      BY <3>1
    <3>4. given[f] = e.dump
      OBVIOUS
    <3> HIDE DEF e
    <3>5. e.dump \in STRING /\ e.dump # Absent
      BY <3>3, DifferencesTyped
    <3> QED BY <3>2, <3>4, <3>5 DEF Values
  <2> QED BY <2>1
<1>3. /\ DOMAIN base \in SUBSET FieldNames /\ \A f \in DOMAIN base : base[f] \in Values
  <2>1. /\ form.shows \subseteq Fields[page] /\ form.value \in [Fields[page] -> Values]
    BY DEF Form
  <2>2. Fields[page] \subseteq FieldNames
    BY DEF Fields, FormPages, FieldNames
  <2>3. DOMAIN base \subseteq form.shows /\ \A f \in DOMAIN base : base[f] = form.value[f]
    BY DEF BasePayload
  <2> QED BY <2>1, <2>2, <2>3
<1> HIDE DEF given, base, omitted
<1>4. payload \in [(DOMAIN base \cup DOMAIN given) \ omitted -> Values]
  BY <1>2, <1>3 DEF Overlay
<1>5. (DOMAIN base \cup DOMAIN given) \ omitted \in SUBSET FieldNames
  BY <1>2, <1>3
<1> HIDE DEF payload
<1> QED BY <1>1, <1>4, <1>5 DEF Payloads

\* The save of a form, made from the dumped and the read form.
LEMMA SaveTyped ==
  ASSUME NEW page \in FormPages, NEW dump \in Dumps, NEW now \in Pages, NEW selected,
         page \in selected, dump.forms[page].captured,
         NEW x, x = SaveOf(dump.forms[page], now.forms[page], page)
  PROVE  /\ OtherStep(x, dump, now, selected) /\ x \in PlanSteps
         /\ x.kind = "form" /\ x.page = page /\ ~x.blocked
<1> DEFINE dumped == dump.forms[page]
           form == now.forms[page]
           applied == AppliedOf(dumped, form, page)
           off == OffOf(dumped, form, page)
           payload == SaveForm(page, applied, off, form).payload
           fields == {c.field : c \in applied}
           moving == \E c \in applied : c.field = "ipaddr"
<1>1. dumped \in DumpedForm(page) /\ form \in Form(page)
  BY PagesFields, DumpFields
<1>2. applied \in SUBSET {c \in FieldDiffs(dumped, form, page) : c.dump # Absent}
  BY DEF AppliedOf, DumpedOf
<1>3. x = SaveForm(page, applied, off, form)
  BY DEF SaveOf
<1> HIDE DEF dumped, form, applied, off
<1>4. payload \in Payloads
  BY <1>1, <1>2, PayloadTyped
<1>5. fields \in SUBSET FieldNames
  BY <1>1, <1>2, DifferencesTyped
<1>6. x = [kind |-> "form", page |-> page, of |-> page, at |-> 0, blocked |-> FALSE,
           deferred |-> FALSE, payload |-> payload, fields |-> fields, moves |-> moving]
  BY <1>3 DEF SaveForm, Step
<1>7. moving \in BOOLEAN
  OBVIOUS
<1> HIDE DEF payload, fields, moving
<1>8. page \in PageNames
  BY DEF PageNames
<1>9. x \in PlanSteps
  BY <1>4, <1>5, <1>6, <1>7, <1>8 DEF PlanSteps
<1>10. x.kind = "form" /\ x.at = 0 /\ ~x.deferred /\ x.page = page /\ ~x.blocked
  BY <1>6
<1> QED BY <1>9, <1>10 DEF OtherStep

\* What is planned for a page of its own: notes, and at most one save behind them.
OtherPart(q, page, dump, now, selected) ==
  /\ q \in Seq(PlanSteps)
  /\ \A k \in 1..Len(q) :
       /\ OtherStep(q[k], dump, now, selected)
       /\ q[k].kind = "form" => k = Len(q) /\ q[k].page = page

Skips(dump, now, selected) ==
  {x \in PlanSteps : x.kind = "skip" /\ OtherStep(x, dump, now, selected)}

\* The notes about a form, with or without a save of it behind them.
LEMMA NotesPart ==
  ASSUME NEW dump, NEW now, NEW selected, NEW page,
         NEW q \in Seq(Skips(dump, now, selected))
  PROVE  /\ OtherPart(q, page, dump, now, selected)
         /\ \A x \in PlanSteps :
              x.kind = "form" /\ x.page = page /\ OtherStep(x, dump, now, selected)
                => OtherPart(Append(q, x), page, dump, now, selected)
<1>1. q \in Seq(PlanSteps)
  BY DEF Skips
<1>2. \A k \in 1..Len(q) : OtherStep(q[k], dump, now, selected) /\ q[k].kind = "skip"
  BY DEF Skips
<1>3. OtherPart(q, page, dump, now, selected)
  BY <1>1, <1>2 DEF OtherPart
<1>4. ASSUME NEW x \in PlanSteps, x.kind = "form", x.page = page,
             OtherStep(x, dump, now, selected)
      PROVE  OtherPart(Append(q, x), page, dump, now, selected)
  <2> DEFINE r == Append(q, x)
  <2>1. /\ r \in Seq(PlanSteps) /\ Len(r) = Len(q) + 1
        /\ \A k \in 1..Len(q) : r[k] = q[k]
        /\ r[Len(q) + 1] = x
    BY <1>1
  <2>2. Len(q) \in Nat
    BY <1>1
  <2> HIDE DEF r
  <2>3. ASSUME NEW k \in 1..Len(r)
        PROVE  /\ OtherStep(r[k], dump, now, selected)
               /\ r[k].kind = "form" => k = Len(r) /\ r[k].page = page
    <3>1. k \in 1..Len(q) \/ k = Len(q) + 1
      BY <2>1, <2>2
    <3>2. CASE k \in 1..Len(q)
      BY <3>2, <2>1, <1>2
    <3>3. CASE k = Len(q) + 1
      BY <3>3, <2>1, <1>4
    <3> QED BY <3>1, <3>2, <3>3
  <2> QED BY <2>1, <2>3 DEF OtherPart, r
<1> QED BY <1>3, <1>4

\* What PlanForm plans for a page: at most one save of it, and notes.
LEMMA FormPart ==
  ASSUME NEW dump \in Dumps, NEW now \in Pages, NEW selected, NEW page \in FormPages,
         page \in selected, NEW diff, diff = Diff(dump, now, selected),
         NEW q, q = PlanForm(page, diff, dump, now)
  PROVE  OtherPart(q, page, dump, now, selected)
<1> DEFINE form == now.forms[page]
           dumpedForm == dump.forms[page]
           dumped == {c \in diff.forms[page] : Recorded(c)}
           Marks(c) == IsMarker(c.dump, dump.forms[page].text, c.field)
           shown == {c \in dumped : c.field \in form.shows}
           lost == {c \in dumped \ shown : ~Marks(c)}
           wrong == {c \in shown : Marks(c) /\ c.field \notin form.boxes}
           applied == shown \ wrong
           n1 == IF lost # {} THEN <<SkipStep(page, {c.field : c \in lost})>> ELSE <<>>
           n2 == IF lost = {} /\ shown = {}
                 THEN <<SkipStep(page, {c.field : c \in dumped})>> ELSE <<>>
           n3 == IF wrong # {} THEN <<SkipStep(page, {c.field : c \in wrong})>> ELSE <<>>
           notes == n1 \o n2 \o n3
           off == {c \in applied : Marks(c)}
           all == {c.field : c \in dumped}
           those == {c.field : c \in applied}
           b1 == BlockedForm(page, all)
           b2 == BlockedForm(page, those)
           save == SaveForm(page, applied, off, form)
<1>1. \/ q = <<>> \/ q = <<b1>> \/ q = notes \/ q = Append(notes, b2)
      \/ dumped # {} /\ q = Append(notes, save)
  BY DEF PlanForm, BlockedForm
<1>2. page \in PageNames
  BY DEF PageNames
<1>3. diff.forms[page] = IF page \in selected /\ dump.forms[page].captured
                         THEN FieldDiffs(dump.forms[page], now.forms[page], page) ELSE {}
  BY DEF Diff
<1>4. \A c \in diff.forms[page] : c.field \in FieldNames
  <2>1. dump.forms[page] \in DumpedForm(page) /\ now.forms[page] \in Form(page)
    BY PagesFields, DumpFields
  <2> QED BY <2>1, <1>3, DifferencesTyped
<1>5. ASSUME NEW cs \in SUBSET diff.forms[page]
      PROVE  {c.field : c \in cs} \in SUBSET FieldNames
  BY <1>4
<1>6. dumped # {} => dump.forms[page].captured /\ save = SaveOf(dumpedForm, form, page)
  <2> SUFFICES ASSUME dumped # {}
               PROVE  dump.forms[page].captured /\ save = SaveOf(dumpedForm, form, page)
    OBVIOUS
  <2>1. /\ dump.forms[page].captured
        /\ diff.forms[page] = FieldDiffs(dumpedForm, form, page)
    BY <1>3
  <2>2. dumped = DumpedOf(dumpedForm, form, page)
    BY <2>1 DEF DumpedOf, Recorded
  <2>3. applied = AppliedOf(dumpedForm, form, page)
    BY <2>2 DEF AppliedOf
  <2>4. off = OffOf(dumpedForm, form, page)
    BY <2>3 DEF OffOf
  <2> QED BY <2>1, <2>3, <2>4 DEF SaveOf
<1>7. all \in SUBSET FieldNames /\ those \in SUBSET FieldNames
  <2>1. dumped \in SUBSET diff.forms[page] /\ applied \in SUBSET diff.forms[page]
    OBVIOUS
  <2> HIDE DEF dumped, applied
  <2> QED BY <2>1, <1>5
<1>8. notes \in Seq(Skips(dump, now, selected))
  <2>1. ASSUME NEW cs \in SUBSET diff.forms[page]
        PROVE  SkipStep(page, {c.field : c \in cs}) \in Skips(dump, now, selected)
    <3> DEFINE fields == {c.field : c \in cs}
    <3>1. fields \in SUBSET FieldNames
      BY <1>5
    <3> HIDE DEF fields
    <3>2. SkipStep(page, fields) \in Skips(dump, now, selected)
      BY <3>1, <1>2, SkipTyped DEF Skips
    <3> QED BY <3>2 DEF fields
  <2>2. /\ lost \in SUBSET diff.forms[page] /\ dumped \in SUBSET diff.forms[page]
        /\ wrong \in SUBSET diff.forms[page]
    OBVIOUS
  <2> DEFINE S == Skips(dump, now, selected)
             s1 == SkipStep(page, {c.field : c \in lost})
             s2 == SkipStep(page, {c.field : c \in dumped})
             s3 == SkipStep(page, {c.field : c \in wrong})
  <2>3. s1 \in S /\ s2 \in S /\ s3 \in S
    <3> HIDE DEF lost, dumped, wrong
    <3> QED BY <2>1, <2>2
  <2>4. (n1 = <<s1>> \/ n1 = <<>>) /\ (n2 = <<s2>> \/ n2 = <<>>) /\ (n3 = <<s3>> \/ n3 = <<>>)
    OBVIOUS
  <2> HIDE DEF S, s1, s2, s3, n1, n2, n3
  <2>7. \A s \in S : <<s>> \in Seq(S)
    OBVIOUS
  <2>8. <<>> \in Seq(S)
    OBVIOUS
  <2>9. <<s1>> \in Seq(S) /\ <<s2>> \in Seq(S) /\ <<s3>> \in Seq(S)
    BY <2>3, <2>7
  <2>5. n1 \in Seq(S) /\ n2 \in Seq(S) /\ n3 \in Seq(S)
    BY <2>4, <2>8, <2>9
  <2>6. notes \in Seq(S)
    BY <2>5
  <2> QED BY <2>6 DEF S
<1> HIDE DEF notes, all, those
<1>9. OtherPart(<<>>, page, dump, now, selected)
  BY DEF OtherPart
<1>10. OtherPart(<<b1>>, page, dump, now, selected)
  <2>1. OtherStep(b1, dump, now, selected) /\ b1 \in PlanSteps /\ b1.page = page
    BY <1>7, BlockedFormTyped
  <2> HIDE DEF b1
  <2>2. <<b1>> \in Seq(PlanSteps) /\ Len(<<b1>>) = 1 /\ <<b1>>[1] = b1
    BY <2>1
  <2> QED BY <2>1, <2>2 DEF OtherPart
<1>11. OtherPart(notes, page, dump, now, selected)
  BY <1>8, NotesPart
<1>12. OtherPart(Append(notes, b2), page, dump, now, selected)
  <2>1. /\ OtherStep(b2, dump, now, selected) /\ b2 \in PlanSteps /\ b2.page = page
        /\ b2.kind = "form"
    BY <1>7, BlockedFormTyped
  <2> HIDE DEF b2
  <2> QED BY <2>1, <1>8, NotesPart
<1>13. dumped # {} => OtherPart(Append(notes, save), page, dump, now, selected)
  <2> SUFFICES ASSUME dumped # {}
               PROVE  OtherPart(Append(notes, save), page, dump, now, selected)
    OBVIOUS
  <2>1. dump.forms[page].captured /\ save = SaveOf(dump.forms[page], now.forms[page], page)
    BY <1>6
  <2> HIDE DEF save
  <2>2. /\ OtherStep(save, dump, now, selected) /\ save \in PlanSteps /\ save.page = page
        /\ save.kind = "form"
    BY <2>1, SaveTyped
  <2> QED BY <2>2, <1>8, NotesPart
<1> HIDE DEF dumped, save, b1, b2
<1> QED BY <1>1, <1>9, <1>10, <1>11, <1>12, <1>13

\* A plan: steps for the rows, and others; one save of a page at most.
StepMade(p, k, dump, now, selected) ==
  \/ p[k] \in RowSteps /\ RowAt(p, k, dump, now)
  \/ OtherStep(p[k], dump, now, selected)
PlanMade(p, pages, dump, now, selected) ==
  /\ p \in Seq(PlanSteps)
  /\ \A k \in 1..Len(p) : /\ StepMade(p, k, dump, now, selected)
                          /\ p[k].kind = "form" => p[k].page \in pages
  /\ \A j, k \in 1..Len(p) :
       p[j].kind = "form" /\ p[k].kind = "form" /\ p[j].page = p[k].page => j = k

\* A plan goes on with the part of a page not yet in it.
LEMMA PlanGrows ==
  ASSUME NEW dump, NEW now, NEW selected, NEW pages, NEW page, page \notin pages,
         NEW p, PlanMade(p, pages, dump, now, selected),
         NEW q, OtherPart(q, page, dump, now, selected)
  PROVE  PlanMade(p \o q, pages \cup {page}, dump, now, selected)
<1> DEFINE r == p \o q
           n == Len(p)
<1>1. p \in Seq(PlanSteps) /\ q \in Seq(PlanSteps)
  BY DEF PlanMade, OtherPart
<1>2. r \in Seq(PlanSteps) /\ Len(r) = n + Len(q)
  BY <1>1, Joined
<1>3. \A i \in 1..n : r[i] = p[i]
  BY <1>1, Joined
<1>4. \A k \in 1..(n + Len(q)) :
        k \in 1..n \/ (k > n /\ k - n \in 1..Len(q) /\ r[k] = q[k - n])
  BY <1>1, Joined
<1>5. n \in Nat /\ Len(q) \in Nat
  BY <1>1
<1>6. /\ \A k \in 1..n : /\ StepMade(p, k, dump, now, selected)
                         /\ p[k].kind = "form" => p[k].page \in pages
      /\ \A j, k \in 1..n :
           p[j].kind = "form" /\ p[k].kind = "form" /\ p[j].page = p[k].page => j = k
  BY DEF PlanMade
<1>7. \A k \in 1..Len(q) :
       /\ OtherStep(q[k], dump, now, selected)
       /\ q[k].kind = "form" => k = Len(q) /\ q[k].page = page
  BY DEF OtherPart
<1> HIDE DEF r, n
<1>8. ASSUME NEW k \in 1..Len(r)
      PROVE  /\ StepMade(r, k, dump, now, selected)
             /\ r[k].kind = "form" =>
                  \/ k \in 1..n /\ r[k].page \in pages /\ p[k] = r[k]
                  \/ k = n + Len(q) /\ r[k].page = page
  <2>1. CASE k \in 1..n
    <3>1. \A j \in 1..k : j \in 1..n /\ p[j] = r[j]
      BY <2>1, <1>3, <1>5
    <3>2. p[k] = r[k]
      BY <2>1, <1>3
    <3>3. CASE p[k] \in RowSteps /\ RowAt(p, k, dump, now)
      <4>1. k \in Nat /\ k >= 1
        BY <2>1, <1>5
      <4>2. RowAt(r, k, dump, now)
        BY <3>1, <3>3, <4>1, RowPrefix
      <4> QED BY <2>1, <3>2, <3>3, <4>2, <1>6 DEF StepMade
    <3>4. CASE OtherStep(p[k], dump, now, selected)
      BY <2>1, <3>2, <3>4, <1>6 DEF StepMade
    <3> QED BY <2>1, <3>3, <3>4, <1>6 DEF StepMade
  <2>2. CASE k > n /\ k - n \in 1..Len(q) /\ r[k] = q[k - n]
    <3>1. OtherStep(r[k], dump, now, selected)
      BY <2>2, <1>7
    <3>2. r[k].kind = "form" => k - n = Len(q) /\ r[k].page = page
      BY <2>2, <1>7
    <3>3. k - n = Len(q) => k = n + Len(q)
      BY <1>2, <1>5
    <3> QED BY <3>1, <3>2, <3>3 DEF StepMade
  <2> QED BY <2>1, <2>2, <1>2, <1>4
<1>9. ASSUME NEW j \in 1..Len(r), NEW k \in 1..Len(r), r[j].kind = "form",
             r[k].kind = "form", r[j].page = r[k].page
      PROVE  j = k
  <2>1. \/ j \in 1..n /\ r[j].page \in pages /\ p[j] = r[j]
        \/ j = n + Len(q) /\ r[j].page = page
    BY <1>8, <1>9
  <2>2. \/ k \in 1..n /\ r[k].page \in pages /\ p[k] = r[k]
        \/ k = n + Len(q) /\ r[k].page = page
    BY <1>8, <1>9
  <2>3. CASE j \in 1..n /\ k \in 1..n /\ p[j] = r[j] /\ p[k] = r[k]
    BY <2>3, <1>9, <1>6
  <2> QED BY <2>1, <2>2, <2>3, <1>9
<1>10. \A k \in 1..Len(r) : r[k].kind = "form" => r[k].page \in pages \cup {page}
  BY <1>8
<1> QED BY <1>2, <1>8, <1>9, <1>10 DEF PlanMade, r

\* What is planned on the reservations page are reservations.
LEMMA ReservationsPart ==
  ASSUME NEW dump \in Dumps, NEW now \in Pages, NEW selected,
         NEW diff, diff = Diff(dump, now, selected),
         NEW q, q = PlanReservations(diff, now)
  PROVE  OtherPart(q, "ipalloc", dump, now, selected)
<1> DEFINE set == diff.reservations
           devices == SetToSeq(set)
           n == Cardinality(set)
<1>1. set \subseteq Devices
  BY DEF Diff
<1>2. IsFiniteSet(set)
  BY <1>1, RestoreAssumption, FS_Subset
<1>3. n \in Nat /\ ExistsBijection(1..n, set)
  BY <1>2, FS_CardinalityType
<1>4. \E f \in [1..n -> set] : IsInjective(f)
  BY <1>3, Zenon DEF ExistsBijection, Bijection, Injection
<1>5. devices \in [1..n -> set]
  BY <1>4 DEF SetToSeq
<1>6. q = [i \in DOMAIN devices |-> Reserve(devices[i], now)]
  BY DEF PlanReservations
<1> HIDE DEF set, devices, n
<1>7. DOMAIN devices = 1..n /\ \A i \in 1..n : devices[i] \in Devices
  BY <1>1, <1>5
<1>8. \A i \in 1..n : q[i] = Reserve(devices[i], now)
  BY <1>6, <1>7
<1>9. ASSUME NEW i \in 1..n
      PROVE  /\ OtherStep(q[i], dump, now, selected) /\ q[i] \in PlanSteps
             /\ q[i].kind = "reserve"
  <2>1. devices[i] \in Devices /\ q[i] = Reserve(devices[i], now)
    BY <1>7, <1>8
  <2> QED BY <2>1, ReserveTyped
<1>10. q \in [1..n -> PlanSteps]
  BY <1>6, <1>7, <1>9
<1>11. q \in Seq(PlanSteps) /\ Len(q) = n
  BY <1>3, <1>10, Listed
<1> QED BY <1>9, <1>11 DEF OtherPart

Begins(p, rows) == Len(rows) <= Len(p) /\ \A k \in 1..Len(rows) : p[k] = rows[k]

\* A plan that begins with some steps still does when it grows.
LEMMA BeginsOn ==
  ASSUME NEW S, NEW p \in Seq(S), NEW q \in Seq(S), NEW rows, Len(rows) \in Nat, Begins(p, rows)
  PROVE  Begins(p \o q, rows)
<1> DEFINE r == p \o q
<1>1. Len(r) = Len(p) + Len(q) /\ Len(p) \in Nat /\ Len(q) \in Nat
  BY Joined
<1>2. \A i \in 1..Len(p) : r[i] = p[i]
  BY Joined
<1> HIDE DEF r
<1>3. Len(rows) <= Len(r) /\ \A k \in 1..Len(rows) : k \in 1..Len(p)
  BY <1>1 DEF Begins
<1>4. Begins(r, rows)
  BY <1>2, <1>3 DEF Begins
<1> QED BY <1>4 DEF r

\* The steps for the rows, which a plan begins with.
RowsOf(dump, now, prune, selected) ==
  LET diff == Diff(dump, now, selected)
      s == PlanServices(diff, now, prune)
      f == PlanForwards(diff, now, prune, s)
  IN (s \o f) \o PlanRemoves(diff, now, prune, selected, s \o f)

\* build_restore_plan as a whole.
LEMMA PlanFromRows ==
  ASSUME NEW dump \in Dumps, NEW now \in Pages, NEW prune, NEW selected
  PROVE  /\ RowsOf(dump, now, prune, selected) \in Seq(RowSteps)
         /\ Begins(Plan(dump, now, prune, selected), RowsOf(dump, now, prune, selected))
         /\ \E pages : PlanMade(Plan(dump, now, prune, selected), pages, dump, now, selected)
<1> DEFINE diff == Diff(dump, now, selected)
           FormOf(page) ==
             IF page \in MissingPages(dump, selected)
             THEN <<SkipStep(page, {})>>
             ELSE IF page \in selected THEN PlanForm(page, diff, dump, now) ELSE <<>>
           s == PlanServices(diff, now, prune)
           f == PlanForwards(diff, now, prune, s)
           r == PlanRemoves(diff, now, prune, selected, s \o f)
           a == PlanReservations(diff, now)
           b == IF "packetfilter" \in selected THEN <<SkipStep("packetfilter", {})>> ELSE <<>>
           wi == FormOf("wconfig")
           ma == FormOf("wmacauth")
           dh == FormOf("dhcpserver")
           rows == s \o f \o r
           whole == rows \o a \o b \o wi \o ma \o dh
<1>1. Plan(dump, now, prune, selected) = whole
  BY DEF Plan
<1>2. rows \in Seq(RowSteps) /\ \A k \in 1..Len(rows) : RowAt(rows, k, dump, now)
  <2> DEFINE steps == s \o f
  <2>1. /\ steps \in Seq(RowSteps) /\ OnlyAdds(steps)
        /\ \A k \in 1..Len(steps) : RowAt(steps, k, dump, now)
    BY AddsPart
  <2>2. r \in Seq(RowSteps) /\ \A k \in 1..Len(r) : Gone(r, k, now, diff, steps)
    <3>1. \E sf, fr, sv, rs, fl : RemovesMade(r, sf, fr, sv, rs, fl, now, diff, steps)
      BY RemovesPart
    <3> HIDE DEF steps, r, diff
    <3>2. PICK sf, fr, sv, rs, fl : RemovesMade(r, sf, fr, sv, rs, fl, now, diff, steps)
      BY <3>1
    <3> QED BY <2>1, <3>2, RemovesFacts
  <2>3. rows = steps \o r
    OBVIOUS
  <2> HIDE DEF steps, r, rows
  <2>4. diff = Diff(dump, now, selected)
    OBVIOUS
  <2> HIDE DEF diff
  <2>5. steps \o r \in Seq(RowSteps) /\ \A k \in 1..Len(steps \o r) : RowAt(steps \o r, k, dump, now)
    BY <2>1, <2>2, <2>4, RowsPart
  <2> QED BY <2>3, <2>5
<1>0. RowsOf(dump, now, prune, selected) = rows
  BY DEF RowsOf
<1> HIDE DEF rows
<1>3. PlanMade(rows, {"rows"}, dump, now, selected)
  <2>1. rows \in Seq(PlanSteps)
    <3>1. \A k \in 1..Len(rows) : rows[k] \in PlanSteps
      BY <1>2, RowStepsArePlanned
    <3> QED BY <1>2, <3>1
  <2>2. \A k \in 1..Len(rows) : rows[k] \in RowSteps /\ rows[k].kind # "form"
    <3>1. \A x \in RowSteps : x.kind # "form"
      BY DEF RowSteps, RowKinds
    <3>2. \A k \in 1..Len(rows) : rows[k] \in RowSteps
      BY <1>2
    <3> QED BY <3>1, <3>2
  <2> QED BY <1>2, <2>1, <2>2 DEF PlanMade, StepMade
<1>4. OtherPart(a, "ipalloc", dump, now, selected)
  BY ReservationsPart
<1>5. OtherPart(<<>>, "packetfilter", dump, now, selected)
      /\ \A page : OtherPart(<<>>, page, dump, now, selected)
  BY DEF OtherPart
<1>6. ASSUME NEW page \in PageNames
      PROVE  OtherPart(<<SkipStep(page, {})>>, page, dump, now, selected)
  <2> DEFINE x == SkipStep(page, {})
  <2>1. x \in PlanSteps /\ OtherStep(x, dump, now, selected) /\ x.kind = "skip"
    BY SkipTyped
  <2> HIDE DEF x
  <2>2. <<x>> \in Seq(PlanSteps) /\ Len(<<x>>) = 1 /\ <<x>>[1] = x
    BY <2>1
  <2>3. OtherPart(<<x>>, page, dump, now, selected)
    BY <2>1, <2>2 DEF OtherPart
  <2> QED BY <2>3 DEF x
<1>7. OtherPart(b, "packetfilter", dump, now, selected)
  <2>1. "packetfilter" \in PageNames
    BY DEF PageNames
  <2> QED BY <1>5, <1>6, <2>1
<1>8. ASSUME NEW page \in FormPages
      PROVE  OtherPart(FormOf(page), page, dump, now, selected)
  <2>1. page \in PageNames
    BY DEF PageNames
  <2>2. CASE page \in MissingPages(dump, selected)
    BY <2>1, <2>2, <1>6
  <2>3. CASE page \notin MissingPages(dump, selected) /\ page \in selected
    <3>1. OtherPart(PlanForm(page, diff, dump, now), page, dump, now, selected)
      BY <2>3, FormPart
    <3> QED BY <2>3, <3>1
  <2>4. CASE page \notin MissingPages(dump, selected) /\ page \notin selected
    BY <2>4, <1>5
  <2> QED BY <2>2, <2>3, <2>4
<1>9. /\ OtherPart(wi, "wconfig", dump, now, selected)
      /\ OtherPart(ma, "wmacauth", dump, now, selected)
      /\ OtherPart(dh, "dhcpserver", dump, now, selected)
  <2>1. "wconfig" \in FormPages /\ "wmacauth" \in FormPages /\ "dhcpserver" \in FormPages
    BY DEF FormPages
  <2> HIDE DEF FormOf
  <2> QED BY <2>1, <1>8
<1> DEFINE p1 == rows \o a
           p2 == p1 \o b
           p3 == p2 \o wi
           p4 == p3 \o ma
           p5 == p4 \o dh
           P1 == {"rows"} \cup {"ipalloc"}
           P2 == P1 \cup {"packetfilter"}
           P3 == P2 \cup {"wconfig"}
           P4 == P3 \cup {"wmacauth"}
           P5 == P4 \cup {"dhcpserver"}
<1>10. whole = p5
  OBVIOUS
<1> HIDE DEF a, b, wi, ma, dh, whole
<1>11. /\ "ipalloc" \notin {"rows"} /\ "packetfilter" \notin P1 /\ "wconfig" \notin P2
       /\ "wmacauth" \notin P3 /\ "dhcpserver" \notin P4
  OBVIOUS
<1> HIDE DEF P1, P2, P3, P4, P5
<1>12. PlanMade(p1, P1, dump, now, selected)
  BY <1>3, <1>4, <1>11, PlanGrows DEF P1
<1> HIDE DEF p1
<1>13. PlanMade(p2, P2, dump, now, selected)
  BY <1>7, <1>11, <1>12, PlanGrows DEF P2
<1> HIDE DEF p2
<1>14. PlanMade(p3, P3, dump, now, selected)
  BY <1>9, <1>11, <1>13, PlanGrows DEF P3
<1> HIDE DEF p3
<1>15. PlanMade(p4, P4, dump, now, selected)
  BY <1>9, <1>11, <1>14, PlanGrows DEF P4
<1> HIDE DEF p4
<1>16. PlanMade(p5, P5, dump, now, selected)
  BY <1>9, <1>11, <1>15, PlanGrows DEF P5
<1> HIDE DEF p5
<1>17. Begins(p5, rows)
  <2>1. /\ rows \in Seq(PlanSteps) /\ a \in Seq(PlanSteps) /\ b \in Seq(PlanSteps)
        /\ wi \in Seq(PlanSteps) /\ ma \in Seq(PlanSteps) /\ dh \in Seq(PlanSteps)
        /\ Len(rows) \in Nat
    BY <1>3, <1>4, <1>7, <1>9 DEF PlanMade, OtherPart
  <2>2. p1 \in Seq(PlanSteps) /\ p2 \in Seq(PlanSteps) /\ p3 \in Seq(PlanSteps)
        /\ p4 \in Seq(PlanSteps)
    BY <1>12, <1>13, <1>14, <1>15 DEF PlanMade
  <2>3. Begins(rows, rows)
    BY <2>1 DEF Begins
  <2>4. Begins(p1, rows)
    BY <2>1, <2>3, BeginsOn DEF p1
  <2>5. Begins(p2, rows)
    BY <2>1, <2>2, <2>4, BeginsOn DEF p2
  <2>6. Begins(p3, rows)
    BY <2>1, <2>2, <2>5, BeginsOn DEF p3
  <2>7. Begins(p4, rows)
    BY <2>1, <2>2, <2>6, BeginsOn DEF p4
  <2> QED BY <2>1, <2>2, <2>7, BeginsOn DEF p5
<1> QED BY <1>0, <1>1, <1>2, <1>10, <1>16, <1>17

\* Every plan is made of the steps of the rows, then of one part for each page.
LEMMA WholePlan ==
  ASSUME NEW dump \in Dumps, NEW now \in Pages, NEW prune, NEW selected
  PROVE  \E pages : PlanMade(Plan(dump, now, prune, selected), pages, dump, now, selected)
BY PlanFromRows

-----------------------------------------------------------------------------
(* Some step of a plan goes out                                            *)

\* Nothing that a plan could go by is in the way (Passable, row by row).
InOrder(dump, now) ==
  /\ now.menus /\ now.buttons
  /\ \A f \in ToSet(dump.forwards) :
       f.service \in Builtin \/ \E w \in ToSet(dump.services) : w.name = f.service
  /\ \A f, g \in ToSet(dump.forwards) : Fold[f.service] = Fold[g.service] => f = g
  /\ \A i, j \in 1..Len(now.services) : now.services[i].name = now.services[j].name => i = j
  /\ \A i, j \in 1..Len(now.forwards) : now.forwards[i] = now.forwards[j] => i = j
  /\ \A d \in Devices : d \in now.listed /\ MacsOf(now, d) = {d}
  /\ \A f \in ToSet(now.forwards), s \in ToSet(now.services), g \in ToSet(dump.forwards) :
       s.name = f.service /\ ForwardKey[f] = ForwardKey[g]
         => \E w \in ToSet(dump.services) : ServiceKey[s] = ServiceKey[w]
  /\ \A s \in ToSet(now.services), w \in ToSet(dump.services) :
       Fold[s.name] = Fold[w.name] => s.name = w.name

\* What a difference leaves out has a row on the other side.
LEMMA NotInDiff ==
  ASSUME NEW dump \in Dumps, NEW now \in Pages, NEW selected,
         {"services", "apphosting"} \subseteq selected,
         NEW diff, diff = Diff(dump, now, selected)
  PROVE  /\ \A s \in ToSet(now.services) :
              s \in ToSet(diff.extraServices)
                \/ \E w \in ToSet(dump.services) : ServiceKey[s] = ServiceKey[w]
         /\ \A w \in ToSet(dump.services) :
              w \in ToSet(diff.missingServices)
                \/ \E s \in ToSet(now.services) : ServiceKey[w] = ServiceKey[s]
         /\ \A f \in ToSet(now.forwards) :
              f \in ToSet(diff.extraForwards)
                \/ \E g \in ToSet(dump.forwards) : ForwardKey[f] = ForwardKey[g]
         /\ \A m \in ToSet(diff.missingServices) : \A s \in ToSet(now.services) :
              ServiceKey[m] # ServiceKey[s]
         /\ \A m \in ToSet(diff.missingForwards) : \A f \in ToSet(now.forwards) :
              ForwardKey[m] # ForwardKey[f]
<1>1. /\ dump.services \in Seq(Service) /\ now.services \in Seq(Service)
      /\ dump.forwards \in Seq(Forward) /\ now.forwards \in Seq(Forward)
  BY DumpFields, PagesFields
<1>2. /\ diff.missingServices = Without(dump.services, now.services, ServiceKey)
      /\ diff.extraServices = Without(now.services, dump.services, ServiceKey)
      /\ diff.missingForwards = Without(dump.forwards, now.forwards, ForwardKey)
      /\ diff.extraForwards = Without(now.forwards, dump.forwards, ForwardKey)
  BY DEF Diff
<1>3. ASSUME NEW S, NEW items \in Seq(S), NEW others, NEW key,
             NEW d, d = Without(items, others, key)
      PROVE  /\ \A i \in ToSet(items) :
                  i \in ToSet(d) \/ \E o \in ToSet(others) : key[i] = key[o]
             /\ \A i \in ToSet(d) : \A o \in ToSet(others) : key[i] # key[o]
  <2>1. ToSet(d) = {i \in ToSet(items) : key[i] \notin {key[o] : o \in ToSet(others)}}
    BY <1>3, WithoutFacts
  <2> QED BY <2>1
<1>4. /\ \A s \in ToSet(now.services) :
           s \in ToSet(diff.extraServices)
             \/ \E w \in ToSet(dump.services) : ServiceKey[s] = ServiceKey[w]
      /\ \A w \in ToSet(dump.services) :
           w \in ToSet(diff.missingServices)
             \/ \E s \in ToSet(now.services) : ServiceKey[w] = ServiceKey[s]
      /\ \A m \in ToSet(diff.missingServices) : \A s \in ToSet(now.services) :
           ServiceKey[m] # ServiceKey[s]
  BY <1>1, <1>2, <1>3
<1>5. /\ \A f \in ToSet(now.forwards) :
           f \in ToSet(diff.extraForwards)
             \/ \E g \in ToSet(dump.forwards) : ForwardKey[f] = ForwardKey[g]
      /\ \A m \in ToSet(diff.missingForwards) : \A f \in ToSet(now.forwards) :
           ForwardKey[m] # ForwardKey[f]
  BY <1>1, <1>2, <1>3
<1> QED BY <1>4, <1>5

\* A missing service whose name the gateway has is replaced.
LEMMA MissingIsReplaced ==
  ASSUME NEW dump \in Dumps, NEW now \in Pages, NEW selected,
         {"services", "apphosting"} \subseteq selected,
         NEW diff, diff = Diff(dump, now, selected),
         NEW m \in ToSet(diff.missingServices), Fold[m.name] \in NamesOf(now.services)
  PROVE  Fold[m.name] \in NamesOf(diff.extraServices)
<1>1. PICK s \in ToSet(now.services) : Fold[s.name] = Fold[m.name]
  BY DEF NamesOf
<1>2. /\ m \in ToSet(dump.services) /\ dump.services \in Seq(Service) /\ Apart(dump.services)
  BY DiffRows, DumpFields
<1>3. s \in ToSet(diff.extraServices)
  <2> SUFFICES ASSUME NEW w \in ToSet(dump.services), ServiceKey[s] = ServiceKey[w]
               PROVE  FALSE
    BY NotInDiff
  <2>1. now.services \in Seq(Service)
    BY PagesFields
  <2>2. s \in Service /\ w \in Service
    BY <1>2, <2>1, Members
  <2>3. Fold[s.name] = Fold[w.name]
    BY <2>2, ServiceKeys
  <2>4. PICK i \in 1..Len(dump.services) : dump.services[i] = w
    BY <1>2, Members
  <2>5. PICK j \in 1..Len(dump.services) : dump.services[j] = m
    BY <1>2, Members
  <2>6. w = m
    <3>1. i = j
      <4>1. DOMAIN dump.services = 1..Len(dump.services)
        BY <1>2, Members
      <4> QED BY <1>1, <1>2, <2>3, <2>4, <2>5, <4>1 DEF Apart
    <3> QED BY <2>4, <2>5, <3>1
  <2>7. ServiceKey[m] # ServiceKey[s]
    BY NotInDiff
  <2> QED BY <2>6, <2>7
<1> QED BY <1>1, <1>3 DEF NamesOf

\* The button of a forward is there, and of a service.
LEMMA ButtonOfForward ==
  ASSUME NEW dump, NEW now \in Pages, InOrder(dump, now), NEW f \in ToSet(now.forwards)
  PROVE  ~RemoveForward(f, now).blocked
<1> DEFINE n == Len(now.forwards)
           matching == {i \in DOMAIN now.forwards :
                          /\ now.forwards[i].service = f.service
                          /\ now.label[now.forwards[i].device] = now.label[f.device]}
<1>1. now.forwards \in Seq(Forward)
  BY PagesFields
<1>2. /\ DOMAIN now.forwards = 1..n /\ n \in Nat /\ f \in Forward
      /\ \A i \in 1..n : now.forwards[i] \in Forward
  BY <1>1, Members
<1>3. PICK i \in 1..n : now.forwards[i] = f
  BY <1>1, Members
<1>4. ASSUME NEW j \in matching PROVE j = i
  <2>1. j \in 1..n /\ now.forwards[j] \in Forward
    BY <1>2
  <2>2. now.forwards[j].device \in Devices /\ f.device \in Devices
    BY <1>2, <2>1 DEF Forward
  <2>3. now.forwards[j].device \in MacsOf(now, f.device)
    BY <2>2 DEF MacsOf, InOrder
  <2>4. now.forwards[j].device = f.device
    BY <2>2, <2>3 DEF InOrder
  <2>5. now.forwards[j] = f
    BY <1>2, <2>1, <2>4 DEF Forward
  <2> QED BY <1>3, <2>1, <2>5 DEF InOrder
<1>5. i \in matching
  BY <1>2, <1>3
<1>6. matching = {i}
  BY <1>4, <1>5
<1>7. RemoveForward(f, now) = RemoveRow("remove-forward", "apphosting", f, matching, now)
  BY DEF RemoveForward
<1> HIDE DEF matching
<1>8. Cardinality(matching) = 1 /\ matching \in SUBSET (1..n)
  BY <1>6, FS_Singleton
<1>9. /\ "remove-forward" \in RowKinds /\ "apphosting" \in {"services", "apphosting"}
      /\ f \in Service \cup Forward /\ now.buttons
  BY <1>2 DEF RowKinds, InOrder
<1> QED BY <1>2, <1>7, <1>8, <1>9, RemoveRowTyped

\* Every remove of a listed service finds its button.
LEMMA ButtonOfService ==
  ASSUME NEW dump, NEW now \in Pages, InOrder(dump, now), NEW s \in ToSet(now.services)
  PROVE  ~RemoveService(s, now).blocked
<1> DEFINE n == Len(now.services)
           matching == {i \in DOMAIN now.services : now.services[i].name = s.name}
<1>1. now.services \in Seq(Service)
  BY PagesFields
<1>2. DOMAIN now.services = 1..n /\ n \in Nat /\ s \in Service
  BY <1>1, Members
<1>3. PICK i \in 1..n : now.services[i] = s
  BY <1>1, Members
<1>4. \A j \in matching : j = i
  BY <1>2, <1>3 DEF InOrder
<1>5. i \in matching
  BY <1>2, <1>3
<1>6. matching = {i}
  BY <1>4, <1>5
<1>7. RemoveService(s, now) = RemoveRow("remove-service", "services", s, matching, now)
  BY DEF RemoveService
<1> HIDE DEF matching
<1>8. Cardinality(matching) = 1 /\ matching \in SUBSET (1..n)
  BY <1>6, FS_Singleton
<1>9. /\ "remove-service" \in RowKinds /\ "services" \in {"services", "apphosting"}
      /\ s \in Service \cup Forward /\ now.buttons
  BY <1>2 DEF RowKinds, InOrder
<1> QED BY <1>2, <1>7, <1>8, <1>9, RemoveRowTyped


\* The first missing forward is added, where the other rows are as dumped.
LEMMA FirstForwardGoesOut ==
  ASSUME NEW dump \in Dumps, NEW now \in Pages, InOrder(dump, now), NEW selected,
         {"services", "apphosting"} \subseteq selected,
         NEW diff, diff = Diff(dump, now, selected),
         diff.missingServices = <<>>, diff.extraForwards = <<>>,
         NEW names, NEW f \in ToSet(diff.missingForwards)
  PROVE  ~AddForward(f, now, names).blocked
<1> DEFINE step == Step("add-forward", "apphosting", f)
<1>1. /\ dump.services \in Seq(Service) /\ now.services \in Seq(Service)
      /\ dump.forwards \in Seq(Forward) /\ now.forwards \in Seq(Forward)
  BY DumpFields, PagesFields
<1>2. f \in ToSet(dump.forwards) /\ f \in Forward
  BY <1>1, DiffRows, Members
<1>3. /\ ToSet(<<>>) = {}
      /\ f.service \in Names /\ f.device \in Devices
  BY <1>2, ForwardKeys DEF ToSet
<1>4. f.service \in Builtin \cup {s.name : s \in ToSet(now.services)}
  <2> SUFFICES ASSUME NEW w \in ToSet(dump.services), w.name = f.service
               PROVE  \E s \in ToSet(now.services) : s.name = f.service
    BY <1>2 DEF InOrder
  <2>1. PICK s \in ToSet(now.services) : ServiceKey[w] = ServiceKey[s]
    BY <1>3, NotInDiff
  <2>2. s \in Service /\ w \in Service
    BY <1>1, Members
  <2>3. Fold[s.name] = Fold[w.name]
    BY <2>1, <2>2, ServiceKeys
  <2> QED BY <2>3 DEF InOrder
<1>5. ASSUME NEW r \in ToSet(now.forwards), r.service = f.service PROVE FALSE
  <2>1. PICK g \in ToSet(dump.forwards) : ForwardKey[r] = ForwardKey[g]
    BY <1>3, NotInDiff
  <2>2. r \in Forward /\ g \in Forward
    BY <1>1, Members
  <2>3. Fold[g.service] = Fold[f.service]
    BY <1>5, <2>1, <2>2, ForwardKeys
  <2>4. g = f
    BY <1>2, <2>3 DEF InOrder
  <2>5. ForwardKey[f] # ForwardKey[r]
    BY NotInDiff
  <2> QED BY <2>1, <2>4, <2>5
<1>6. f.service \in Offered(now)
  BY <1>4, <1>5 DEF Offered, InOrder
<1>7. f.device \in now.listed /\ MacsOf(now, f.device) = {f.device}
  BY <1>3 DEF InOrder
<1>8. AddForward(f, now, names) = step
  BY <1>6, <1>7 DEF AddForward
<1>9. ~step.blocked
  <2>1. "add-forward" \in RowKinds /\ f \in Service \cup Forward
    BY <1>2 DEF RowKinds
  <2> QED BY <2>1, StepTyped
<1> QED BY <1>8, <1>9

\* No live forward goes to a service that the dump has none of, unless the forward
\* goes as well.
LEMMA ExtraIsUnused ==
  ASSUME NEW dump \in Dumps, NEW now \in Pages, InOrder(dump, now), NEW selected,
         {"services", "apphosting"} \subseteq selected,
         NEW diff, diff = Diff(dump, now, selected), diff.extraForwards = <<>>,
         NEW e \in ToSet(diff.extraServices), NEW u \in ToSet(now.forwards)
  PROVE  u.service # e.name
<1> SUFFICES ASSUME u.service = e.name PROVE FALSE
  OBVIOUS
<1>1. e \in ToSet(now.services) /\ \A w \in ToSet(dump.services) : ServiceKey[e] # ServiceKey[w]
  BY DiffRows, ZenonT(30)
<1>2. ToSet(<<>>) = {}
  BY DEF ToSet
<1>3. PICK g \in ToSet(dump.forwards) : ForwardKey[u] = ForwardKey[g]
  BY <1>2, NotInDiff
<1> QED BY <1>1, <1>3 DEF InOrder

AllBlocked(p) == \A k \in 1..Len(p) : p[k].blocked

\* Steps that are all blocked add nothing.
LEMMA BlockedAreNoAdds ==
  ASSUME NEW p \in Seq(RowSteps), AllBlocked(p), NEW page
  PROVE  NoAdds(p, page)
<1>1. DOMAIN p = 1..Len(p)
  BY Members
<1> QED BY <1>1 DEF NoAdds, Planned, AllBlocked

\* All of two parts is blocked when all of each is.
LEMMA BlockedParts ==
  ASSUME NEW p \in Seq(RowSteps), NEW q \in Seq(RowSteps)
  PROVE  AllBlocked(p \o q) <=> AllBlocked(p) /\ AllBlocked(q)
<1> DEFINE r == p \o q
           n == Len(p)
<1>1. n \in Nat /\ Len(q) \in Nat /\ Len(r) = n + Len(q)
  BY Joined
<1>2. \A i \in 1..n : i \in 1..(n + Len(q)) /\ r[i] = p[i]
  BY Joined
<1>3. \A i \in 1..Len(q) : n + i \in 1..(n + Len(q)) /\ r[n + i] = q[i]
  BY Joined
<1>4. \A k \in 1..(n + Len(q)) :
        k \in 1..n \/ (k > n /\ k - n \in 1..Len(q) /\ r[k] = q[k - n])
  BY Joined
<1> HIDE DEF r
<1>5. AllBlocked(r) => AllBlocked(p)
  BY <1>1, <1>2 DEF AllBlocked
<1>6. AllBlocked(r) => AllBlocked(q)
  BY <1>1, <1>3 DEF AllBlocked
<1>7. AllBlocked(p) /\ AllBlocked(q) => AllBlocked(r)
  BY <1>1, <1>2, <1>4 DEF AllBlocked
<1> QED BY <1>5, <1>6, <1>7 DEF r

\* The remove of an extra service that no forward uses presses a button.
LEMMA ServicesAskedFree ==
  ASSUME NEW dump \in Dumps, NEW now \in Pages, NEW selected,
         NEW diff, diff = Diff(dump, now, selected), NEW sofar,
         NEW ss, ss = ServicesAsked(diff, now, sofar)
  PROVE  Len(ss) = Len(diff.extraServices) /\ Free(ss, diff.extraServices, now)
<1>1. ss = [i \in DOMAIN diff.extraServices |->
                 UnlessInUse(RemoveService(diff.extraServices[i], now), now, sofar, TRUE)]
  BY DEF ServicesAsked
<1>2. Len(ss) = Len(diff.extraServices)
  BY <1>1, ServiceRemoves
<1>3. Free(ss, diff.extraServices, now)
  BY <1>1, ServiceRemoves
<1> QED BY <1>2, <1>3

\* With every step blocked there is no row that the dump has none of.
LEMMA NothingExtra ==
  ASSUME NEW dump \in Dumps, NEW now \in Pages, InOrder(dump, now), NEW selected,
         {"services", "apphosting"} \subseteq selected,
         NEW diff, diff = Diff(dump, now, selected),
         NEW steps \in Seq(RowSteps), AllBlocked(steps),
         NEW r, r = PlanRemoves(diff, now, TRUE, selected, steps), AllBlocked(r)
  PROVE  diff.extraServices = <<>> /\ diff.extraForwards = <<>>
<1>1. diff.extraServices \in Seq(Service) /\ diff.extraForwards \in Seq(Forward)
  BY DiffRows
<1>5. \E sf, fr, sv, rs, fl :
           /\ RemovesMade(r, sf, fr, sv, rs, fl, now, diff, steps)
           /\ Asked(sf, fr, sv, now, diff, TRUE, selected, steps)
  BY RemovesPart
<1>7. PICK sf, fr, sv, rs, fl :
           /\ RemovesMade(r, sf, fr, sv, rs, fl, now, diff, steps)
           /\ Asked(sf, fr, sv, now, diff, TRUE, selected, steps)
  BY <1>5
<1>8. /\ ForwardRows(sf, now, diff.extraForwards) /\ OneRemove(fr, sf, steps, "apphosting")
      /\ ServiceRows(sv, now, diff.extraServices) /\ OneRemove(rs, sv, steps \o fr, "services")
      /\ Replacing(fl, rs, diff.missingServices)
      /\ r = fr \o fl
      /\ sf = ForwardsAsked(diff, now) /\ sv = ServicesAsked(diff, now, steps \o fr)
  BY <1>7 DEF RemovesMade, Asked
<1>9. fr \in Seq(RowSteps) /\ rs \in Seq(RowSteps) /\ fl \in Seq(RowSteps)
  BY <1>8 DEF OneRemove, Replacing
<1>10. steps \o fr \in Seq(RowSteps)
  BY <1>9, Joined
<1>11. AllBlocked(fr) /\ AllBlocked(fl)
  BY <1>8, <1>9, BlockedParts
<1>12. AllBlocked(steps \o fr)
  BY <1>9, <1>11, BlockedParts
<1>13. AllBlocked(rs)
  <2> SUFFICES ASSUME NEW i \in 1..Len(rs) PROVE rs[i].blocked
    BY DEF AllBlocked
  <2>1. PICK k \in 1..Len(fl) : fl[k] = rs[i]
    BY <1>8 DEF Replacing
  <2> QED BY <2>1, <1>11 DEF AllBlocked
<1>14. NoAdds(steps, "apphosting") /\ NoAdds(steps \o fr, "services")
  BY <1>10, <1>12, BlockedAreNoAdds
<1>15. diff.extraForwards = <<>>
  <2> DEFINE extra == diff.extraForwards
  <2> SUFFICES ASSUME extra # <<>> PROVE FALSE
    OBVIOUS
  <2>1. Len(extra) \in Nat /\ 1 \in 1..Len(extra) /\ DOMAIN extra = 1..Len(extra)
    BY <1>1
  <2>2. Len(sf) = Len(extra)
    <3>1. sf = [i \in DOMAIN diff.extraForwards |-> RemoveForward(diff.extraForwards[i], now)]
      BY <1>8 DEF ForwardsAsked
    <3> QED BY <3>1, ForwardRemoves
  <2>3. extra[1] \in ToSet(now.forwards)
    <3>1. extra[1] \in ToSet(extra)
      BY <1>1, <2>1, Members
    <3>2. \A x \in ToSet(extra) : x \in ToSet(now.forwards)
      BY DiffRows
    <3> QED BY <3>1, <3>2
  <2>4. ~sf[1].blocked
    <3>1. sf[1] = RemoveForward(extra[1], now)
      BY <1>8, <2>1 DEF ForwardsAsked
    <3> QED BY <2>3, <3>1, ButtonOfForward
  <2> HIDE DEF extra
  <2>5. 1 \in 1..Len(fr) /\ ~fr[1].blocked
    BY <1>8, <1>14, <2>1, <2>2, <2>4 DEF OneRemove
  <2> QED BY <1>11, <2>5 DEF AllBlocked
<1>16. diff.extraServices = <<>>
  <2> DEFINE extra == diff.extraServices
  <2> SUFFICES ASSUME extra # <<>> PROVE FALSE
    OBVIOUS
  <2>1. Len(extra) \in Nat /\ 1 \in 1..Len(extra)
    BY <1>1
  <2>2. /\ Len(sv) = Len(extra)
        /\ \A k \in 1..Len(sv) :
              /\ ~RemoveService(extra[k], now).blocked
              /\ \A u \in ToSet(now.forwards) : u.service # extra[k].name
              => ~sv[k].blocked
    <3>1. Len(sv) = Len(diff.extraServices) /\ Free(sv, diff.extraServices, now)
      BY <1>8, ServicesAskedFree
    <3> QED BY <3>1 DEF Free
  <2>3. extra[1] \in ToSet(extra)
    BY <1>1, <2>1, Members
  <2>4. ~RemoveService(extra[1], now).blocked
    <3>1. \A x \in ToSet(extra) : x \in ToSet(now.services)
      BY DiffRows
    <3>2. extra[1] \in ToSet(now.services)
      BY <2>3, <3>1
    <3> QED BY <3>2, ButtonOfService
  <2>5. \A u \in ToSet(now.forwards) : u.service # extra[1].name
    BY <1>15, <2>3, ExtraIsUnused
  <2>6. ~sv[1].blocked
    BY <2>1, <2>2, <2>4, <2>5
  <2> HIDE DEF extra
  <2>7. 1 \in 1..Len(rs) /\ ~rs[1].blocked
    BY <1>8, <1>14, <2>1, <2>2, <2>6 DEF OneRemove
  <2> QED BY <1>13, <2>7 DEF AllBlocked
<1> QED BY <1>15, <1>16

\* With no extra service and every add blocked, no service is missing.
LEMMA NoServiceMissing ==
  ASSUME NEW dump \in Dumps, NEW now \in Pages, InOrder(dump, now), NEW selected,
         {"services", "apphosting"} \subseteq selected,
         NEW diff, diff = Diff(dump, now, selected),
         diff.extraServices = <<>>,
         NEW s, s = PlanServices(diff, now, TRUE), AllBlocked(s)
  PROVE  diff.missingServices = <<>>
<1>1. diff.missingServices \in Seq(Service)
  BY DiffRows
<1>3. /\ s \in Seq(RowSteps)
      /\ \A m \in 1..Len(diff.missingServices) :
              LET n == Fold[diff.missingServices[m].name] IN
              n \notin NamesOf(diff.extraServices) /\ n \notin NamesOf(now.services) /\ now.menus
                => \E k \in 1..Len(s) : ~s[k].blocked
  BY ServicesPart, ZenonT(30)
<1>17. diff.missingServices = <<>>
  <2> DEFINE missing == diff.missingServices
  <2> SUFFICES ASSUME missing # <<>> PROVE FALSE
    OBVIOUS
  <2>1. 1 \in 1..Len(missing) /\ missing[1] \in ToSet(missing)
    BY <1>1, Members
  <2>2. NamesOf(diff.extraServices) = {}
    BY DEF NamesOf, ToSet
  <2>3. Fold[missing[1].name] \notin NamesOf(now.services)
    BY <2>1, <2>2, MissingIsReplaced
  <2>4. now.menus
    BY DEF InOrder
  <2>5. \E k \in 1..Len(s) : ~s[k].blocked
    BY <1>3, <2>1, <2>2, <2>3, <2>4
  <2> QED BY <2>5 DEF AllBlocked
<1> QED BY <1>17

\* With no row but forwards to add and every add blocked, none is missing.
LEMMA NoForwardMissing ==
  ASSUME NEW dump \in Dumps, NEW now \in Pages, InOrder(dump, now), NEW selected,
         {"services", "apphosting"} \subseteq selected,
         NEW diff, diff = Diff(dump, now, selected),
         diff.missingServices = <<>>, diff.extraForwards = <<>>, NEW steps,
         NEW f, f = PlanForwards(diff, now, TRUE, steps), AllBlocked(f)
  PROVE  diff.missingForwards = <<>>
<1>1. diff.missingForwards \in Seq(Forward)
  BY DiffRows
<1>3. f \in Seq(RowSteps)
  BY ForwardsPart
<1>6. f = [i \in DOMAIN diff.missingForwards |->
             LET x == diff.missingForwards[i] IN
             IF Fold[x.service] \in {Fold[y.name] : y \in Replaced(diff, TRUE)}
             THEN BlockedStep("add-forward", "apphosting", x)
             ELSE AddForward(x, now, {steps[k].of.name : k \in Planned(steps, {"add-service"})})]
  BY DEF PlanForwards
<1>18. diff.missingForwards = <<>>
  <2> DEFINE missing == diff.missingForwards
  <2> SUFFICES ASSUME missing # <<>> PROVE FALSE
    OBVIOUS
  <2>1. /\ 1 \in 1..Len(missing) /\ missing[1] \in ToSet(missing)
        /\ DOMAIN missing = 1..Len(missing)
    BY <1>1, Members
  <2>2. {Fold[y.name] : y \in Replaced(diff, TRUE)} = {}
    <3>1. ToSet(diff.missingServices) = {}
      BY DEF ToSet
    <3> QED BY <3>1 DEF Replaced
  <2>3. PICK names : names = {steps[k].of.name : k \in Planned(steps, {"add-service"})}
    OBVIOUS
  <2>4. f[1] = AddForward(missing[1], now, names) /\ 1 \in DOMAIN f
    BY <1>6, <2>1, <2>2, <2>3
  <2>5. ~AddForward(missing[1], now, names).blocked
    BY <2>1, FirstForwardGoesOut
  <2>6. 1 \in 1..Len(f)
    BY <1>3, <2>4, Members
  <2> QED BY <2>4, <2>5, <2>6 DEF AllBlocked
<1> QED BY <1>18

\* Where rows differ, not every step is blocked.
LEMMA NotAllBlocked ==
  ASSUME NEW dump \in Dumps, NEW now \in Pages, InOrder(dump, now), NEW selected,
         {"services", "apphosting"} \subseteq selected,
         AllBlocked(RowsOf(dump, now, TRUE, selected))
  PROVE  LET diff == Diff(dump, now, selected) IN
         /\ diff.missingServices = <<>> /\ diff.extraServices = <<>>
         /\ diff.missingForwards = <<>> /\ diff.extraForwards = <<>>
<1>1. PICK diff : diff = Diff(dump, now, selected)
  OBVIOUS
<1>2. PICK s : s = PlanServices(diff, now, TRUE)
  OBVIOUS
<1>3. PICK f : f = PlanForwards(diff, now, TRUE, s)
  OBVIOUS
<1>4. PICK steps : steps = s \o f
  OBVIOUS
<1>5. PICK r : r = PlanRemoves(diff, now, TRUE, selected, steps)
  OBVIOUS
<1>6. RowsOf(dump, now, TRUE, selected) = steps \o r
  BY <1>1, <1>2, <1>3, <1>4, <1>5 DEF RowsOf
<1>7. s \in Seq(RowSteps)
  BY <1>1, <1>2, ServicesPart
<1>8. f \in Seq(RowSteps)
  BY <1>1, <1>3, ForwardsPart
<1>9. steps \in Seq(RowSteps)
  BY <1>4, <1>7, <1>8, Joined
<1>10. r \in Seq(RowSteps)
  <2>1. \E sf, fr, sv, rs, fl : /\ RemovesMade(r, sf, fr, sv, rs, fl, now, diff, steps)
                                 /\ Asked(sf, fr, sv, now, diff, TRUE, selected, steps)
    BY <1>1, <1>5, RemovesPart
  <2> QED BY <1>9, <2>1, RemovesFacts
<1>11. AllBlocked(steps) /\ AllBlocked(r)
  BY <1>6, <1>9, <1>10, BlockedParts
<1>12. AllBlocked(s) /\ AllBlocked(f)
  BY <1>4, <1>7, <1>8, <1>11, BlockedParts
<1>13. diff.extraServices = <<>> /\ diff.extraForwards = <<>>
  BY <1>1, <1>5, <1>9, <1>11, NothingExtra
<1>14. diff.missingServices = <<>>
  BY <1>1, <1>2, <1>12, <1>13, NoServiceMissing
<1>15. diff.missingForwards = <<>>
  BY <1>1, <1>3, <1>12, <1>13, <1>14, NoForwardMissing
<1> QED BY <1>1, <1>13, <1>14, <1>15
===============================================================================
