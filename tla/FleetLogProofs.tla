----------------------------- MODULE FleetLogProofs ----------------------------
(***************************************************************************)
(* Proofs about FleetLog for every set of runs, tasks, workers and         *)
(* channels, and every bound.                                              *)
(***************************************************************************)
EXTENDS FleetLog, FiniteSetTheorems, SequenceTheorems, WellFoundedInduction, TLAPS

\* What an event may carry.
Payload == Regressing \cup Terminal \cup {"Escalated"}

\* The lines of a file.
Line ==
  {RunCreated(r) : r \in Run}
  \cup {TaskEnqueued(t, n) : t \in Task, n \in Nat}
  \cup {TaskLeased(t, w, d) : t \in Task, w \in Worker, d \in Nat}
  \cup {TaskCompletedOrFailed(t, w, s) : t \in Task, w \in Worker \cup {NoWorker}, s \in Terminal}
  \cup {TaskAttemptFinalized(t, w, q, p, f, rc) :
          t \in Task, w \in Worker, q \in Nat, p \in Terminal, f \in Terminal \cup {L!NoStatus},
          rc \in L!Receipt}
  \cup {EventAppended(t, w, q, p) : t \in Task, w \in Worker, q \in Nat, p \in Payload}
  \cup {EventSequenceCheckpoint(t, w, q) : t \in Task, w \in Worker, q \in Nat}
  \cup {Heartbeat(w, ts) : w \in Worker, ts \in Nat}
  \cup {ReceiptRecorded(t, rc) : t \in Task, rc \in L!Receipt}
  \cup {AlertSent(t, w, n, c, q) : t \in Task, w \in Worker, n \in Nat, c \in Channel, q \in Nat}
  \cup {Malformed}

--------------------------------------------------------------------------------
(* Replay.                                                                 *)

\* A nonempty set of numbers has a least one.
LEMMA Least ==
  ASSUME NEW S \in SUBSET Nat, S # {}
  PROVE  \E m \in S : \A k \in S : m <= k
<1> DEFINE T == {0..k : k \in S}
<1>1. T \subseteq FiniteSubsetsOf(Nat)
  <2>1. ASSUME NEW k \in S PROVE 0..k \in SUBSET Nat /\ IsFiniteSet(0..k)
    BY FS_Interval
  <2> QED
    BY <2>1 DEF FiniteSubsetsOf
<1>2. PICK I \in T : \A J \in T : ~ (<<J, I>> \in StrictSubsetOrdering(Nat))
  <2> T # {}
    OBVIOUS
  <2> HIDE DEF T
  <2> QED
    BY <1>1, FS_StrictSubsetOrderingWellFounded, WFMin
<1>3. PICK m \in S : I = 0..m
  OBVIOUS
<1>4. ASSUME NEW k \in S, k < m PROVE FALSE
  <2>1. 0..k \in T /\ 0..k \subseteq 0..m /\ 0..m \subseteq Nat
    BY <1>4
  <2>2. m \in 0..m /\ m \notin 0..k
    BY <1>4
  <2>3. <<0..k, 0..m>> \in StrictSubsetOrdering(Nat)
    <3> DEFINE A == 0..k  B == 0..m
    <3> A \subseteq B /\ A # B /\ <<A, B>> \in (SUBSET Nat) \X (SUBSET Nat)
      BY <2>1, <2>2
    <3> HIDE DEF A, B
    <3> <<A, B>> \in StrictSubsetOrdering(Nat)
      BY DEF StrictSubsetOrdering
    <3> QED
      BY DEF A, B
  <2> QED
    BY <1>2, <1>3, <2>1, <2>3
<1> QED
  BY <1>4

\* Induction over 0 .. n, with a set for the formula.
LEMMA Induction ==
  ASSUME NEW n \in Nat, NEW G, 0 \in G, \A i \in 1 .. n : i - 1 \in G => i \in G
  PROVE  \A i \in 0 .. n : i \in G
<1> DEFINE Bad == {i \in 0 .. n : i \notin G}
<1> SUFFICES ASSUME Bad # {} PROVE FALSE
  OBVIOUS
<1>1. PICK m \in Bad : \A k \in Bad : m <= k
  <2> Bad \in SUBSET Nat
    OBVIOUS
  <2> HIDE DEF Bad
  <2> QED
    BY Least
<1>2. m \in 1 .. n /\ m - 1 \in 0 .. n /\ m - 1 \notin Bad
  BY <1>1
<1> QED
  BY <1>1, <1>2

\* g is what replaying the first 0, 1, .. n lines leaves.
Replays(g, n, lines) ==
  /\ g = [i \in 0 .. n |-> g[i]]
  /\ g[0] = EmptyState
  /\ \A i \in 1 .. n : g[i] = apply_record(g[i - 1], lines[i])

\* Such a function exists, whatever n: otherwise take the least n for which there is
\* none.
LEMMA ReplayExists ==
  ASSUME NEW lines
  PROVE  \A n \in Nat : \E g : Replays(g, n, lines)
<1> DEFINE Bad == {n \in Nat : ~ \E g : Replays(g, n, lines)}
<1> SUFFICES ASSUME Bad # {} PROVE FALSE
  OBVIOUS
<1>1. PICK m \in Bad : \A k \in Bad : m <= k
  <2> Bad \in SUBSET Nat
    OBVIOUS
  <2> HIDE DEF Bad
  <2> QED
    BY Least
<1>2. CASE m = 0
  <2>1. Replays([i \in 0 .. 0 |-> EmptyState], 0, lines)
    BY DEF Replays
  <2> QED
    BY <1>2, <2>1
<1>3. CASE m # 0
  <2>1. m - 1 \in Nat /\ m - 1 \notin Bad /\ m \in Nat
    BY <1>1, <1>3
  <2>2. PICK g : Replays(g, m - 1, lines)
    BY <2>1
  <2> DEFINE h == [i \in 0 .. m |-> IF i = m THEN apply_record(g[m - 1], lines[m]) ELSE g[i]]
  <2>3. h = [i \in 0 .. m |-> h[i]] /\ h[0] = EmptyState
    BY <1>3, <2>1, <2>2 DEF Replays
  <2>4. ASSUME NEW i \in 1 .. m
        PROVE  h[i] = apply_record(h[i - 1], lines[i])
    <3>1. CASE i = m
      <4>1. m \in 0 .. m /\ m - 1 \in 0 .. m /\ m - 1 # m
        BY <2>1
      <4>2. h[m] = apply_record(g[m - 1], lines[m]) /\ h[m - 1] = g[m - 1]
        BY <4>1
      <4> HIDE DEF h
      <4> QED
        BY <3>1, <4>2
    <3>2. CASE i # m
      <4>1. i \in 1 .. m - 1 /\ i - 1 \in 0 .. m /\ i - 1 # m /\ i \in 0 .. m
        BY <2>1, <3>2
      <4>2. h[i] = g[i] /\ h[i - 1] = g[i - 1]
        BY <3>2, <4>1
      <4>3. g[i] = apply_record(g[i - 1], lines[i])
        BY <2>2, <4>1 DEF Replays
      <4> HIDE DEF h
      <4> QED
        BY <4>2, <4>3
    <3> QED
      BY <3>1, <3>2
  <2>5. Replays(h, m, lines)
    <3> HIDE DEF h
    <3> QED
      BY <2>3, <2>4 DEF Replays
  <2> QED
    BY <2>5
<1> QED
  BY <1>2, <1>3

\* rebuild_state is the last value of such a function.
LEMMA RebuildReplays ==
  ASSUME NEW lines, Len(lines) \in Nat
  PROVE  \E g : Replays(g, Len(lines), lines) /\ rebuild_state(lines) = g[Len(lines)]
<1> DEFINE F(g) == [n \in 0 .. Len(lines) |->
                      IF n = 0 THEN EmptyState ELSE apply_record(g[n - 1], lines[n])]
           k == CHOOSE g : g = F(g)
<1>1. rebuild_state(lines) = k[Len(lines)]
  BY DEF rebuild_state
<1>2. PICK g : Replays(g, Len(lines), lines)
  BY ReplayExists
<1>3. g = F(g)
  BY <1>2 DEF Replays
<1>4. k = F(k)
  <2> HIDE DEF F
  <2> QED
    BY <1>3
<1>5. Replays(k, Len(lines), lines)
  <2> HIDE DEF k
  <2>1. \A n \in 0 .. Len(lines) : k[n] = IF n = 0 THEN EmptyState ELSE apply_record(k[n - 1], lines[n])
    BY <1>4
  <2>2. k = [n \in 0 .. Len(lines) |-> k[n]]
    BY <1>4
  <2> QED
    BY <2>1, <2>2 DEF Replays
<1> QED
  BY <1>1, <1>5

\* Two replays agree on the lines that both have replayed.
LEMMA ReplaysAgree ==
  ASSUME NEW m \in Nat, NEW n \in Nat, m <= n, NEW p, NEW q, \A i \in 1 .. m : p[i] = q[i],
         NEW g, NEW h, Replays(g, m, p), Replays(h, n, q)
  PROVE  g[m] = h[m]
<1> DEFINE Bad == {i \in 0 .. m : g[i] # h[i]}
<1> SUFFICES ASSUME Bad # {} PROVE FALSE
  BY DEF Replays
<1>1. PICK i \in Bad : \A k \in Bad : i <= k
  <2> Bad \in SUBSET Nat
    OBVIOUS
  <2> HIDE DEF Bad
  <2> QED
    BY Least
<1>2. i # 0
  BY DEF Replays
<1>3. i \in 1 .. m /\ i \in 1 .. n /\ i - 1 \in 0 .. m /\ i - 1 \notin Bad
  BY <1>1, <1>2
<1>4. g[i - 1] = h[i - 1]
  BY <1>3
<1>5. g[i] = apply_record(g[i - 1], p[i]) /\ h[i] = apply_record(h[i - 1], q[i]) /\ p[i] = q[i]
  BY <1>3 DEF Replays
<1>6. g[i] = h[i]
  BY <1>4, <1>5
<1> QED
  BY <1>6

\* Replaying one line more applies it.
LEMMA RebuildAppend ==
  ASSUME NEW S, NEW lines \in Seq(S), NEW r \in S
  PROVE  rebuild_state(Append(lines, r)) = apply_record(rebuild_state(lines), r)
<1> DEFINE q == Append(lines, r)  n == Len(lines)
<1>1. n \in Nat /\ Len(q) = n + 1 /\ (\A i \in 1 .. n : lines[i] = q[i]) /\ q[n + 1] = r
  BY LenProperties, AppendProperties
<1> HIDE DEF q
<1>2. PICK g : Replays(g, n, lines) /\ rebuild_state(lines) = g[n]
  BY <1>1, RebuildReplays
<1>3. PICK h : Replays(h, n + 1, q) /\ rebuild_state(q) = h[n + 1]
  BY <1>1, RebuildReplays
<1> HIDE DEF n
<1>4. g[n] = h[n]
  <2>1. n + 1 \in Nat /\ n <= n + 1
    BY <1>1
  <2> QED
    BY <1>1, <1>2, <1>3, <2>1, ReplaysAgree
<1>5. h[n + 1] = apply_record(h[n], r)
  <2>1. n + 1 \in 1 .. n + 1 /\ (n + 1) - 1 = n
    BY <1>1
  <2> QED
    BY <1>1, <1>3, <2>1 DEF Replays
<1> QED
  BY <1>2, <1>3, <1>4, <1>5 DEF q

\* No line replays to the empty state.
LEMMA RebuildEmpty == rebuild_state(<<>>) = EmptyState
<1>1. Len(<<>>) = 0
  OBVIOUS
<1>2. PICK g : Replays(g, 0, <<>>) /\ rebuild_state(<<>>) = g[0]
  BY <1>1, RebuildReplays
<1> QED
  BY <1>2 DEF Replays

--------------------------------------------------------------------------------
(* Concatenations of many sequences, in an order nobody knows.             *)

\* g is what joining the first 0, 1, .. n of the sequences gives.
Joins(g, n, ss) ==
  /\ g = [i \in 0 .. n |-> g[i]]
  /\ g[0] = <<>>
  /\ \A i \in 1 .. n : g[i] = g[i - 1] \o ss[i]

\* Such a function exists, whatever n.
LEMMA JoinExists ==
  ASSUME NEW ss
  PROVE  \A n \in Nat : \E g : Joins(g, n, ss)
<1> DEFINE Bad == {n \in Nat : ~ \E g : Joins(g, n, ss)}
<1> SUFFICES ASSUME Bad # {} PROVE FALSE
  OBVIOUS
<1>1. PICK m \in Bad : \A k \in Bad : m <= k
  <2> Bad \in SUBSET Nat
    OBVIOUS
  <2> HIDE DEF Bad
  <2> QED
    BY Least
<1>2. CASE m = 0
  <2>1. Joins([i \in 0 .. 0 |-> <<>>], 0, ss)
    BY DEF Joins
  <2> QED
    BY <1>2, <2>1
<1>3. CASE m # 0
  <2>1. m - 1 \in Nat /\ m - 1 \notin Bad /\ m \in Nat
    BY <1>1, <1>3
  <2>2. PICK g : Joins(g, m - 1, ss)
    BY <2>1
  <2> DEFINE h == [i \in 0 .. m |-> IF i = m THEN g[m - 1] \o ss[m] ELSE g[i]]
  <2>3. h = [i \in 0 .. m |-> h[i]] /\ h[0] = <<>>
    BY <1>3, <2>1, <2>2 DEF Joins
  <2>4. ASSUME NEW i \in 1 .. m
        PROVE  h[i] = h[i - 1] \o ss[i]
    <3>1. CASE i = m
      <4>1. m \in 0 .. m /\ m - 1 \in 0 .. m /\ m - 1 # m
        BY <2>1
      <4>2. h[m] = g[m - 1] \o ss[m] /\ h[m - 1] = g[m - 1]
        BY <4>1
      <4> HIDE DEF h
      <4> QED
        BY <3>1, <4>2
    <3>2. CASE i # m
      <4>1. i \in 1 .. m - 1 /\ i - 1 \in 0 .. m /\ i - 1 # m /\ i \in 0 .. m
        BY <2>1, <3>2
      <4>2. h[i] = g[i] /\ h[i - 1] = g[i - 1]
        BY <3>2, <4>1
      <4>3. g[i] = g[i - 1] \o ss[i]
        BY <2>2, <4>1 DEF Joins
      <4> HIDE DEF h
      <4> QED
        BY <4>2, <4>3
    <3> QED
      BY <3>1, <3>2
  <2>5. Joins(h, m, ss)
    <3> HIDE DEF h
    <3> QED
      BY <2>3, <2>4 DEF Joins
  <2> QED
    BY <2>5
<1> QED
  BY <1>2, <1>3

\* FlattenSeq is the last value of such a function.
LEMMA FlattenJoins ==
  ASSUME NEW X, NEW ss \in Seq(Seq(X))
  PROVE  \E g : Joins(g, Len(ss), ss) /\ FlattenSeq(ss) = g[Len(ss)]
<1> DEFINE n == Len(ss)
<1>0. n \in Nat /\ \A i \in 1 .. n : ss[i] \in Seq(X)
  BY LenProperties, ElementOfSeq
<1>1. CASE n = 0
  <2>1. ss = <<>> /\ FlattenSeq(ss) = <<>>
    BY <1>1, EmptySeq DEF FlattenSeq
  <2>2. Joins([i \in 0 .. 0 |-> <<>>], 0, ss)
    BY DEF Joins
  <2> QED
    BY <1>1, <2>1, <2>2
<1>2. CASE n # 0
  <2> DEFINE F(f) == [i \in 1 .. n |-> IF i = 1 THEN ss[i] ELSE f[i - 1] \o ss[i]]
             k == CHOOSE f : f = F(f)
  <2>1. FlattenSeq(ss) = k[n]
    BY <1>2 DEF FlattenSeq
  <2>2. PICK g : Joins(g, n, ss)
    BY <1>0, JoinExists
  <2> DEFINE h == [i \in 1 .. n |-> g[i]]
  <2> HIDE DEF n
  <2>3. h = F(h)
    <3>1. ASSUME NEW i \in 1 .. n
          PROVE  g[i] = IF i = 1 THEN ss[i] ELSE h[i - 1] \o ss[i]
      <4>1. g[i] = g[i - 1] \o ss[i]
        BY <2>2, Zenon DEF Joins
      <4>2. CASE i = 1
        <5>1. g[i - 1] = <<>> /\ ss[i] \in Seq(X)
          BY <1>0, <2>2, <4>2 DEF Joins
        <5>2. g[i] = ss[i]
          BY <4>1, <5>1, ConcatEmptySeq
        <5> QED
          BY <4>2, <5>2
      <4>3. CASE i # 1
        <5>1. i - 1 \in 1 .. n
          BY <1>0, <4>3
        <5> QED
          BY <4>1, <4>3, <5>1
      <4> QED
        BY <4>2, <4>3
    <3> HIDE DEF h
    <3>2. h = [i \in 1 .. n |-> g[i]]
      BY DEF h
    <3> QED
      BY <3>1, <3>2
  <2>4. k = F(k)
    <3> HIDE DEF F, h
    <3> QED
      BY <2>3
  <2> HIDE DEF k
  <2> DEFINE j == [i \in 0 .. n |-> IF i = 0 THEN <<>> ELSE k[i]]
  <2>5. \A i \in 1 .. n : k[i] = IF i = 1 THEN ss[i] ELSE k[i - 1] \o ss[i]
    BY <2>4
  <2>6. j[0] = <<>> /\ j = [i \in 0 .. n |-> j[i]] /\ \A i \in 1 .. n : j[i] = k[i]
    BY <1>0
  <2> HIDE DEF j
  <2>7. ASSUME NEW i \in 1 .. n
        PROVE  j[i] = j[i - 1] \o ss[i]
    <3>1. CASE i = 1
      <4>1. j[i] = ss[i]
        <5>1. j[i] = k[i] /\ k[i] = ss[i]
          BY <2>5, <2>6, <3>1, Zenon
        <5> QED
          BY <5>1
      <4>2. j[i - 1] = <<>>
        BY <2>6, <3>1
      <4>3. ss[i] \in Seq(X)
        BY <1>0
      <4> QED
        BY <4>1, <4>2, <4>3, ConcatEmptySeq
    <3>2. CASE i # 1
      <4>1. i - 1 \in 1 .. n
        BY <1>0, <3>2
      <4> QED
        BY <2>5, <2>6, <3>2, <4>1
    <3> QED
      BY <3>1, <3>2
  <2>8. n \in 1 .. n
    BY <1>0, <1>2
  <2>9. Joins(j, n, ss) /\ FlattenSeq(ss) = j[n]
    BY <2>1, <2>6, <2>7, <2>8 DEF Joins
  <2> QED
    BY <2>9 DEF n
<1> QED
  BY <1>1, <1>2

\* Joined sequences are a sequence.
LEMMA FlattenTyped ==
  ASSUME NEW X, NEW ss \in Seq(Seq(X))
  PROVE  FlattenSeq(ss) \in Seq(X)
<1> DEFINE n == Len(ss)
<1>0. n \in Nat /\ \A i \in 1 .. n : ss[i] \in Seq(X)
  BY LenProperties, ElementOfSeq
<1>1. PICK g : Joins(g, n, ss) /\ FlattenSeq(ss) = g[n]
  BY FlattenJoins
<1> HIDE DEF n
<1> DEFINE G == {i \in 0 .. n : g[i] \in Seq(X)}
<1>2. 0 \in G
  <2>1. g[0] = <<>> /\ <<>> \in Seq(X) /\ 0 \in 0 .. n
    BY <1>0, <1>1 DEF Joins
  <2> QED
    BY <2>1
<1>3. ASSUME NEW i \in 1 .. n, i - 1 \in G PROVE i \in G
  <2>1. g[i - 1] \in Seq(X) /\ ss[i] \in Seq(X) /\ i \in 0 .. n
    BY <1>0, <1>3
  <2>2. g[i] = g[i - 1] \o ss[i]
    BY <1>1, Zenon DEF Joins
  <2>3. g[i] \in Seq(X)
    BY <2>1, <2>2, ConcatProperties
  <2> QED
    BY <2>1, <2>3
<1>4. n \in G
  <2> HIDE DEF G
  <2>1. \A i \in 0 .. n : i \in G
    BY <1>0, <1>2, <1>3, Induction
  <2> QED
    BY <1>0, <2>1
<1> QED
  BY <1>1, <1>4

\* SetToSeq lists a finite set, every element once.
LEMMA Listed ==
  ASSUME NEW B, IsFiniteSet(B)
  PROVE  LET ss == SetToSeq(B)
             n == Len(ss)
         IN  /\ ss \in Seq(B) /\ n \in Nat
             /\ \A i, j \in 1 .. n : ss[i] = ss[j] => i = j
             /\ \A b \in B : \E i \in 1 .. n : ss[i] = b
<1> DEFINE n == Cardinality(B)  ss == SetToSeq(B)
<1>1. n \in Nat /\ ExistsBijection(1 .. n, B)
  BY FS_CardinalityType
<1>2. PICK f : f \in Bijection(1 .. n, B)
  BY <1>1 DEF ExistsBijection
<1>3. f \in [1 .. n -> B] /\ IsInjective(f)
  BY <1>2 DEF Bijection, Injection
<1>4. ss \in [1 .. n -> B] /\ IsInjective(ss)
  BY <1>3 DEF SetToSeq
<1> HIDE DEF ss, n
<1>5. ss \in Injection(1 .. n, B)
  BY <1>4 DEF Injection
<1>6. Cardinality(1 .. n) = n
  BY <1>1, FS_Interval
<1>7. ss \in Surjection(1 .. n, B)
  BY <1>5, <1>6, FS_Injection DEF n
<1>8. ss \in Seq(B) /\ Len(ss) = n
  BY <1>1, <1>4
<1>9. \A i, j \in 1 .. n : ss[i] = ss[j] => i = j
  BY <1>4 DEF IsInjective
<1>10. \A b \in B : \E i \in 1 .. n : ss[i] = b
  BY <1>7 DEF Surjection
<1> QED
  BY <1>1, <1>8, <1>9, <1>10 DEF ss

\* The sequences of a finite set, joined, are a sequence.
LEMMA JoinedTyped ==
  ASSUME NEW X, NEW B \in SUBSET Seq(X), IsFiniteSet(B)
  PROVE  FlattenSeq(SetToSeq(B)) \in Seq(X)
<1>1. SetToSeq(B) \in Seq(B)
  BY Listed
<1>2. SetToSeq(B) \in Seq(Seq(X))
  BY <1>1
<1> QED
  BY <1>2, FlattenTyped

\* Concatenation is associative.
LEMMA Associative ==
  ASSUME NEW X, NEW a \in Seq(X), NEW b \in Seq(X), NEW c \in Seq(X)
  PROVE  a \o b \in Seq(X) /\ b \o c \in Seq(X) /\ a \o (b \o c) = (a \o b) \o c
BY ConcatAssociative, ConcatProperties

\* The sequences f gives, in some order, each once.
Every(f) == FlattenSeq(SetToSeq(Range(f)))

\* The elements of S for which f gives the same sequence as for x are those of K[x].
Classes(S, f, K) == \A x \in S : K[x] = {y \in S : f[y] = f[x]}

\* Appending the sequence of one more leads from J of what there was to J of what
\* there is then.
Leads(S, f, J, K) ==
  \A D \in SUBSET S : \A x \in S \ D : \A p \in J[D] : p \o f[x] \in J[D \cup K[x]]

\* A sweep over a finite set S appends the sequence f[x] for every x, in some order.
\* J[D] is what is known when those of D have been appended: if it leads from one
\* to the next, the end is in J[S].
LEMMA Sweep ==
  ASSUME NEW X, NEW S, IsFiniteSet(S), NEW f \in [S -> Seq(X)],
         NEW J \in [SUBSET S -> SUBSET Seq(X)], NEW pre \in J[{}],
         NEW K, Classes(S, f, K), Leads(S, f, J, K)
  PROVE  pre \o Every(f) \in J[S]
<1>0. ASSUME NEW D \in SUBSET S, NEW x \in S \ D, NEW e \in Seq(X), pre \o e \in J[D]
      PROVE  /\ pre \o (e \o f[x]) \in J[D \cup K[x]]
             /\ e \o f[x] \in Seq(X)
  <2>1. pre \in Seq(X) /\ f[x] \in Seq(X)
    OBVIOUS
  <2>2. e \o f[x] \in Seq(X) /\ pre \o (e \o f[x]) = (pre \o e) \o f[x]
    BY <2>1, Associative
  <2> PICK p : p = pre \o e
    OBVIOUS
  <2>3. p \in J[D]
    BY <1>0
  <2>4. p \o f[x] \in J[D \cup K[x]]
    BY <2>3 DEF Leads
  <2> QED
    BY <2>2, <2>4
<1> DEFINE B == {f[x] : x \in S}
           ss == SetToSeq(B)
           n == Len(ss)
           done(i) == {x \in S : \E j \in 1 .. i : ss[j] = f[x]}
<1>1. IsFiniteSet(B) /\ B \in SUBSET Seq(X)
  <2>1. f \in Surjection(S, B)
    BY DEF Surjection
  <2> QED
    BY <2>1, FS_Surjection
<1>2. /\ ss \in Seq(B) /\ n \in Nat
      /\ \A i, j \in 1 .. n : ss[i] = ss[j] => i = j
      /\ \A b \in B : \E i \in 1 .. n : ss[i] = b
  <2> HIDE DEF B
  <2> QED
    BY <1>1, Listed
<1>3. ss \in Seq(Seq(X)) /\ \A i \in 1 .. n : ss[i] \in B
  <2> HIDE DEF B
  <2> QED
    BY <1>1, <1>2, ElementOfSeq
<1> HIDE DEF ss
<1>4. PICK g : Joins(g, n, ss) /\ FlattenSeq(ss) = g[n]
  BY <1>3, FlattenJoins
<1>5. pre \in Seq(X)
  OBVIOUS
<1> HIDE DEF n
<1> DEFINE G == {i \in 0 .. n : g[i] \in Seq(X) /\ pre \o g[i] \in J[done(i)]}
<1>6. 0 \in G
  <2>1. g[0] = <<>> /\ done(0) = {} /\ 0 \in 0 .. n
    BY <1>2, <1>4 DEF Joins
  <2> HIDE DEF done
  <2>2. pre \o <<>> = pre /\ <<>> \in Seq(X)
    BY <1>5, ConcatEmptySeq
  <2> QED
    BY <2>1, <2>2
<1>7. ASSUME NEW i \in 1 .. n, i - 1 \in G PROVE i \in G
  <2>1. g[i] = g[i - 1] \o ss[i]
    BY <1>4, Zenon DEF Joins
  <2>2. PICK x \in S : ss[i] = f[x]
    BY <1>3
  <2>3. x \notin done(i - 1)
    <3>1. ASSUME NEW j \in 1 .. i - 1, ss[j] = f[x] PROVE FALSE
      <4>1. j \in 1 .. n /\ j # i
        BY <1>2
      <4> QED
        BY <1>2, <2>2, <3>1, <4>1
    <3> QED
      BY <3>1
  <2>4. done(i) = done(i - 1) \cup {y \in S : f[y] = f[x]}
    <3>1. 1 .. i = (1 .. i - 1) \cup {i}
      BY <1>2
    <3> QED
      BY <2>2, <3>1
  <2>5. g[i - 1] \in Seq(X) /\ pre \o g[i - 1] \in J[done(i - 1)] /\ i \in 0 .. n
    BY <1>2, <1>7
  <2>6. done(i - 1) \in SUBSET S /\ x \in S \ done(i - 1)
    BY <2>3
  <2> HIDE DEF done, G
  <2>7. g[i] = g[i - 1] \o f[x]
    BY <2>1, <2>2, Zenon
  <2>8. /\ pre \o (g[i - 1] \o f[x]) \in J[done(i - 1) \cup K[x]]
        /\ g[i - 1] \o f[x] \in Seq(X)
    BY <1>0, <2>5, <2>6, Zenon
  <2>9. pre \o g[i] \in J[done(i)] /\ g[i] \in Seq(X)
    BY <2>4, <2>7, <2>8, Zenon DEF Classes
  <2> QED
    BY <2>5, <2>9 DEF G
<1>8. pre \o g[n] \in J[done(n)]
  <2>1. \A i \in 0 .. n : i \in G
    <3> HIDE DEF G
    <3> QED
      BY <1>2, <1>6, <1>7, Induction
  <2>2. n \in 0 .. n
    BY <1>2
  <2>3. n \in G
    BY <2>1, <2>2, Zenon
  <2> QED
    BY <2>3, Zenon
<1>9. done(n) = S
  <2> HIDE DEF G
  <2>1. ASSUME NEW x \in S PROVE \E j \in 1 .. n : ss[j] = f[x]
    <3>1. f[x] \in B
      OBVIOUS
    <3> HIDE DEF B
    <3> QED
      BY <1>2, <3>1
  <2> QED
    BY <2>1
<1> HIDE DEF done
<1>10. Every(f) = FlattenSeq(ss)
  <2>1. DOMAIN f = S
    OBVIOUS
  <2> QED
    BY <2>1, Zenon DEF Every, Range, ss, B
<1> QED
  BY <1>4, <1>8, <1>9, <1>10, Zenon

\* Appending an element of Y to a sequence of I gives one of I.
Keeps(I, Y) == \A p \in I : \A y \in Y : Append(p, y) \in I

\* What appending any element of Y keeps, appending a sequence of such elements keeps.
LEMMA Steady ==
  ASSUME NEW X, NEW Y \in SUBSET X, NEW I \in SUBSET Seq(X), NEW pre \in I, NEW b \in Seq(Y),
         Keeps(I, Y)
  PROVE  pre \o b \in I
<1> DEFINE G == {i \in 0 .. Len(b) : pre \o SubSeq(b, 1, i) \in I}
<1>0. pre \in Seq(X) /\ b \in Seq(X) /\ Len(b) \in Nat /\ \A i \in 1 .. Len(b) : b[i] \in Y
  BY LenProperties, ElementOfSeq
<1>1. 0 \in G
  <2>1. SubSeq(b, 1, 0) = <<>> /\ pre \o <<>> = pre
    BY <1>0, SubSeqEmpty, ConcatEmptySeq
  <2>2. pre \o SubSeq(b, 1, 0) = pre
    BY <2>1
  <2>3. 0 \in 0 .. Len(b)
    BY <1>0
  <2> QED
    BY <2>2, <2>3
<1>2. ASSUME NEW i \in 1 .. Len(b), i - 1 \in G PROVE i \in G
  <2> PICK c : c = SubSeq(b, 1, i - 1)
    OBVIOUS
  <2>1. SubSeq(b, 1, i) = c \o <<b[i]>>
    <3>1. 1 \in 1 .. Len(b) /\ i \in 1 .. Len(b)
      BY <1>0
    <3> QED
      BY <1>0, <3>1, SubSeqRecursiveSecond
  <2>2. c \in Seq(X)
    <3>1. \A j \in 1 .. i - 1 : b[j] \in X
      BY <1>0
    <3> QED
      BY <3>1, SubSeqProperties
  <2>3. b[i] \in X /\ b[i] \in Y /\ <<b[i]>> \in Seq(X) /\ i \in 0 .. Len(b)
    BY <1>0
  <2>4. pre \o (c \o <<b[i]>>) = (pre \o c) \o <<b[i]>> /\ pre \o c \in Seq(X)
    <3> PICK d : d = <<b[i]>>
      OBVIOUS
    <3>1. pre \in Seq(X) /\ c \in Seq(X) /\ d \in Seq(X)
      BY <1>0, <2>2, <2>3
    <3> HIDE DEF G
    <3>2. pre \o (c \o d) = (pre \o c) \o d /\ pre \o c \in Seq(X)
      BY ONLY <3>1, Associative
    <3> QED
      BY <3>2
  <2>5. (pre \o c) \o <<b[i]>> = Append(pre \o c, b[i])
    BY <2>3, <2>4, AppendIsConcat
  <2>6. pre \o c \in I
    BY <1>2
  <2>7. Append(pre \o c, b[i]) \in I
    <3> PICK p : p = pre \o c
      OBVIOUS
    <3>1. Append(p, b[i]) \in I
      BY <2>3, <2>6, Zenon DEF Keeps
    <3> QED
      BY <3>1, Zenon
  <2>8. pre \o SubSeq(b, 1, i) \in I
    BY <2>1, <2>4, <2>5, <2>7, Zenon
  <2> QED
    BY <2>3, <2>8
<1>3. pre \o SubSeq(b, 1, Len(b)) \in I
  <2>1. \A i \in 0 .. Len(b) : i \in G
    <3> HIDE DEF G
    <3> QED
      BY <1>0, <1>1, <1>2, Induction
  <2>2. Len(b) \in 0 .. Len(b)
    BY <1>0
  <2>3. Len(b) \in G
    BY <2>1, <2>2, Zenon
  <2> QED
    BY <2>3, Zenon
<1>4. SubSeq(b, 1, Len(b)) = b
  BY <1>0, SubSeqFull
<1> QED
  BY <1>3, <1>4

--------------------------------------------------------------------------------
(* Batches.                                                                *)

\* The state when the first k records of a batch have been written.
After(lines, recs, k) == rebuild_state(lines \o SubSeq(recs, 1, k))

\* A batch is replayed record by record.
LEMMA AfterStep ==
  ASSUME NEW lines \in Seq(Line), NEW recs \in Seq(Line)
  PROVE  /\ After(lines, recs, 0) = rebuild_state(lines)
         /\ \A k \in 1 .. Len(recs) :
              After(lines, recs, k) = apply_record(After(lines, recs, k - 1), recs[k])
<1>1. After(lines, recs, 0) = rebuild_state(lines)
  <2>1. SubSeq(recs, 1, 0) = <<>>
    BY SubSeqEmpty
  <2> QED
    BY <2>1, ConcatEmptySeq DEF After
<1>2. ASSUME NEW k \in 1 .. Len(recs)
      PROVE  After(lines, recs, k) = apply_record(After(lines, recs, k - 1), recs[k])
  <2> DEFINE b == SubSeq(recs, 1, k - 1)
  <2>1. Len(recs) \in Nat /\ recs[k] \in Line /\ 1 \in 1 .. Len(recs)
    BY LenProperties, ElementOfSeq
  <2>2. SubSeq(recs, 1, k) = b \o <<recs[k]>>
    BY <2>1, SubSeqRecursiveSecond
  <2>3. b \in Seq(Line)
    <3>1. \A i \in 1 .. k - 1 : recs[i] \in Line
      BY <2>1, ElementOfSeq
    <3> QED
      BY <2>1, <3>1, SubSeqProperties
  <2> HIDE DEF b
  <2>4. <<recs[k]>> \in Seq(Line)
    BY <2>1
  <2>5. lines \o (b \o <<recs[k]>>) = (lines \o b) \o <<recs[k]>>
    BY <2>3, <2>4, ConcatAssociative
  <2>6. lines \o b \in Seq(Line)
    BY <2>3, ConcatProperties
  <2>7. (lines \o b) \o <<recs[k]>> = Append(lines \o b, recs[k])
    BY <2>1, <2>6, AppendIsConcat
  <2> QED
    BY <2>1, <2>2, <2>5, <2>6, <2>7, RebuildAppend DEF After, b
<1> QED
  BY <1>1, <1>2

\* A fragment at the end changes nothing.
LEMMA MalformedIgnored ==
  ASSUME NEW lines \in Seq(Line)
  PROVE  lines \o <<Malformed>> \in Seq(Line) /\ rebuild_state(lines \o <<Malformed>>) = rebuild_state(lines)
<1>1. Malformed \in Line
  BY DEF Line
<1>2. lines \o <<Malformed>> = Append(lines, Malformed) /\ Append(lines, Malformed) \in Seq(Line)
  BY <1>1, AppendIsConcat, AppendProperties
<1>3. apply_record(rebuild_state(lines), Malformed) = rebuild_state(lines)
  <2> DEFINE rec == Malformed
  <2>1. rec.kind = "Malformed"
    BY DEF Malformed
  <2> HIDE DEF rec
  <2>2. apply_record(rebuild_state(lines), rec) = rebuild_state(lines)
    BY <2>1 DEF apply_record
  <2> QED
    BY <2>2 DEF rec
<1> QED
  BY <1>1, <1>2, <1>3, RebuildAppend

\* The file is a sequence of lines and state what replaying it gives.
FileOK == file \in Seq(Line) /\ state = rebuild_state(file)

\* What the file held, it holds still.
Survives == Len(file') >= Len(file) /\ SubSeq(file', 1, Len(file)) = file

\* Every line of the file is kept, and state is what replaying the new file gives.
Grown == FileOK' /\ Survives

\* What a longer file begins with is the old file.
LEMMA ConcatSurvives ==
  ASSUME file \in Seq(Line), NEW more \in Seq(Line), file' = file \o more
  PROVE  Survives
<1> DEFINE f == file \o more
<1>1. /\ f \in Seq(Line) /\ Len(f) = Len(file) + Len(more)
      /\ \A i \in 1 .. Len(file) + Len(more) : f[i] = IF i <= Len(file) THEN file[i] ELSE more[i - Len(file)]
  BY ConcatProperties
<1>2. Len(file) \in Nat /\ Len(more) \in Nat
  BY LenProperties
<1> HIDE DEF f
<1>3. \A i \in 1 .. Len(file) : f[i] = file[i] /\ f[i] \in Line
  BY <1>1, <1>2, ElementOfSeq
<1> DEFINE g == SubSeq(f, 1, Len(file))
<1>4. g \in Seq(Line) /\ Len(g) = Len(file) /\ \A i \in 1 .. Len(file) : g[i] = f[i]
  <2>1. /\ g \in Seq(Line) /\ Len(g) = (IF 1 <= Len(file) THEN Len(file) - 1 + 1 ELSE 0)
        /\ \A i \in 1 .. Len(file) - 1 + 1 : g[i] = f[1 + i - 1]
    BY <1>2, <1>3, SubSeqProperties
  <2> HIDE DEF g
  <2> QED
    BY <1>2, <2>1
<1> HIDE DEF g
<1>5. g = file
  BY <1>3, <1>4, SeqEqual
<1>6. Len(f) >= Len(file)
  BY <1>1, <1>2
<1> QED
  BY <1>5, <1>6 DEF Survives, f, g

\* Whatever an append leaves in the file, replaying it applies the first k records.
LEMMA AppendLeaves ==
  ASSUME FileOK, NEW recs \in Seq(Line), append_records_unlocked(recs)
  PROVE  Grown /\ \E k \in 0 .. Len(recs) : state' = After(file, recs, k)
<1>1. Len(recs) \in Nat
  BY LenProperties
<1>2. CASE Appended(recs)
  <2>1. file \o recs \in Seq(Line)
    BY ConcatProperties DEF FileOK
  <2>2. SubSeq(recs, 1, Len(recs)) = recs
    BY SubSeqFull
  <2>3. state' = After(file, recs, Len(recs)) /\ file' \in Seq(Line) /\ state' = rebuild_state(file')
    BY <1>2, <2>1, <2>2 DEF Appended, Written, After
  <2>4. Grown
    <3>1. file' = file \o recs
      BY <1>2 DEF Appended, Written
    <3> QED
      BY <2>3, <3>1, ConcatSurvives DEF FileOK, Grown
  <2>5. Len(recs) \in 0 .. Len(recs)
    BY <1>1
  <2> QED
    BY <2>3, <2>4, <2>5
<1>3. CASE Torn(recs)
  <2>1. PICK k \in 0 .. Len(recs) - 1 :
          \/ Written(file \o SubSeq(recs, 1, k), TRUE)
          \/ k > 0 /\ Written(file \o SubSeq(recs, 1, k), FALSE)
          \/ Written(file \o SubSeq(recs, 1, k) \o <<Malformed>>, FALSE)
    BY <1>3 DEF Torn
  <2> DEFINE b == SubSeq(recs, 1, k)
  <2>2. b \in Seq(Line) /\ file \o b \in Seq(Line)
    <3>1. \A i \in 1 .. k : recs[i] \in Line
      BY <1>1, ElementOfSeq
    <3>2. b \in Seq(Line)
      BY <1>1, <3>1, SubSeqProperties
    <3> QED
      BY <3>2, ConcatProperties DEF FileOK
  <2>3. file' \in {file \o b, file \o b \o <<Malformed>>} /\ state' = rebuild_state(file')
    BY <2>1 DEF Written
  <2> HIDE DEF b
  <2>4. file' \in Seq(Line) /\ state' = rebuild_state(file \o b)
    BY <2>2, <2>3, MalformedIgnored
  <2>5. Survives
    <3>1. Malformed \in Line /\ <<Malformed>> \in Seq(Line)
      BY DEF Line
    <3>2. file \o b \o <<Malformed>> = file \o (b \o <<Malformed>>) /\ b \o <<Malformed>> \in Seq(Line)
      BY <2>2, <3>1, ConcatProperties, ConcatAssociative DEF FileOK
    <3> QED
      BY <2>2, <2>3, <3>2, ConcatSurvives DEF FileOK
  <2> QED
    BY <1>1, <2>3, <2>4, <2>5 DEF After, FileOK, Grown, b
<1> QED
  BY <1>2, <1>3 DEF append_records_unlocked

--------------------------------------------------------------------------------
(* What each record changes.                                               *)

\* The fields of a replayed state.
Fields == {"tasks", "latest_seq", "heartbeats", "receipts", "alerts", "runs",
           "latest_events", "restarted_events", "escalated_events", "alert_seq"}
HasFields(s) == Fields \subseteq DOMAIN s

\* The fields of the state the ledger specification speaks of.
Shows(s, tasks, seqs, beats, receipts, alerts, runs) ==
  /\ HasFields(s)
  /\ s.tasks = tasks /\ s.latest_seq = seqs /\ s.heartbeats = beats
  /\ s.receipts = receipts /\ s.alerts = alerts /\ s.runs = runs

\* RunCreated adds the run.
LEMMA ReplayRun ==
  ASSUME NEW s, HasFields(s), NEW r
  PROVE  Shows(apply_record(s, RunCreated(r)), s.tasks, s.latest_seq, s.heartbeats, s.receipts,
               s.alerts, s.runs \cup {r})
<1> DEFINE rec == RunCreated(r)
<1>1. rec.kind = "RunCreated" /\ rec.run = r
  BY DEF RunCreated
<1> HIDE DEF rec
<1>2. apply_record(s, rec) = [s EXCEPT !.runs = @ \cup {rec.run}]
  BY <1>1 DEF apply_record
<1> QED
  BY <1>1, <1>2 DEF rec, Shows, HasFields, Fields

\* Heartbeat sets the worker's time.
LEMMA ReplayHeartbeat ==
  ASSUME NEW s, HasFields(s), NEW w, NEW ts
  PROVE  Shows(apply_record(s, Heartbeat(w, ts)), s.tasks, s.latest_seq,
               [s.heartbeats EXCEPT ![w] = ts], s.receipts, s.alerts, s.runs)
<1> DEFINE rec == Heartbeat(w, ts)
<1>1. rec.kind = "Heartbeat" /\ rec.worker = w /\ rec.timestamp = ts
  BY DEF Heartbeat
<1> HIDE DEF rec
<1>2. apply_record(s, rec) = [s EXCEPT !.heartbeats[rec.worker] = rec.timestamp]
  BY <1>1 DEF apply_record
<1> QED
  BY <1>1, <1>2 DEF rec, Shows, HasFields, Fields

\* TaskEnqueued queues a task that is not known yet.
LEMMA ReplayEnqueued ==
  ASSUME NEW s, HasFields(s), NEW t \in Task, s.tasks \in [Task -> L!TaskState],
         s.tasks[t].status = "Absent", s.tasks[t].attempts = 0
  PROVE  Shows(apply_record(s, TaskEnqueued(t, 0)), [s.tasks EXCEPT ![t].status = "Enqueued"],
               s.latest_seq, s.heartbeats, s.receipts, s.alerts, s.runs)
<1> DEFINE rec == TaskEnqueued(t, 0)
<1>1. rec.kind = "TaskEnqueued" /\ rec.task = t /\ rec.attempts = 0
  BY DEF TaskEnqueued
<1> HIDE DEF rec
<1>2. apply_record(s, rec) = [s EXCEPT !.tasks[rec.task].status = "Enqueued",
                        !.tasks[rec.task].attempts = rec.attempts]
  BY <1>1 DEF apply_record
<1>3. apply_record(s, rec).tasks = [s.tasks EXCEPT ![t].status = "Enqueued"]
  <2>1. apply_record(s, rec).tasks = [s.tasks EXCEPT ![t].status = "Enqueued", ![t].attempts = 0]
    BY <1>1, <1>2 DEF HasFields, Fields
  <2> QED
    BY <2>1 DEF L!TaskState
<1> QED
  BY <1>1, <1>2, <1>3 DEF rec, Shows, HasFields, Fields

\* TaskLeased gives a known task to the worker, for one attempt more.
LEMMA ReplayLeased ==
  ASSUME NEW s, HasFields(s), NEW t, NEW w, NEW d, s.tasks[t].status # "Absent"
  PROVE  Shows(apply_record(s, TaskLeased(t, w, d)),
               [s.tasks EXCEPT ![t] = [status |-> "Leased", leased_to |-> w,
                                       attempts |-> s.tasks[t].attempts + 1, lease_deadline |-> d]],
               s.latest_seq, s.heartbeats, s.receipts, s.alerts, s.runs)
<1> DEFINE rec == TaskLeased(t, w, d)
<1>1. rec.kind = "TaskLeased" /\ rec.task = t /\ rec.worker = w /\ rec.expires = d
  BY DEF TaskLeased
<1> HIDE DEF rec
<1>2. apply_record(s, rec) = [s EXCEPT !.tasks[rec.task] =
                [status |-> "Leased", leased_to |-> rec.worker,
                 attempts |-> @.attempts + 1, lease_deadline |-> rec.expires]]
  BY <1>1 DEF apply_record
<1> QED
  BY <1>1, <1>2 DEF rec, Shows, HasFields, Fields

\* A new event that ends nothing moves the stream's number only.
LEMMA EventRecorded ==
  ASSUME NEW s, HasFields(s), NEW t, NEW w, NEW q, NEW p, q > s.latest_seq[w][t], p \notin Terminal
  PROVE  Shows(apply_event(s, t, w, q, p), s.tasks, [s.latest_seq EXCEPT ![w][t] = q], s.heartbeats,
               s.receipts, s.alerts, s.runs)
BY DEF apply_event, Shows, HasFields, Fields

\* A terminal mark by the worker that holds the task changes its status only.
LEMMA MarkShows ==
  ASSUME NEW s, HasFields(s), NEW t \in Task, NEW w, NEW x, s.tasks \in [Task -> L!TaskState],
         s.tasks[t].status # "Absent", w \in {NoWorker, s.tasks[t].leased_to}
  PROVE  Shows(mark_task_terminal(s, t, w, x), [s.tasks EXCEPT ![t].status = x], s.latest_seq, s.heartbeats,
               s.receipts, s.alerts, s.runs)
<1> DEFINE r == mark_task_terminal(s, t, w, x)
<1>1. r = [s EXCEPT !.tasks[t].status = x, !.tasks[t].leased_to = IF w = NoWorker THEN @ ELSE w]
  BY DEF mark_task_terminal
<1>2. r.tasks = [s.tasks EXCEPT ![t].status = x]
  BY <1>1 DEF L!TaskState, HasFields, Fields
<1> QED
  BY <1>1, <1>2 DEF Shows, HasFields, Fields

\* A new terminal event ends the task as well.
LEMMA TerminalRecorded ==
  ASSUME NEW s, HasFields(s), NEW t \in Task, NEW w, NEW q, NEW p, q > s.latest_seq[w][t],
         p \in Terminal, s.tasks \in [Task -> L!TaskState],
         s.tasks[t].status # "Absent", w = s.tasks[t].leased_to
  PROVE  Shows(apply_event(s, t, w, q, p), [s.tasks EXCEPT ![t].status = p],
               [s.latest_seq EXCEPT ![w][t] = q], s.heartbeats, s.receipts, s.alerts, s.runs)
<1> DEFINE e == [seq |-> q, payload |-> p]
   recorded == [s EXCEPT
        !.latest_seq[w][t] = IF q > s.latest_seq[w][t] THEN q ELSE @,
        !.latest_events[w][t] = IF q > s.latest_seq[w][t] /\ ~ (s.tasks[t].status \in Terminal /\ p \in Regressing) THEN e ELSE @,
        !.restarted_events[w][t] = IF p = "Restarted" THEN e ELSE @,
        !.escalated_events[w][t] = IF p = "Escalated" THEN e ELSE @]
<1>1. apply_event(s, t, w, q, p) = mark_task_terminal(recorded, t, w, p)
  BY DEF apply_event
<1>2. Shows(recorded, s.tasks, [s.latest_seq EXCEPT ![w][t] = q], s.heartbeats, s.receipts, s.alerts, s.runs)
  BY DEF Shows, HasFields, Fields
<1> HIDE DEF recorded
<1>3. Shows(mark_task_terminal(recorded, t, w, p), [recorded.tasks EXCEPT ![t].status = p],
    recorded.latest_seq, recorded.heartbeats, recorded.receipts, recorded.alerts, recorded.runs)
  BY <1>2, MarkShows DEF Shows
<1> QED
  BY <1>1, <1>2, <1>3 DEF Shows

\* TaskAttemptFinalized is the terminal event, its override and the receipt in one.
LEMMA FinalShows ==
  ASSUME NEW s, HasFields(s), NEW t \in Task, NEW w, NEW q, NEW p \in Terminal,
         NEW f \in Terminal \cup {L!NoStatus}, NEW rc,
         q > s.latest_seq[w][t], s.tasks \in [Task -> L!TaskState],
         s.tasks[t].status # "Absent", w = s.tasks[t].leased_to
  PROVE  Shows(apply_record(s, TaskAttemptFinalized(t, w, q, p, f, rc)),
               [s.tasks EXCEPT ![t].status = IF f = L!NoStatus THEN p ELSE f],
               [s.latest_seq EXCEPT ![w][t] = q], s.heartbeats,
               [s.receipts EXCEPT ![t] = rc], s.alerts, s.runs)
<1> DEFINE rec == TaskAttemptFinalized(t, w, q, p, f, rc)
           ended == apply_event(s, t, w, q, p)
           final == IF f = L!NoStatus THEN ended ELSE mark_task_terminal(ended, t, w, f)
<1>1. /\ rec.kind = "TaskAttemptFinalized" /\ rec.task = t /\ rec.worker = w /\ rec.seq = q
      /\ rec.payload = p /\ rec.final_status = f /\ rec.receipt = rc
  BY DEF TaskAttemptFinalized
<1> HIDE DEF rec
<1>2. apply_record(s, rec) = [final EXCEPT !.receipts[t] = rc]
  <2>1. apply_record(s, rec) = apply_finalized(s, rec)
    BY <1>1 DEF apply_record
  <2> QED
    BY <1>1, <2>1 DEF apply_finalized
<1>3. Shows(ended, [s.tasks EXCEPT ![t].status = p], [s.latest_seq EXCEPT ![w][t] = q], s.heartbeats,
            s.receipts, s.alerts, s.runs)
  BY TerminalRecorded
<1> HIDE DEF ended
<1>4. Shows(final, [s.tasks EXCEPT ![t].status = IF f = L!NoStatus THEN p ELSE f],
            [s.latest_seq EXCEPT ![w][t] = q], s.heartbeats, s.receipts, s.alerts, s.runs)
  <2>1. CASE f = L!NoStatus
    BY <1>3, <2>1
  <2>2. CASE f # L!NoStatus
    <3> DEFINE ts == [s.tasks EXCEPT ![t].status = p]
    <3>1. ts \in [Task -> L!TaskState] /\ ts[t].status = p /\ ts[t].leased_to = w /\ p # "Absent"
          /\ [ts EXCEPT ![t].status = f] = [s.tasks EXCEPT ![t].status = f]
      BY DEF L!TaskState, L!TaskStatus, Terminal, L!Terminal
    <3> HIDE DEF ts
    <3>2. Shows(mark_task_terminal(ended, t, w, f), [ended.tasks EXCEPT ![t].status = f],
            ended.latest_seq, ended.heartbeats, ended.receipts, ended.alerts, ended.runs)
      <4>1. HasFields(ended) /\ ended.tasks = ts
        BY <1>3 DEF Shows, ts
      <4> QED
        BY <3>1, <4>1, MarkShows
    <3>3. final = mark_task_terminal(ended, t, w, f)
      BY <2>2
    <3>4. ended.tasks = ts
      BY <1>3 DEF Shows, ts
    <3> HIDE DEF final
    <3> QED
      BY <1>3, <2>2, <3>1, <3>2, <3>3, <3>4 DEF Shows
  <2> QED
    BY <2>1, <2>2
<1> HIDE DEF final
<1> QED
  BY <1>2, <1>4 DEF rec, Shows, HasFields, Fields

\* AlertSent records the alert, once, and an event.
LEMMA AlertShows ==
  ASSUME NEW s, HasFields(s), NEW t, NEW w, NEW n, NEW c, NEW q, q > s.latest_seq[w][t],
         <<t, n, c>> \notin s.alerts
  PROVE  Shows(apply_record(s, AlertSent(t, w, n, c, q)), s.tasks, [s.latest_seq EXCEPT ![w][t] = q],
               s.heartbeats, s.receipts, s.alerts \cup {<<t, n, c>>}, s.runs)
<1> DEFINE rec == AlertSent(t, w, n, c, q)
           key == <<t, n, c>>
           sent == [s EXCEPT !.alerts = @ \cup {key}, !.alert_seq = @ \cup {<<key, w, q>>}]
<1>1. /\ rec.kind = "AlertSent" /\ rec.task = t /\ rec.worker = w /\ rec.attempt = n
      /\ rec.channel = c /\ rec.seq = q
  BY DEF AlertSent
<1> HIDE DEF rec
<1>2. apply_record(s, rec) = apply_event(sent, t, w, q, "Escalated")
  <2>1. apply_record(s, rec) = apply_alert(s, rec)
    BY <1>1 DEF apply_record
  <2> QED
    BY <1>1, <2>1 DEF apply_alert
<1>3. Shows(sent, s.tasks, s.latest_seq, s.heartbeats, s.receipts, s.alerts \cup {key}, s.runs)
  BY DEF Shows, HasFields, Fields
<1> HIDE DEF sent
<1>4. "Escalated" \notin Terminal
  BY DEF Terminal, L!Terminal
<1>5. Shows(apply_event(sent, t, w, q, "Escalated"), sent.tasks, [sent.latest_seq EXCEPT ![w][t] = q],
      sent.heartbeats, sent.receipts, sent.alerts, sent.runs)
  BY <1>3, <1>4, EventRecorded DEF Shows
<1> QED
  BY <1>2, <1>3, <1>5 DEF Shows, rec

--------------------------------------------------------------------------------
(* The operations.                                                         *)

P == INSTANCE FleetLedgerProofs WITH
  tasks <- state.tasks, latest_seq <- state.latest_seq,
  heartbeats <- state.heartbeats, receipts <- state.receipts,
  alerts <- state.alerts, runs <- state.runs

\* The types and bounds of the replayed state that the operations rely on.
Typed ==
  /\ HasFields(state)
  /\ state.tasks \in [Task -> L!TaskState]
  /\ state.latest_seq \in [Worker -> [Task -> Nat]]
  /\ \A w \in Worker : state.heartbeats[w] \in 0 .. MaxTime
  /\ \A w \in Worker, t \in Task : state.latest_seq[w][t] <= MaxSeq
  /\ \A t \in Task : state.tasks[t].leased_to # NoWorker =>
       /\ state.tasks[t].attempts \in 1 .. MaxLeases
       /\ state.tasks[t].status \notin {"Absent", "Enqueued"}
  /\ \A t \in Task : state.tasks[t].status \in {"Absent", "Enqueued"} => state.tasks[t].attempts = 0

\* A batch of one record leaves the file replaying to the old state or to its effect.
LEMMA OneRecord ==
  ASSUME FileOK, NEW rec \in Line, append_records_unlocked(<<rec>>)
  PROVE  Grown /\ (state' = state \/ state' = apply_record(state, rec))
<1>1. <<rec>> \in Seq(Line) /\ Len(<<rec>>) = 1 /\ <<rec>>[1] = rec
  OBVIOUS
<1>2. PICK k \in 0 .. 1 : state' = After(file, <<rec>>, k)
  BY <1>1, AppendLeaves
<1>3. Grown
  BY <1>1, AppendLeaves
<1>4. After(file, <<rec>>, 0) = state
  BY <1>1, AfterStep DEF FileOK
<1>5. After(file, <<rec>>, 1) = apply_record(After(file, <<rec>>, 0), rec)
  <2>1. 1 \in 1 .. Len(<<rec>>) /\ 1 - 1 = 0
    BY <1>1
  <2> QED
    BY <1>1, <2>1, AfterStep DEF FileOK
<1> QED
  BY <1>2, <1>3, <1>4, <1>5

\* What an operation may do.
Steps == Grown /\ HasFields(state)' /\ (UNCHANGED L!ledgerVars \/ L!Next)

\* A batch of which nothing was replayed.
LEMMA Unmoved == ASSUME Grown, Typed, state' = state PROVE Steps
BY DEF Steps, Typed, HasFields, L!ledgerVars

\* The operations, one by one.
LEMMA CreateSteps == ASSUME FileOK, Typed, NEW r \in Run, create_run(r) PROVE Steps
<1>1. RunCreated(r) \in Line
  BY DEF Line
<1>2. Grown /\ (state' = state \/ state' = apply_record(state, RunCreated(r)))
  BY <1>1, OneRecord DEF create_run
<1>3. CASE state' = apply_record(state, RunCreated(r))
  <2>1. Shows(state', state.tasks, state.latest_seq, state.heartbeats, state.receipts,
              state.alerts, state.runs \cup {r})
    BY <1>3, ReplayRun DEF Typed
  <2>2. L!create_run(r)
    BY <2>1 DEF L!create_run, Shows
  <2>3. L!Next
    BY <2>2 DEF L!Next, L!Manage
  <2> QED
    BY <1>2, <2>1, <2>3 DEF Steps, Shows, HasFields
<1> QED
  BY <1>2, <1>3, Unmoved

\* A task is enqueued.
LEMMA EnqueueSteps ==
  ASSUME FileOK, Typed, NEW t \in Task, RunOf[t] \in state.runs, enqueue(t) PROVE Steps
<1>1. TaskEnqueued(t, 0) \in Line
  BY DEF Line
<1>2. Grown /\ (state' = state \/ state' = apply_record(state, TaskEnqueued(t, 0)))
  BY <1>1, OneRecord DEF enqueue
<1>3. CASE state' = apply_record(state, TaskEnqueued(t, 0))
  <2>1. Shows(state', [state.tasks EXCEPT ![t].status = "Enqueued"], state.latest_seq, state.heartbeats,
              state.receipts, state.alerts, state.runs)
    BY <1>3, ReplayEnqueued DEF Typed, enqueue
  <2>2. L!enqueue(t)
    BY <2>1 DEF L!enqueue, Shows, enqueue
  <2>3. L!Next
    BY <2>2 DEF L!Next, L!Manage
  <2> QED
    BY <1>2, <2>1, <2>3 DEF Steps, Shows, HasFields
<1> QED
  BY <1>2, <1>3, Unmoved

\* A worker is heard of.
LEMMA HeartbeatSteps ==
  ASSUME FileOK, Typed, NEW w \in Worker, NEW ts \in L!Timestamp, heartbeat(w, ts) PROVE Steps
<1>1. Heartbeat(w, ts) \in Line
  BY LogAssumption DEF Line, L!Timestamp
<1>2. Grown /\ (state' = state \/ state' = apply_record(state, Heartbeat(w, ts)))
  BY <1>1, OneRecord DEF heartbeat
<1>3. CASE state' = apply_record(state, Heartbeat(w, ts))
  <2>1. Shows(state', state.tasks, state.latest_seq, [state.heartbeats EXCEPT ![w] = ts],
              state.receipts, state.alerts, state.runs)
    BY <1>3, ReplayHeartbeat DEF Typed
  <2>2. L!heartbeat(w, ts)
    BY <2>1 DEF L!heartbeat, L!HeartbeatAt, Shows
  <2>3. L!Next
    BY <2>2 DEF L!Next
  <2> QED
    BY <1>2, <2>1, <2>3 DEF Steps, Shows, HasFields
<1> QED
  BY <1>2, <1>3, Unmoved

\* A task is claimed.
LEMMA ClaimSteps ==
  ASSUME FileOK, Typed, NEW t \in Task, NEW w \in Worker, claim_next(t, w) PROVE Steps
<1>1. TaskLeased(t, w, 0) \in Line
  BY DEF Line
<1>2. Grown /\ (state' = state \/ state' = apply_record(state, TaskLeased(t, w, 0)))
  BY <1>1, OneRecord DEF claim_next
<1>3. CASE state' = apply_record(state, TaskLeased(t, w, 0))
  <2>1. Shows(state', [state.tasks EXCEPT ![t] = [status |-> "Leased", leased_to |-> w,
                                       attempts |-> state.tasks[t].attempts + 1, lease_deadline |-> 0]],
              state.latest_seq, state.heartbeats, state.receipts, state.alerts, state.runs)
    BY <1>3, ReplayLeased DEF Typed, claim_next
  <2>2. L!claim_next(t, w)
    BY <2>1 DEF L!claim_next, Shows, claim_next, L!TaskLeased, L!NoTime
  <2>3. L!Next
    BY <2>2 DEF L!Next, L!Work
  <2> QED
    BY <1>2, <2>1, <2>3 DEF Steps, Shows, HasFields
<1> QED
  BY <1>2, <1>3, Unmoved

\* Every payload of the operations is one that a line may carry.
LEMMA EventKinds == Terminal \subseteq Payload /\ Regressing \subseteq Payload /\ "Escalated" \in Payload
                    /\ Regressing \cap Terminal = {}
BY DEF Payload, Terminal, L!Terminal, Regressing

\* An event is a line.
LEMMA EventLine ==
  ASSUME NEW t \in Task, NEW w \in Worker, NEW q \in Nat, NEW p \in Payload
  PROVE  EventAppended(t, w, q, p) \in Line
BY DEF Line

\* What the next event of a stream changes, as replay reads it.
LEMMA ReplayEvent ==
  ASSUME NEW s, NEW t, NEW w, NEW q, NEW p
  PROVE  apply_record(s, EventAppended(t, w, q, p)) = apply_event(s, t, w, q, p)
<1> DEFINE rec == EventAppended(t, w, q, p)
<1>1. rec.kind = "EventAppended" /\ rec.task = t /\ rec.worker = w /\ rec.seq = q /\ rec.payload = p
  BY DEF EventAppended
<1> HIDE DEF rec
<1>2. apply_record(s, rec) = apply_event(s, t, w, q, p)
  BY <1>1 DEF apply_record
<1> QED
  BY <1>2 DEF rec

\* One event that ends nothing.
LEMMA OneEvent ==
  ASSUME FileOK, Typed, NEW t \in Task, NEW w \in Worker, NEW p \in Regressing,
         append_records_unlocked(<<EventAppended(t, w, NextSeq(t, w), p)>>)
  PROVE  Grown /\ (state' = state \/
           Shows(state', state.tasks, [state.latest_seq EXCEPT ![w][t] = @ + 1], state.heartbeats,
                 state.receipts, state.alerts, state.runs))
<1> DEFINE q == NextSeq(t, w)
<1>1. q = state.latest_seq[w][t] + 1 /\ state.latest_seq[w][t] \in Nat /\ q \in Nat
  BY DEF NextSeq, Typed
<1> HIDE DEF q
<1>2. EventAppended(t, w, q, p) \in Line
  BY <1>1, EventKinds DEF Line
<1>3. Grown /\ (state' = state \/ state' = apply_record(state, EventAppended(t, w, q, p)))
  BY <1>2, OneRecord DEF q
<1>4. CASE state' = apply_record(state, EventAppended(t, w, q, p))
  <2>1. p \notin Terminal /\ q > state.latest_seq[w][t]
    BY <1>1, EventKinds
  <2>2. Shows(state', state.tasks, [state.latest_seq EXCEPT ![w][t] = q], state.heartbeats,
                 state.receipts, state.alerts, state.runs)
    <3>1. state' = apply_event(state, t, w, q, p)
      BY <1>4, ReplayEvent
    <3> QED
      BY <2>1, <3>1, EventRecorded DEF Typed
  <2> QED
    BY <1>1, <1>3, <2>2
<1> QED
  BY <1>3, <1>4

\* A worker reports.
LEMMA AppendSteps ==
  ASSUME FileOK, Typed, NEW t \in Task, NEW w \in Worker, NEW n \in 1 .. MaxLeases,
         append_event_if_leased(t, w, n)
  PROVE  Steps
<1>1. Grown /\ (state' = state \/
           Shows(state', state.tasks, [state.latest_seq EXCEPT ![w][t] = @ + 1], state.heartbeats,
                 state.receipts, state.alerts, state.runs))
  BY OneEvent DEF append_event_if_leased, Regressing
<1>2. CASE state' # state
  <2>1. L!append_event_if_leased(t, w, n)
    BY <1>1, <1>2 DEF append_event_if_leased, L!append_event_if_leased, L!EventsAppended, Room, Shows
  <2>2. L!Next
    BY <2>1 DEF L!Next, L!Work
  <2> QED
    BY <1>1, <1>2, <2>2 DEF Steps, Shows, HasFields
<1> QED
  BY <1>1, <1>2, Unmoved

\* The version that recovery passes lies within the bounds.
LEMMA VersionBounded ==
  ASSUME Typed, NEW t \in Task, NEW w \in Worker, state.tasks[t].leased_to = w
  PROVE  /\ state.tasks[t].attempts \in 1 .. MaxLeases
         /\ state.latest_seq[w][t] \in 0 .. MaxSeq
         /\ state.heartbeats[w] \in 0 .. MaxTime
         /\ state.tasks[t].status \notin {"Absent", "Enqueued"}
<1>1. state.latest_seq[w][t] \in Nat /\ state.latest_seq[w][t] <= MaxSeq /\ MaxSeq \in Nat
  BY LogAssumption DEF Typed
<1> QED
  BY <1>1, LogAssumption DEF Typed

\* The scheduler finds a worker silent.
LEMMA StaleSteps ==
  ASSUME FileOK, Typed, NEW t \in Task, NEW w \in Worker, NEW n, NEW s, NEW h,
         append_event_if_lease_unchanged(t, w, n, s, h)
  PROVE  Steps
<1>1. Grown /\ (state' = state \/
           Shows(state', state.tasks, [state.latest_seq EXCEPT ![w][t] = @ + 1], state.heartbeats,
                 state.receipts, state.alerts, state.runs))
  BY OneEvent DEF append_event_if_lease_unchanged, Regressing
<1>2. CASE state' # state
  <2>1. L!append_event_if_lease_unchanged(t, w, n, s, h)
    BY <1>1, <1>2 DEF append_event_if_lease_unchanged, L!append_event_if_lease_unchanged, L!EventsAppended, Room, Shows
  <2>2. n \in 1 .. MaxLeases /\ s \in 0 .. MaxSeq /\ h \in 0 .. MaxTime
    BY VersionBounded DEF append_event_if_lease_unchanged, L!LeaseUnchanged, L!VersionUnchanged
  <2>3. L!Recover(t, w)
    BY <2>1, <2>2 DEF L!Recover
  <2>4. L!Next
    BY <2>3 DEF L!Next
  <2> QED
    BY <1>1, <1>2, <2>4 DEF Steps, Shows, HasFields
<1> QED
  BY <1>1, <1>2, Unmoved

\* The scheduler gives a task up.
LEMMA FailSteps ==
  ASSUME FileOK, Typed, NEW t \in Task, NEW w \in Worker, NEW n, NEW s, NEW h,
         append_terminal_event_if_lease_unchanged(t, w, n, s, h, "Failed")
  PROVE  Steps
<1> DEFINE q == NextSeq(t, w)
<1>1. q = state.latest_seq[w][t] + 1 /\ state.latest_seq[w][t] \in Nat /\ q \in Nat /\ "Failed" \in Terminal
  BY DEF NextSeq, Typed, Terminal, L!Terminal
<1> HIDE DEF q
<1>2. EventAppended(t, w, q, "Failed") \in Line
  BY <1>1, EventKinds DEF Line
<1>3. Grown /\ (state' = state \/ state' = apply_record(state, EventAppended(t, w, q, "Failed")))
  BY <1>2, OneRecord DEF q, append_terminal_event_if_lease_unchanged
<1>4. /\ L!LeaseUnchanged(t, w, n, s, h) /\ Room(t, w, 1)
      /\ state.tasks[t].leased_to = w /\ state.tasks[t].status = "Leased"
  BY DEF append_terminal_event_if_lease_unchanged, L!LeaseUnchanged, L!VersionUnchanged, L!IsLeased
<1>5. CASE state' = apply_record(state, EventAppended(t, w, q, "Failed"))
  <2>1. Shows(state', [state.tasks EXCEPT ![t].status = "Failed"], [state.latest_seq EXCEPT ![w][t] = q],
              state.heartbeats, state.receipts, state.alerts, state.runs)
    <3>1. state' = apply_event(state, t, w, q, "Failed")
      BY <1>5, ReplayEvent
    <3>2. q > state.latest_seq[w][t] /\ HasFields(state) /\ state.tasks \in [Task -> L!TaskState]
      BY <1>1 DEF Typed
    <3> QED
      BY <1>1, <1>4, <3>1, <3>2, TerminalRecorded
  <2>2. L!append_terminal_event_if_lease_unchanged(t, w, n, s, h, "Failed")
    BY <1>1, <1>4, <2>1 DEF L!append_terminal_event_if_lease_unchanged, L!EventsAppended, L!mark_task_terminal, Room, Shows
  <2>3. n \in 1 .. MaxLeases /\ s \in 0 .. MaxSeq /\ h \in 0 .. MaxTime
    BY <1>4, VersionBounded DEF L!LeaseUnchanged, L!VersionUnchanged
  <2>4. L!Recover(t, w)
    BY <2>2, <2>3 DEF L!Recover
  <2>5. L!Next
    BY <2>4 DEF L!Next
  <2> QED
    BY <1>3, <2>1, <2>5 DEF Steps, Shows, HasFields
<1> QED
  BY <1>3, <1>5, Unmoved

\* A worker ends its attempt.
LEMMA FinalizeSteps ==
  ASSUME FileOK, Typed, NEW t \in Task, NEW w \in Worker, NEW n \in 1 .. MaxLeases,
         NEW p \in Terminal, NEW f \in Terminal \cup {L!NoStatus}, NEW res \in Result,
         finalize_task_attempt_if_leased(t, w, n, p, f, res)
  PROVE  Steps
<1> DEFINE q == NextSeq(t, w)
           rc == [worker_id |-> w, attempt |-> n, terminal_seq |-> q, result |-> res]
           rec == TaskAttemptFinalized(t, w, q, p, f, rc)
<1>1. q = state.latest_seq[w][t] + 1 /\ state.latest_seq[w][t] \in Nat /\ q \in Nat
  BY DEF NextSeq, Typed
<1>2. rec \in Line
  <2>1. rc \in L!Receipt /\ q \in Nat
    BY <1>1 DEF L!Receipt
  <2> HIDE DEF rc, q
  <2> QED
    BY <2>1 DEF Line
<1>3. Grown /\ (state' = state \/ state' = apply_record(state, rec))
  BY <1>2, OneRecord DEF finalize_task_attempt_if_leased
<1>4. /\ L!OwnsAttempt(t, w, n) /\ Room(t, w, 1)
      /\ state.tasks[t].leased_to = w /\ state.tasks[t].status = "Leased"
  BY DEF finalize_task_attempt_if_leased, L!OwnsAttempt, L!IsLeased
<1>5. CASE state' = apply_record(state, rec)
  <2>1. Shows(state', [state.tasks EXCEPT ![t].status = IF f = L!NoStatus THEN p ELSE f],
              [state.latest_seq EXCEPT ![w][t] = q],
              state.heartbeats, [state.receipts EXCEPT ![t] = rc], state.alerts, state.runs)
    <3>1. q > state.latest_seq[w][t]
      BY <1>1
    <3> HIDE DEF rc, q
    <3> QED
      BY <1>4, <1>5, <3>1, FinalShows DEF Typed
  <2>2. L!finalize_task_attempt_if_leased(t, w, n, p, f, res)
    BY <1>1, <1>4, <2>1 DEF L!finalize_task_attempt_if_leased, L!EventsAppended, L!mark_task_terminal, Room, Shows
  <2>3. L!Work(t, w)
    BY <2>2 DEF L!Work, Terminal
  <2>5. L!Next
    BY <2>3 DEF L!Next
  <2> HIDE DEF rec
  <2> QED
    BY <1>3, <2>1, <2>5 DEF Steps, Shows, HasFields
<1> QED
  BY <1>3, <1>5, Unmoved

\* The scheduler alerts the operator.
LEMMA AlertSteps ==
  ASSUME FileOK, Typed, NEW t \in Task, NEW w \in Worker, NEW n, NEW c \in Channel,
         record_failed_attempt_alert_once(t, w, n, c)
  PROVE  Steps
<1> DEFINE q == NextSeq(t, w)
           rec == AlertSent(t, w, n, c, q)
<1>1. q = state.latest_seq[w][t] + 1 /\ state.latest_seq[w][t] \in Nat /\ q \in Nat
  BY DEF NextSeq, Typed
<1> HIDE DEF q
<1>2. /\ L!CanAlert(t, w, n, c) /\ Room(t, w, 1) /\ n \in 1 .. MaxLeases
      /\ <<t, n, c>> \notin state.alerts
  BY VersionBounded DEF record_failed_attempt_alert_once, L!CanAlert
<1>3. rec \in Line
  BY <1>1, <1>2 DEF Line
<1>4. Grown /\ (state' = state \/ state' = apply_record(state, rec))
  BY <1>3, OneRecord DEF record_failed_attempt_alert_once, q
<1>5. CASE state' = apply_record(state, rec)
  <2>1. Shows(state', state.tasks, [state.latest_seq EXCEPT ![w][t] = q], state.heartbeats,
              state.receipts, state.alerts \cup {<<t, n, c>>}, state.runs)
    <3>1. q > state.latest_seq[w][t]
      BY <1>1
    <3> QED
      BY <1>2, <1>5, <3>1, AlertShows DEF Typed
  <2>2. L!record_failed_attempt_alert_once(t, w, n, c)
    BY <1>1, <1>2, <2>1 DEF L!record_failed_attempt_alert_once, L!EventsAppended, Room, Shows
  <2>3. L!Recover(t, w)
    BY <1>2, <2>2 DEF L!Recover
  <2>5. L!Next
    BY <2>3 DEF L!Next
  <2> HIDE DEF rec
  <2> QED
    BY <1>4, <2>1, <2>5 DEF Steps, Shows, HasFields
<1> QED
  BY <1>4, <1>5, Unmoved

\* One event more that ends nothing.
LEMMA NextEvent ==
  ASSUME NEW s, NEW ts, NEW qs \in [Worker -> [Task -> Nat]], NEW hs, NEW rcs, NEW as, NEW rs,
         Shows(s, ts, qs, hs, rcs, as, rs),
         NEW t \in Task, NEW w \in Worker, NEW n \in Nat, n + 1 > qs[w][t], NEW p \in Regressing
  PROVE  Shows(apply_record(s, EventAppended(t, w, n + 1, p)), ts, [qs EXCEPT ![w][t] = n + 1],
               hs, rcs, as, rs)
<1>1. p \notin Terminal
  BY EventKinds
<1>2. HasFields(s) /\ n + 1 > s.latest_seq[w][t]
  BY DEF Shows
<1>3. Shows(apply_event(s, t, w, n + 1, p), s.tasks, [s.latest_seq EXCEPT ![w][t] = n + 1], s.heartbeats,
            s.receipts, s.alerts, s.runs)
  BY <1>1, <1>2, EventRecorded
<1>4. apply_record(s, EventAppended(t, w, n + 1, p)) = apply_event(s, t, w, n + 1, p)
  BY ReplayEvent
<1>5. /\ s.tasks = ts /\ s.latest_seq = qs /\ s.heartbeats = hs
      /\ s.receipts = rcs /\ s.alerts = as /\ s.runs = rs
  BY DEF Shows
<1> QED
  BY <1>3, <1>4, <1>5

\* A batch leaves the file replaying to the state after some of its records.
LEMMA Batch ==
  ASSUME FileOK, NEW recs \in Seq(Line), append_records_unlocked(recs)
  PROVE  /\ Grown /\ After(file, recs, 0) = state
         /\ \E k \in 0 .. Len(recs) : state' = After(file, recs, k)
         /\ \A k \in 0 .. Len(recs) : k + 1 <= Len(recs) =>
              After(file, recs, k + 1) = apply_record(After(file, recs, k), recs[k + 1])
<1>1. Len(recs) \in Nat
  BY LenProperties
<1>2. ASSUME NEW k \in 0 .. Len(recs), k + 1 <= Len(recs)
      PROVE  After(file, recs, k + 1) = apply_record(After(file, recs, k), recs[k + 1])
  <2>1. k + 1 \in 1 .. Len(recs) /\ (k + 1) - 1 = k
    BY <1>1, <1>2
  <2> QED
    BY <2>1, AfterStep DEF FileOK
<1> QED
  BY <1>2, AppendLeaves, AfterStep DEF FileOK

\* A task is cancelled: with two events when a worker holds it, with one mark when none does.
LEMMA CancelSteps ==
  ASSUME FileOK, Typed, NEW t \in Task, NEW e \in Worker \cup {NoWorker}, cancel_task_if_active(t, e)
  PROVE  Steps
<1> PICK w : w = state.tasks[t].leased_to
  OBVIOUS
<1> PICK q : q = state.latest_seq[w][t]
  OBVIOUS
<1>1. /\ w \in Worker \cup {NoWorker} /\ state.tasks[t].status \in {"Enqueued", "Leased"}
      /\ e # NoWorker => L!IsLeased(t) /\ w = e
      /\ \/ /\ w # NoWorker /\ Room(t, w, 2)
            /\ append_records_unlocked(
                 <<EventAppended(t, w, NextSeq(t, w), "Interrupted"),
                   EventAppended(t, w, NextSeq(t, w) + 1, "Cancelled")>>)
         \/ /\ w = NoWorker
            /\ append_records_unlocked(<<TaskCompletedOrFailed(t, NoWorker, "Cancelled")>>)
  BY DEF cancel_task_if_active, Typed, L!TaskState
<1>2. ASSUME NEW k \in 1 .. 2, L!cancel_task_if_active(t, e, k) PROVE L!Next
  <2>1. L!Manage
    BY <1>2 DEF L!Manage
  <2> QED
    BY <2>1 DEF L!Next
<1>3. "Cancelled" \in Terminal /\ "Cancelled" \in Payload /\ "Interrupted" \in Regressing /\ "Interrupted" \in Payload
  BY EventKinds DEF Terminal, L!Terminal, Regressing
<1>4. CASE w = NoWorker
  <2> DEFINE rec == TaskCompletedOrFailed(t, NoWorker, "Cancelled")
  <2>1. rec \in Line
    BY <1>3 DEF Line
  <2>2. append_records_unlocked(<<rec>>)
    BY <1>1, <1>4
  <2>3. Grown /\ (state' = state \/ state' = apply_record(state, rec))
    BY <2>1, <2>2, OneRecord
  <2>4. CASE state' = apply_record(state, rec)
    <3>1. apply_record(state, rec) = mark_task_terminal(state, t, NoWorker, "Cancelled")
      <4>1. rec.kind = "TaskCompletedOrFailed" /\ rec.task = t /\ rec.worker = NoWorker /\ rec.status = "Cancelled"
        BY DEF TaskCompletedOrFailed
      <4> HIDE DEF rec
      <4> QED
        BY <4>1 DEF apply_record
    <3>2. Shows(state', [state.tasks EXCEPT ![t].status = "Cancelled"], state.latest_seq, state.heartbeats,
                state.receipts, state.alerts, state.runs)
      BY <1>1, <2>4, <3>1, MarkShows DEF Typed
    <3>3. L!cancel_task_if_active(t, e, 1)
      BY <1>1, <1>4, <3>2 DEF L!cancel_task_if_active, L!mark_task_terminal, Shows
    <3>4. L!Next
      BY <1>2, <3>3
    <3> QED
      BY <2>3, <3>2, <3>4 DEF Steps, Shows, HasFields
  <2> QED
    BY <2>3, <2>4, Unmoved
<1>5. CASE w # NoWorker
  <2> DEFINE a == EventAppended(t, w, q + 1, "Interrupted")
             b == EventAppended(t, w, q + 2, "Cancelled")
  <2>1. w \in Worker /\ q \in Nat /\ NextSeq(t, w) = q + 1 /\ (q + 1) + 1 = q + 2
    <3>1. w \in Worker
      BY <1>1, <1>5
    <3>2. q \in Nat
      BY <3>1 DEF Typed
    <3> QED
      BY <3>1, <3>2 DEF NextSeq
  <2>2. a \in Line /\ b \in Line
    BY <1>3, <2>1, EventLine
  <2>3. append_records_unlocked(<<a, b>>) /\ q + 2 <= MaxSeq
    BY <1>1, <1>5, <2>1 DEF Room
  <2> DEFINE s1 == After(file, <<a, b>>, 1)
             s2 == After(file, <<a, b>>, 2)
  <2>4. Grown /\ state' \in {state, s1, s2} /\ s1 = apply_record(state, a) /\ s2 = apply_record(s1, b)
    <3> HIDE DEF a, b
    <3>1. <<a, b>> \in Seq(Line) /\ Len(<<a, b>>) = 2 /\ <<a, b>>[1] = a /\ <<a, b>>[2] = b
      BY <2>2
    <3>2. /\ Grown /\ After(file, <<a, b>>, 0) = state
          /\ \E k \in 0 .. 2 : state' = After(file, <<a, b>>, k)
          /\ \A k \in 0 .. 2 : k + 1 <= 2 =>
               After(file, <<a, b>>, k + 1) = apply_record(After(file, <<a, b>>, k), <<a, b>>[k + 1])
      BY <2>3, <3>1, Batch
    <3>3. s1 = apply_record(state, a)
      BY <3>1, <3>2
    <3>4. s2 = apply_record(s1, b)
      BY <3>1, <3>2
    <3> QED
      BY <3>2, <3>3, <3>4
  <2> HIDE DEF s1, s2
  <2>5. Shows(s1, state.tasks, [state.latest_seq EXCEPT ![w][t] = q + 1], state.heartbeats, state.receipts,
              state.alerts, state.runs)
    <3>1. Shows(state, state.tasks, state.latest_seq, state.heartbeats, state.receipts, state.alerts, state.runs)
      BY DEF Shows, Typed
    <3>2. state.latest_seq \in [Worker -> [Task -> Nat]] /\ q + 1 > q /\ q = state.latest_seq[w][t]
      BY <2>1 DEF Typed
    <3> QED
      BY <1>3, <2>1, <2>4, <3>1, <3>2, NextEvent
  <2>6. Shows(s2, [state.tasks EXCEPT ![t].status = "Cancelled"], [state.latest_seq EXCEPT ![w][t] = q + 2],
              state.heartbeats, state.receipts, state.alerts, state.runs)
    <3>1. Shows(apply_event(s1, t, w, q + 2, "Cancelled"), [s1.tasks EXCEPT ![t].status = "Cancelled"],
                [s1.latest_seq EXCEPT ![w][t] = q + 2], s1.heartbeats, s1.receipts, s1.alerts, s1.runs)
      <4>1. s1.latest_seq[w][t] = q + 1
        BY <2>1, <2>5 DEF Shows, Typed
      <4>2. q + 2 > s1.latest_seq[w][t]
        BY <2>1, <4>1
      <4>3. HasFields(s1) /\ s1.tasks = state.tasks
        BY <2>5 DEF Shows
      <4> QED
        BY <1>1, <1>3, <4>2, <4>3, TerminalRecorded DEF Typed
    <3>2. [s1.latest_seq EXCEPT ![w][t] = q + 2] = [state.latest_seq EXCEPT ![w][t] = q + 2]
      <4> DEFINE f == state.latest_seq  g == s1.latest_seq  x == q + 1  y == q + 2
      <4>1. g = [f EXCEPT ![w][t] = x]
        BY <2>5 DEF Shows
      <4>2. f \in [Worker -> [Task -> Nat]]
        BY DEF Typed
      <4> HIDE DEF f, g, x, y
      <4>3. [g EXCEPT ![w][t] = y] = [f EXCEPT ![w][t] = y]
        <5>1. g[w] = [f[w] EXCEPT ![t] = x] /\ [g[w] EXCEPT ![t] = y] = [f[w] EXCEPT ![t] = y]
          BY <2>1, <4>1, <4>2
        <5>2. [g EXCEPT ![w] = [f[w] EXCEPT ![t] = y]] = [f EXCEPT ![w] = [f[w] EXCEPT ![t] = y]]
          BY <2>1, <4>1, <4>2
        <5> QED
          BY <5>1, <5>2
      <4> QED
        BY <4>3 DEF f, g, y
    <3>3. s2 = apply_event(s1, t, w, q + 2, "Cancelled")
      <4>1. s2 = apply_record(s1, EventAppended(t, w, q + 2, "Cancelled"))
        BY <2>4
      <4> QED
        BY <4>1, ReplayEvent
    <3>4. /\ s1.tasks = state.tasks /\ s1.heartbeats = state.heartbeats
          /\ s1.receipts = state.receipts /\ s1.alerts = state.alerts /\ s1.runs = state.runs
      BY <2>5 DEF Shows
    <3> QED
      BY <3>1, <3>2, <3>3, <3>4
  <2>7. CASE state' = s1
    <3>1. Shows(state', state.tasks, [state.latest_seq EXCEPT ![w][t] = @ + 1], state.heartbeats,
                state.receipts, state.alerts, state.runs)
      BY <2>5, <2>7
    <3>2. L!EventsAppended(t, w, 1) /\ UNCHANGED state.tasks
      <4>1. q + 1 <= MaxSeq
        BY <2>1, <2>3, LogAssumption
      <4> QED
        BY <2>1, <3>1, <4>1 DEF L!EventsAppended, Shows
    <3>3. UNCHANGED <<state.heartbeats, state.receipts, state.alerts, state.runs>>
      BY <3>1 DEF Shows
    <3>4. L!cancel_task_if_active(t, e, 1)
      BY <1>1, <1>5, <3>2, <3>3 DEF L!cancel_task_if_active
    <3>5. L!Next
      BY <1>2, <3>4
    <3> QED
      BY <2>4, <3>1, <3>5 DEF Steps, Shows, HasFields
  <2>8. CASE state' = s2
    <3>1. Shows(state', [state.tasks EXCEPT ![t].status = "Cancelled"],
                [state.latest_seq EXCEPT ![w][t] = @ + 2], state.heartbeats,
                state.receipts, state.alerts, state.runs)
      BY <2>6, <2>8
    <3>2. L!EventsAppended(t, w, 2) /\ L!mark_task_terminal(t, "Cancelled")
      BY <2>1, <2>3, <3>1 DEF L!EventsAppended, L!mark_task_terminal, Shows
    <3>3. UNCHANGED <<state.heartbeats, state.receipts, state.alerts, state.runs>>
      BY <3>1 DEF Shows
    <3>4. L!cancel_task_if_active(t, e, 2)
      BY <1>1, <1>5, <3>2, <3>3 DEF L!cancel_task_if_active
    <3>5. L!Next
      BY <1>2, <3>4
    <3> QED
      BY <2>4, <3>1, <3>5 DEF Steps, Shows, HasFields
  <2> QED
    BY <2>4, <2>7, <2>8, Unmoved
<1> QED
  BY <1>4, <1>5

\* One cell of a table of tables is set: a sequence number, or an event.
Put(f, a, b, x) == [f EXCEPT ![a][b] = x]

\* The later number is the one that stays.
LEMMA NumberedTwice ==
  ASSUME NEW qs \in [Worker -> [Task -> Nat]], NEW w \in Worker, NEW t \in Task, NEW m \in Nat, NEW n \in Nat
  PROVE  Put(Put(qs, w, t, m), w, t, n) = Put(qs, w, t, n)
<1> DEFINE f == Put(qs, w, t, m)
<1>1. f[w] = [qs[w] EXCEPT ![t] = m] /\ [f[w] EXCEPT ![t] = n] = [qs[w] EXCEPT ![t] = n]
  BY DEF Put
<1>2. [f EXCEPT ![w] = [qs[w] EXCEPT ![t] = n]] = [qs EXCEPT ![w] = [qs[w] EXCEPT ![t] = n]]
  BY DEF Put
<1>3. f = [qs EXCEPT ![w] = [qs[w] EXCEPT ![t] = m]]
  BY DEF Put
<1> HIDE DEF f
<1>4. [f EXCEPT ![w][t] = n] = [qs EXCEPT ![w][t] = n]
  BY <1>1, <1>2
<1> QED
  BY <1>4 DEF Put, f

\* Numbering keeps the shape, sets the number, and is idle when the number is the old one.
LEMMA NumberedOnce ==
  ASSUME NEW qs \in [Worker -> [Task -> Nat]], NEW w \in Worker, NEW t \in Task, NEW n \in Nat
  PROVE  /\ Put(qs, w, t, n) \in [Worker -> [Task -> Nat]]
         /\ Put(qs, w, t, n)[w][t] = n
         /\ Put(qs, w, t, qs[w][t]) = qs
BY DEF Put

\* One event more, numbered in sequence.
LEMMA EventAfter ==
  ASSUME NEW s, NEW ts, NEW qs \in [Worker -> [Task -> Nat]], NEW hs, NEW rcs, NEW as, NEW rs,
         NEW t \in Task, NEW w \in Worker, NEW n \in Nat, NEW p \in Regressing,
         Shows(s, ts, Put(qs, w, t, n), hs, rcs, as, rs)
  PROVE  Shows(apply_record(s, EventAppended(t, w, n + 1, p)), ts, Put(qs, w, t, n + 1), hs, rcs, as, rs)
<1> DEFINE f == Put(qs, w, t, n)
<1>1. f \in [Worker -> [Task -> Nat]] /\ n + 1 > f[w][t] /\ n + 1 \in Nat
  BY NumberedOnce
<1>2. Put(f, w, t, n + 1) = Put(qs, w, t, n + 1)
  BY <1>1, NumberedTwice
<1> HIDE DEF f
<1>3. Shows(s, ts, f, hs, rcs, as, rs)
  BY DEF f
<1>4. Shows(apply_record(s, EventAppended(t, w, n + 1, p)), ts, [f EXCEPT ![w][t] = n + 1], hs, rcs, as, rs)
  BY <1>1, <1>3, NextEvent
<1>5. [f EXCEPT ![w][t] = n + 1] = Put(qs, w, t, n + 1)
  BY <1>2 DEF Put
<1> QED
  BY <1>4, <1>5

\* A heartbeat.
LEMMA BeatAfter ==
  ASSUME NEW s, NEW ts, NEW qs, NEW hs, NEW rcs, NEW as, NEW rs, NEW w, NEW b,
         Shows(s, ts, qs, hs, rcs, as, rs)
  PROVE  Shows(apply_record(s, Heartbeat(w, b)), ts, qs, [hs EXCEPT ![w] = b], rcs, as, rs)
<1>1. /\ HasFields(s) /\ s.tasks = ts /\ s.latest_seq = qs /\ s.heartbeats = hs
      /\ s.receipts = rcs /\ s.alerts = as /\ s.runs = rs
  BY DEF Shows
<1>2. Shows(apply_record(s, Heartbeat(w, b)), s.tasks, s.latest_seq, [s.heartbeats EXCEPT ![w] = b],
            s.receipts, s.alerts, s.runs)
  BY <1>1, ReplayHeartbeat
<1> QED
  BY <1>1, <1>2

\* The effect of n events on the sequence numbers, as the ledger states it.
LEMMA NumberedAppended ==
  ASSUME Typed, NEW t \in Task, NEW w \in Worker, NEW n \in Nat,
         state.latest_seq[w][t] + n <= MaxSeq,
         (state.latest_seq)' = Put(state.latest_seq, w, t, state.latest_seq[w][t] + n)
  PROVE  L!EventsAppended(t, w, n)
BY DEF L!EventsAppended, Put

\* A lease is restarted: four records, of which a prefix may be written.
LEMMA RestartSteps ==
  ASSUME FileOK, Typed, NEW t \in Task, NEW w \in Worker, NEW n, NEW s, NEW h,
         NEW d \in 0 .. MaxTime, NEW b \in L!Timestamp,
         restart_task_if_unchanged(t, w, state.tasks[t].status, n, s, h, d, b)
  PROVE  Steps
<1> PICK q : q = state.latest_seq[w][t]
  OBVIOUS
<1> PICK st : st = state.tasks[t].status
  OBVIOUS
<1> DEFINE r1 == TaskLeased(t, w, d)
           r2 == EventAppended(t, w, q + 1, "Restarted")
           r3 == EventAppended(t, w, q + 2, "Progress")
           r4 == Heartbeat(w, b)
           recs == <<r1, r2, r3, r4>>
           leased == [state.tasks EXCEPT ![t] = [status |-> "Leased", leased_to |-> w,
                        attempts |-> state.tasks[t].attempts + 1, lease_deadline |-> d]]
           S(k) == After(file, recs, k)
           Q(k) == Put(state.latest_seq, w, t, q + k)
<1>1. /\ L!CanRestart(t, w, st, n, s, h) /\ state.tasks[t].leased_to = w
      /\ state.tasks[t].attempts < MaxLeases
      /\ st \in L!TaskStatus
  BY DEF restart_task_if_unchanged, L!CanRestart, L!VersionUnchanged, Typed, L!TaskState
<1>2. q \in Nat /\ NextSeq(t, w) = q + 1 /\ (q + 1) + 1 = q + 2 /\ q + 2 <= MaxSeq /\ MaxSeq \in Nat
  <2>1. q \in Nat /\ NextSeq(t, w) = q + 1 /\ Room(t, w, 2)
    BY DEF Typed, NextSeq, restart_task_if_unchanged
  <2> QED
    BY <2>1, LogAssumption DEF Room
<1>3. /\ n \in 1 .. MaxLeases /\ s \in 0 .. MaxSeq /\ h \in 0 .. MaxTime
      /\ st # "Absent"
  BY <1>1, VersionBounded DEF L!CanRestart, L!VersionUnchanged
<1>4. append_records_unlocked(recs)
  BY <1>2 DEF restart_task_if_unchanged
<1>5. r1 \in Line /\ r2 \in Line /\ r3 \in Line /\ r4 \in Line
  <2>1. r1 \in Line /\ r4 \in Line
    BY LogAssumption DEF Line, L!Timestamp
  <2>2. q + 1 \in Nat /\ q + 2 \in Nat /\ "Restarted" \in Payload /\ "Progress" \in Payload
    BY <1>2, EventKinds DEF Regressing
  <2> QED
    BY <2>1, <2>2, EventLine
<1>6. /\ Grown /\ state' \in {state, S(1), S(2), S(3), S(4)}
      /\ S(1) = apply_record(state, r1) /\ S(2) = apply_record(S(1), r2)
      /\ S(3) = apply_record(S(2), r3) /\ S(4) = apply_record(S(3), r4)
  <2> HIDE DEF r1, r2, r3, r4
  <2>1. /\ recs \in Seq(Line) /\ Len(recs) = 4
        /\ recs[1] = r1 /\ recs[2] = r2 /\ recs[3] = r3 /\ recs[4] = r4
    BY <1>5
  <2> HIDE DEF recs
  <2>2. /\ Grown /\ S(0) = state
        /\ \E k \in 0 .. 4 : state' = S(k)
        /\ \A k \in 0 .. 4 : k + 1 <= 4 => S(k + 1) = apply_record(S(k), recs[k + 1])
    BY <1>4, <2>1, Batch
  <2>3. S(0 + 1) = apply_record(S(0), recs[0 + 1]) /\ S(1 + 1) = apply_record(S(1), recs[1 + 1])
        /\ S(2 + 1) = apply_record(S(2), recs[2 + 1]) /\ S(3 + 1) = apply_record(S(3), recs[3 + 1])
    <3> HIDE DEF S
    <3> QED
      BY <2>2
  <2> HIDE DEF S
  <2> QED
    BY <2>1, <2>2, <2>3
<1> HIDE DEF S
<1>7. Shows(S(1), leased, Q(0), state.heartbeats, state.receipts, state.alerts, state.runs)
  <2>1. Shows(S(1), leased, state.latest_seq, state.heartbeats, state.receipts, state.alerts, state.runs)
    BY <1>3, <1>6, ReplayLeased DEF Typed
  <2>2. Q(0) = state.latest_seq
    <3>1. q + 0 = state.latest_seq[w][t]
      BY <1>2
    <3> QED
      BY <3>1, NumberedOnce DEF Typed
  <2> QED
    BY <2>1, <2>2
<1>8. state.latest_seq \in [Worker -> [Task -> Nat]] /\ "Restarted" \in Regressing /\ "Progress" \in Regressing
  BY DEF Typed, Regressing
<1>9. Shows(S(2), leased, Q(1), state.heartbeats, state.receipts, state.alerts, state.runs)
  <2>1. q + 0 = q /\ q + 0 + 1 = q + 1
    BY <1>2
  <2> HIDE DEF leased
  <2> QED
    BY <1>2, <1>6, <1>7, <1>8, <2>1, EventAfter
<1>10. Shows(S(3), leased, Q(2), state.heartbeats, state.receipts, state.alerts, state.runs)
  <2>1. q + 1 \in Nat /\ q + 1 + 1 = q + 2
    BY <1>2
  <2> HIDE DEF leased
  <2> QED
    BY <1>2, <1>6, <1>8, <1>9, <2>1, EventAfter
<1>11. Shows(S(4), leased, Q(2), [state.heartbeats EXCEPT ![w] = b], state.receipts, state.alerts, state.runs)
  <2> HIDE DEF leased
  <2> QED
    BY <1>6, <1>10, BeatAfter
<1> HIDE DEF recs, r1, r2, r3, r4
<1>12. ASSUME NEW k \in 1 .. 4, NEW hs,
              Shows(state', leased, Q(IF k < 3 THEN k - 1 ELSE 2), hs, state.receipts, state.alerts, state.runs),
              hs = IF k = 4 THEN [state.heartbeats EXCEPT ![w] = b] ELSE state.heartbeats
       PROVE  Steps
  <2>1. L!TaskLeased(t, w, d)
    BY <1>1, <1>12 DEF L!TaskLeased, Shows
  <2>2. L!EventsAppended(t, w, IF k < 3 THEN k - 1 ELSE 2)
    <3> PICK j : j = IF k < 3 THEN k - 1 ELSE 2
      OBVIOUS
    <3>1. j \in Nat /\ q + j <= MaxSeq
      BY <1>2
    <3>2. (state.latest_seq)' = Put(state.latest_seq, w, t, q + j)
      BY <1>12 DEF Shows
    <3>3. L!EventsAppended(t, w, j)
      BY <3>1, <3>2, NumberedAppended
    <3> QED
      BY <3>3
  <2>3. IF k = 4 THEN L!HeartbeatAt(w, b) ELSE UNCHANGED state.heartbeats
    BY <1>12 DEF L!HeartbeatAt, Shows
  <2>4. UNCHANGED <<state.receipts, state.alerts, state.runs>>
    BY <1>12 DEF Shows
  <2>5. L!restart_task_if_unchanged(t, w, st, n, s, h, d, b, k)
    BY <1>1, <2>1, <2>2, <2>3, <2>4 DEF L!restart_task_if_unchanged
  <2>6. L!Recover(t, w)
    BY <1>1, <1>3, <2>5 DEF L!Recover
  <2>7. L!Next
    BY <2>6 DEF L!Next
  <2> QED
    BY <1>6, <1>12, <2>7 DEF Steps, Shows, HasFields
<1> HIDE DEF leased
<1>13. CASE state' = S(1)
  BY <1>7, <1>12, <1>13
<1>14. CASE state' = S(2)
  BY <1>9, <1>12, <1>14
<1>15. CASE state' = S(3)
  BY <1>10, <1>12, <1>15
<1>16. CASE state' = S(4)
  BY <1>11, <1>12, <1>16
<1> QED
  BY <1>6, <1>13, <1>14, <1>15, <1>16, Unmoved

\* The initial events of a lease, one by one (least number for which it fails).
LEMMA EventsAfter ==
  ASSUME NEW S, NEW ts, NEW qs \in [Worker -> [Task -> Nat]], NEW hs, NEW rcs, NEW as, NEW rs,
         NEW t \in Task, NEW w \in Worker, NEW n \in Nat, NEW N \in Nat,
         Shows(S[0], ts, Put(qs, w, t, n), hs, rcs, as, rs),
         \A i \in 1 .. N : S[i] = apply_record(S[i - 1], EventAppended(t, w, n + i, "Progress"))
  PROVE  \A i \in 0 .. N : Shows(S[i], ts, Put(qs, w, t, n + i), hs, rcs, as, rs)
<1> DEFINE shown == [i \in 0 .. N |-> IF Shows(S[i], ts, Put(qs, w, t, n + i), hs, rcs, as, rs)
                                      THEN 1 ELSE 0]
           Bad == {i \in 0 .. N : shown[i] = 0}
<1>0. ASSUME NEW i \in 0 .. N
      PROVE  shown[i] # 0 <=> Shows(S[i], ts, Put(qs, w, t, n + i), hs, rcs, as, rs)
  <2>1. shown[i] = IF Shows(S[i], ts, Put(qs, w, t, n + i), hs, rcs, as, rs) THEN 1 ELSE 0
    BY Zenon
  <2>2. 1 # 0
    OBVIOUS
  <2> HIDE DEF shown
  <2>3. CASE Shows(S[i], ts, Put(qs, w, t, n + i), hs, rcs, as, rs)
    BY <2>1, <2>2, <2>3, Zenon
  <2>4. CASE ~ Shows(S[i], ts, Put(qs, w, t, n + i), hs, rcs, as, rs)
    BY <2>1, <2>4, Zenon
  <2> QED
    BY <2>3, <2>4, Zenon
<1> HIDE DEF shown
<1> SUFFICES ASSUME Bad # {} PROVE FALSE
  BY <1>0
<1>1. PICK m \in Bad : \A k \in Bad : m <= k
  <2> Bad \in SUBSET Nat
    OBVIOUS
  <2> HIDE DEF Bad
  <2> QED
    BY Least
<1>2. m # 0
  <2>1. n + 0 = n /\ 0 \in 0 .. N
    OBVIOUS
  <2> QED
    BY <1>0, <1>1, <2>1
<1>3. /\ m \in 1 .. N /\ m - 1 \in 0 .. N /\ m \in 0 .. N
      /\ m - 1 \notin Bad /\ shown[m - 1] # 0 /\ shown[m] = 0
  BY <1>1, <1>2
<1>4. n + (m - 1) \in Nat /\ (n + (m - 1)) + 1 = n + m
  BY <1>3
<1>5. Shows(S[m - 1], ts, Put(qs, w, t, n + (m - 1)), hs, rcs, as, rs)
  BY <1>0, <1>3
<1>6. "Progress" \in Regressing
  BY DEF Regressing
<1>7. Shows(apply_record(S[m - 1], EventAppended(t, w, (n + (m - 1)) + 1, "Progress")), ts,
            Put(qs, w, t, (n + (m - 1)) + 1), hs, rcs, as, rs)
  BY <1>4, <1>5, <1>6, EventAfter
<1>8. S[m] = apply_record(S[m - 1], EventAppended(t, w, n + m, "Progress"))
  BY <1>3
<1> QED
  BY <1>0, <1>3, <1>4, <1>7, <1>8

\* A task is leased: the lease, the events of the launch and a heartbeat, or a prefix of these.
LEMMA LeaseSteps ==
  ASSUME FileOK, Typed, NEW t \in Task, NEW w \in Worker, NEW d \in 0 .. MaxTime, NEW b \in L!Timestamp,
         lease_task_if_enqueued_with_events(t, w, MaxActive, d, b)
  PROVE  Steps
<1> PICK q : q = state.latest_seq[w][t]
  OBVIOUS
<1> PICK N : N = InitialEvents
  OBVIOUS
<1> DEFINE r1 == TaskLeased(t, w, d)
           es == [i \in 1 .. InitialEvents |-> EventAppended(t, w, NextSeq(t, w) + i - 1, "Progress")]
           r2 == Heartbeat(w, b)
           recs == <<r1>> \o es \o <<r2>>
           leased == [state.tasks EXCEPT ![t] = [status |-> "Leased", leased_to |-> w,
                        attempts |-> state.tasks[t].attempts + 1, lease_deadline |-> d]]
           S(k) == After(file, recs, k)
           Q(k) == Put(state.latest_seq, w, t, q + k)
<1>1. /\ L!CanLease(t, w, MaxActive) /\ state.tasks[t].status = "Enqueued"
      /\ state.tasks[t].attempts < MaxLeases
  BY DEF lease_task_if_enqueued_with_events, L!CanLease
<1>2. q \in Nat /\ NextSeq(t, w) = q + 1 /\ q + N <= MaxSeq /\ MaxSeq \in Nat /\ N \in Nat
  <2>1. q \in Nat /\ NextSeq(t, w) = q + 1 /\ Room(t, w, InitialEvents)
    BY DEF Typed, NextSeq, lease_task_if_enqueued_with_events
  <2> QED
    BY <2>1, LogAssumption DEF Room
<1>3. append_records_unlocked(recs)
  BY DEF lease_task_if_enqueued_with_events
<1>4. r1 \in Line /\ r2 \in Line
  BY LogAssumption DEF Line, L!Timestamp
<1>5. ASSUME NEW i \in 1 .. N PROVE es[i] = EventAppended(t, w, q + i, "Progress") /\ es[i] \in Line
  <2>1. NextSeq(t, w) + i - 1 = q + i /\ q + i \in Nat /\ "Progress" \in Payload
    BY <1>2, EventKinds DEF Regressing
  <2>2. es[i] = EventAppended(t, w, NextSeq(t, w) + i - 1, "Progress")
    OBVIOUS
  <2> HIDE DEF es
  <2> QED
    BY <2>1, <2>2, EventLine
<1>6. es \in Seq(Line) /\ Len(es) = N
  <2>1. es = [i \in 1 .. N |-> es[i]]
    OBVIOUS
  <2> HIDE DEF es
  <2>2. es \in [1 .. N -> Line]
    BY <1>5, <2>1
  <2>3. es \in Seq(Line)
    BY <1>2, <2>2
  <2>4. DOMAIN es = 1 .. N
    BY <2>2
  <2> QED
    BY <1>2, <2>3, <2>4, LenProperties
<1> HIDE DEF r1, r2, es
<1>7. /\ recs \in Seq(Line) /\ Len(recs) = N + 2 /\ recs[1] = r1 /\ recs[N + 2] = r2
      /\ \A i \in 1 .. N : recs[i + 1] = EventAppended(t, w, q + i, "Progress")
  <2> DEFINE f == <<r1>> \o es
  <2>1. <<r1>> \in Seq(Line) /\ Len(<<r1>>) = 1 /\ <<r2>> \in Seq(Line) /\ Len(<<r2>>) = 1
        /\ <<r1>>[1] = r1 /\ <<r2>>[1] = r2
    BY <1>4
  <2>2. /\ f \in Seq(Line) /\ Len(f) = 1 + N
        /\ \A i \in 1 .. 1 + N : f[i] = IF i <= 1 THEN r1 ELSE es[i - 1]
    <3>1. /\ f \in Seq(Line) /\ Len(f) = Len(<<r1>>) + Len(es)
          /\ \A i \in 1 .. Len(<<r1>>) + Len(es) : f[i] =
               IF i <= Len(<<r1>>) THEN <<r1>>[i] ELSE es[i - Len(<<r1>>)]
      BY <1>6, <2>1, ConcatProperties
    <3>2. ASSUME NEW i \in 1 .. 1 + N PROVE f[i] = IF i <= 1 THEN r1 ELSE es[i - 1]
      <4>1. i <= 1 => i = 1
        BY <1>2
      <4> HIDE DEF f
      <4> QED
        BY <1>6, <2>1, <3>1, <4>1
    <3> QED
      BY <1>6, <2>1, <3>1, <3>2
  <2> HIDE DEF f
  <2>3. /\ f \o <<r2>> \in Seq(Line) /\ Len(f \o <<r2>>) = Len(f) + Len(<<r2>>)
        /\ \A i \in 1 .. Len(f) + Len(<<r2>>) : (f \o <<r2>>)[i] =
             IF i <= Len(f) THEN f[i] ELSE <<r2>>[i - Len(f)]
    BY <2>1, <2>2, ConcatProperties
  <2>4. recs = f \o <<r2>>
    BY DEF f
  <2> HIDE DEF recs
  <2>5. Len(recs) = N + 2 /\ \A i \in 1 .. N + 2 : recs[i] = IF i <= 1 + N THEN f[i] ELSE <<r2>>[i - (1 + N)]
    BY <1>2, <2>1, <2>2, <2>3, <2>4
  <2>6. recs[1] = r1
    BY <1>2, <2>2, <2>5
  <2>7. recs[N + 2] = r2
    <3>1. N + 2 \in 1 .. N + 2 /\ ~ (N + 2 <= 1 + N) /\ (N + 2) - (1 + N) = 1
      BY <1>2
    <3> QED
      BY <2>1, <2>5, <3>1
  <2>8. ASSUME NEW i \in 1 .. N PROVE recs[i + 1] = EventAppended(t, w, q + i, "Progress")
    <3>1. i + 1 \in 1 .. N + 2 /\ i + 1 <= 1 + N /\ i + 1 \in 1 .. 1 + N /\ ~ (i + 1 <= 1) /\ (i + 1) - 1 = i
      BY <1>2
    <3> QED
      BY <1>5, <2>2, <2>5, <3>1
  <2> QED
    BY <2>3, <2>4, <2>5, <2>6, <2>7, <2>8
<1> HIDE DEF recs
<1>8. /\ Grown /\ S(0) = state
      /\ \E k \in 0 .. N + 2 : state' = S(k)
      /\ \A k \in 0 .. N + 2 : k + 1 <= N + 2 => S(k + 1) = apply_record(S(k), recs[k + 1])
  BY <1>3, <1>7, Batch
<1> HIDE DEF S
<1>9. Shows(S(1), leased, Q(0), state.heartbeats, state.receipts, state.alerts, state.runs)
  <2>1. S(0 + 1) = apply_record(S(0), recs[0 + 1])
    BY <1>2, <1>8
  <2>2. S(1) = apply_record(state, r1)
    BY <1>7, <1>8, <2>1
  <2>3. Shows(S(1), leased, state.latest_seq, state.heartbeats, state.receipts, state.alerts, state.runs)
    BY <1>1, <2>2, ReplayLeased DEF Typed, r1
  <2>4. Q(0) = state.latest_seq
    <3>1. q + 0 = state.latest_seq[w][t]
      BY <1>2
    <3> QED
      BY <3>1, NumberedOnce DEF Typed
  <2> QED
    BY <2>3, <2>4
<1> HIDE DEF leased
<1>10. ASSUME NEW i \in 0 .. N
       PROVE  Shows(S(i + 1), leased, Q(i), state.heartbeats, state.receipts, state.alerts, state.runs)
  <2> DEFINE F == [j \in 0 .. N |-> S(j + 1)]
  <2>1. ASSUME NEW j \in 1 .. N
        PROVE  F[j] = apply_record(F[j - 1], EventAppended(t, w, q + j, "Progress"))
    <3>1. j \in 0 .. N + 2 /\ j + 1 <= N + 2 /\ j - 1 \in 0 .. N /\ j \in 0 .. N /\ (j - 1) + 1 = j
      BY <1>2
    <3>2. S(j + 1) = apply_record(S(j), recs[j + 1])
      BY <1>8, <3>1
    <3>3. F[j] = S(j + 1) /\ F[j - 1] = S(j)
      BY <3>1
    <3> HIDE DEF F
    <3> QED
      BY <1>7, <3>2, <3>3
  <2>2. Shows(F[0], leased, Put(state.latest_seq, w, t, q), state.heartbeats, state.receipts,
              state.alerts, state.runs)
    <3>1. 0 \in 0 .. N /\ 0 + 1 = 1 /\ q + 0 = q
      BY <1>2
    <3>2. F[0] = S(1)
      BY <3>1
    <3> HIDE DEF F
    <3> QED
      BY <1>9, <3>1, <3>2
  <2>3. F[i] = S(i + 1)
    OBVIOUS
  <2> HIDE DEF F
  <2>4. state.latest_seq \in [Worker -> [Task -> Nat]]
    BY DEF Typed
  <2>5. \A j \in 0 .. N : Shows(F[j], leased, Put(state.latest_seq, w, t, q + j), state.heartbeats,
                                state.receipts, state.alerts, state.runs)
    <3>1. \A j \in 1 .. N : F[j] = apply_record(F[j - 1], EventAppended(t, w, q + j, "Progress"))
      BY <2>1
    <3>2. q \in Nat /\ N \in Nat
      BY <1>2
    <3> QED
      BY <2>2, <2>4, <3>1, <3>2, EventsAfter, Zenon
  <2> QED
    BY <2>3, <2>5
<1>11. Shows(S(N + 2), leased, Q(N), [state.heartbeats EXCEPT ![w] = b], state.receipts, state.alerts, state.runs)
  <2>1. N \in 0 .. N /\ N + 1 \in 0 .. N + 2 /\ (N + 1) + 1 = N + 2 /\ (N + 1) + 1 <= N + 2
    BY <1>2
  <2>2. S(N + 2) = apply_record(S(N + 1), Heartbeat(w, b))
    <3>1. S((N + 1) + 1) = apply_record(S(N + 1), recs[(N + 1) + 1])
      BY <1>8, <2>1
    <3> QED
      BY <1>7, <2>1, <3>1 DEF r2
  <2>3. Shows(S(N + 1), leased, Q(N), state.heartbeats, state.receipts, state.alerts, state.runs)
    BY <1>10, <2>1
  <2> QED
    BY <2>2, <2>3, BeatAfter
<1>12. ASSUME NEW k \in 1 .. N + 2, NEW j \in Nat, NEW hs, j <= N,
              j = IF k - 1 < N THEN k - 1 ELSE N,
              Shows(state', leased, Q(j), hs, state.receipts, state.alerts, state.runs),
              hs = IF k = N + 2 THEN [state.heartbeats EXCEPT ![w] = b] ELSE state.heartbeats
       PROVE  Steps
  <2>1. L!TaskLeased(t, w, d)
    BY <1>1, <1>12 DEF L!TaskLeased, Shows, leased
  <2>2. L!EventsAppended(t, w, j)
    <3>1. q + j <= MaxSeq
      BY <1>2, <1>12
    <3>2. (state.latest_seq)' = Put(state.latest_seq, w, t, q + j)
      BY <1>12 DEF Shows
    <3> QED
      BY <3>1, <3>2, NumberedAppended
  <2>3. IF k = N + 2 THEN L!HeartbeatAt(w, b) ELSE UNCHANGED state.heartbeats
    BY <1>12 DEF L!HeartbeatAt, Shows
  <2>4. UNCHANGED <<state.receipts, state.alerts, state.runs>>
    BY <1>12 DEF Shows
  <2>5. L!lease_task_if_enqueued_with_events(t, w, MaxActive, d, b, k)
    BY <1>1, <1>12, <2>1, <2>2, <2>3, <2>4 DEF L!lease_task_if_enqueued_with_events
  <2>6. L!Work(t, w)
    BY <2>5 DEF L!Work
  <2>7. L!Next
    BY <2>6 DEF L!Next
  <2> QED
    BY <1>8, <1>12, <2>7 DEF Steps, Shows, HasFields
<1>13. PICK k \in 0 .. N + 2 : state' = S(k)
  BY <1>8
<1>14. CASE k = 0
  BY <1>8, <1>13, <1>14, Unmoved
<1>15. CASE k \in 1 .. N + 1
  <2> PICK i : i = k - 1
    OBVIOUS
  <2>1. i \in 0 .. N /\ i \in Nat /\ i <= N /\ i + 1 = k /\ k \in 1 .. N + 2 /\ k # N + 2
        /\ i = IF k - 1 < N THEN k - 1 ELSE N
    BY <1>2, <1>15
  <2>2. Shows(state', leased, Q(i), state.heartbeats, state.receipts, state.alerts, state.runs)
    BY <1>10, <1>13, <2>1
  <2> QED
    BY <1>12, <2>1, <2>2
<1>16. CASE k = N + 2
  <2>1. N <= N /\ k \in 1 .. N + 2 /\ N = IF k - 1 < N THEN k - 1 ELSE N
    BY <1>2, <1>16
  <2> QED
    BY <1>2, <1>11, <1>12, <1>13, <1>16, <2>1
<1> QED
  <2>1. k = 0 \/ k \in 1 .. N + 1 \/ k = N + 2
    BY <1>2
  <2> QED
    BY <1>14, <1>15, <1>16, <2>1

--------------------------------------------------------------------------------
(* The specification.                                                      *)
(*                                                                         *)
(* FleetLog instantiates FleetLedger, and this module the proofs about it: *)
(* two copies of the same definitions, which the lemmas below identify     *)
(* operation by operation.                                                 *)

\* The lease transaction is the same in both copies.
LEMMA SameLease ==
  ASSUME NEW t, NEW w, NEW m, NEW d, NEW ts, NEW k
  PROVE  L!lease_task_if_enqueued_with_events(t, w, m, d, ts, k)
           <=> P!lease_task_if_enqueued_with_events(t, w, m, d, ts, k)
<1>1. L!CanLease(t, w, m) <=> P!CanLease(t, w, m)
  <2>1. \A u : L!IsLeased(u) <=> P!IsLeased(u)
    BY DEF L!IsLeased, P!IsLeased
  <2>2. L!HoldsLease(w) <=> P!HoldsLease(w)
    BY <2>1 DEF L!HoldsLease, P!HoldsLease
  <2>3. L!ActiveTasks(RunOf[t]) = P!ActiveTasks(RunOf[t])
    BY <2>1 DEF L!ActiveTasks, P!ActiveTasks
  <2>4. L!Cardinality(L!ActiveTasks(RunOf[t])) = P!Cardinality(P!ActiveTasks(RunOf[t]))
    BY <2>3 DEF L!Cardinality, P!Cardinality
  <2> QED
    BY <2>2, <2>4 DEF L!CanLease, P!CanLease
<1>2. L!TaskLeased(t, w, d) <=> P!TaskLeased(t, w, d)
  BY DEF L!TaskLeased, P!TaskLeased
<1>3. \A n : L!EventsAppended(t, w, n) <=> P!EventsAppended(t, w, n)
  BY DEF L!EventsAppended, P!EventsAppended
<1>4. L!HeartbeatAt(w, ts) <=> P!HeartbeatAt(w, ts)
  BY DEF L!HeartbeatAt, P!HeartbeatAt
<1> QED
  BY <1>1, <1>2, <1>3, <1>4
  DEF L!lease_task_if_enqueued_with_events, P!lease_task_if_enqueued_with_events

\* So are the others.
LEMMA SameOperations ==
  /\ \A r : L!create_run(r) <=> P!create_run(r)
  /\ \A t : L!enqueue(t) <=> P!enqueue(t)
  /\ \A t, w : L!claim_next(t, w) <=> P!claim_next(t, w)
  /\ \A t, w, n :
       L!append_event_if_leased(t, w, n)
         <=> P!append_event_if_leased(t, w, n)
  /\ \A t, w, n, s, h :
       L!append_event_if_lease_unchanged(t, w, n, s, h)
         <=> P!append_event_if_lease_unchanged(t, w, n, s, h)
  /\ \A t, w, n, p, f, res :
       L!finalize_task_attempt_if_leased(t, w, n, p, f, res)
         <=> P!finalize_task_attempt_if_leased(t, w, n, p, f, res)
  /\ \A t, w, n, s, h, p :
       L!append_terminal_event_if_lease_unchanged(t, w, n, s, h, p)
         <=> P!append_terminal_event_if_lease_unchanged(t, w, n, s, h, p)
  /\ \A t, w, st, n, s, h, d, ts, k :
       L!restart_task_if_unchanged(t, w, st, n, s, h, d, ts, k)
         <=> P!restart_task_if_unchanged(t, w, st, n, s, h, d, ts, k)
  /\ \A t, e, k : L!cancel_task_if_active(t, e, k) <=> P!cancel_task_if_active(t, e, k)
  /\ \A w, ts : L!heartbeat(w, ts) <=> P!heartbeat(w, ts)
  /\ \A t, w, n, c :
       L!record_failed_attempt_alert_once(t, w, n, c)
         <=> P!record_failed_attempt_alert_once(t, w, n, c)
<1>1. ASSUME NEW r
       PROVE  L!create_run(r)
                <=> P!create_run(r)
  BY DEF L!create_run, P!create_run
<1>2. ASSUME NEW t
       PROVE  L!enqueue(t)
                <=> P!enqueue(t)
  BY DEF L!enqueue, P!enqueue
<1>3. ASSUME NEW t, NEW w
       PROVE  L!claim_next(t, w)
                <=> P!claim_next(t, w)
  BY DEF L!claim_next, P!claim_next, L!HoldsLease, P!HoldsLease, L!IsLeased, P!IsLeased,
    L!TaskLeased, P!TaskLeased, L!NoTime, P!NoTime
<1>4. ASSUME NEW t, NEW w, NEW n
       PROVE  L!append_event_if_leased(t, w, n)
                <=> P!append_event_if_leased(t, w, n)
  BY DEF L!append_event_if_leased, P!append_event_if_leased, L!OwnsAttempt, P!OwnsAttempt,
    L!IsLeased, P!IsLeased, L!EventsAppended, P!EventsAppended
<1>5. ASSUME NEW t, NEW w, NEW n, NEW s, NEW h
       PROVE  L!append_event_if_lease_unchanged(t, w, n, s, h)
                <=> P!append_event_if_lease_unchanged(t, w, n, s, h)
  BY DEF L!append_event_if_lease_unchanged, P!append_event_if_lease_unchanged, L!LeaseUnchanged,
    P!LeaseUnchanged, L!IsLeased, P!IsLeased, L!VersionUnchanged, P!VersionUnchanged,
    L!EventsAppended, P!EventsAppended
<1>6. ASSUME NEW t, NEW w, NEW n, NEW p, NEW f, NEW res
       PROVE  L!finalize_task_attempt_if_leased(t, w, n, p, f, res)
                <=> P!finalize_task_attempt_if_leased(t, w, n, p, f, res)
  BY DEF L!finalize_task_attempt_if_leased, P!finalize_task_attempt_if_leased, L!OwnsAttempt,
    P!OwnsAttempt, L!IsLeased, P!IsLeased, L!EventsAppended, P!EventsAppended,
    L!mark_task_terminal, P!mark_task_terminal, L!NoStatus, P!NoStatus
<1>7. ASSUME NEW t, NEW w, NEW n, NEW s, NEW h, NEW p
       PROVE  L!append_terminal_event_if_lease_unchanged(t, w, n, s, h, p)
                <=> P!append_terminal_event_if_lease_unchanged(t, w, n, s, h, p)
  BY DEF L!append_terminal_event_if_lease_unchanged, P!append_terminal_event_if_lease_unchanged,
    L!LeaseUnchanged, P!LeaseUnchanged, L!IsLeased, P!IsLeased, L!VersionUnchanged,
    P!VersionUnchanged, L!EventsAppended, P!EventsAppended, L!mark_task_terminal,
    P!mark_task_terminal
<1>8. ASSUME NEW t, NEW w, NEW st, NEW n, NEW s, NEW h, NEW d, NEW ts, NEW k
       PROVE  L!restart_task_if_unchanged(t, w, st, n, s, h, d, ts, k)
                <=> P!restart_task_if_unchanged(t, w, st, n, s, h, d, ts, k)
  BY DEF L!restart_task_if_unchanged, P!restart_task_if_unchanged, L!CanRestart, P!CanRestart,
    L!IsLeased, P!IsLeased, L!VersionUnchanged, P!VersionUnchanged, L!TaskLeased, P!TaskLeased,
    L!EventsAppended, P!EventsAppended, L!HeartbeatAt, P!HeartbeatAt
<1>9. ASSUME NEW t, NEW e, NEW k
       PROVE  L!cancel_task_if_active(t, e, k)
                <=> P!cancel_task_if_active(t, e, k)
  BY DEF L!cancel_task_if_active, P!cancel_task_if_active, L!IsLeased, P!IsLeased,
    L!EventsAppended, P!EventsAppended, L!mark_task_terminal, P!mark_task_terminal
<1>10. ASSUME NEW w, NEW ts
       PROVE  L!heartbeat(w, ts)
                <=> P!heartbeat(w, ts)
  BY DEF L!heartbeat, P!heartbeat, L!HeartbeatAt, P!HeartbeatAt
<1>11. ASSUME NEW t, NEW w, NEW n, NEW c
       PROVE  L!record_failed_attempt_alert_once(t, w, n, c)
                <=> P!record_failed_attempt_alert_once(t, w, n, c)
  BY DEF L!record_failed_attempt_alert_once, P!record_failed_attempt_alert_once, L!CanAlert,
    P!CanAlert, L!EventsAppended, P!EventsAppended
<1> QED
  BY <1>1, <1>2, <1>3, <1>4, <1>5, <1>6, <1>7, <1>8, <1>9, <1>10, <1>11

\* So are the steps.
LEMMA SameNext == (UNCHANGED L!ledgerVars \/ L!Next) <=> [P!Next]_(P!ledgerVars)
<1>1. L!Manage <=> P!Manage
  BY SameOperations DEF L!Manage, P!Manage
<1>2. \A t, w : L!Work(t, w) <=> P!Work(t, w)
  BY SameOperations, SameLease
  DEF L!Work, P!Work, L!Terminal, P!Terminal, L!Timestamp, P!Timestamp, L!NoStatus, P!NoStatus
<1>3. \A t, w : L!Recover(t, w) <=> P!Recover(t, w)
  BY SameOperations
  DEF L!Recover, P!Recover, L!TaskStatus, P!TaskStatus, L!Terminal, P!Terminal, L!Timestamp, P!Timestamp
<1>4. UNCHANGED L!ledgerVars <=> UNCHANGED P!ledgerVars
  BY DEF L!ledgerVars, P!ledgerVars
<1>5. L!Next <=> P!Next
  BY <1>1, <1>2, <1>3, SameOperations DEF L!Next, P!Next, L!Timestamp, P!Timestamp
<1> QED
  BY <1>4, <1>5

\* The inductive invariant: what the replayed state is, and that the ledger's own
\* invariant holds of it; the operations rely on the latter to number their events
\* and to name the worker they finish.
LogInv ==
  /\ FileOK
  /\ HasFields(state)
  /\ P!IInv
  /\ P!Bounded

\* The assumption of the ledger follows from that of the file.
LEMMA SameAssumption == P!LedgerAssumption
BY LogAssumption DEF P!LedgerAssumption

\* The invariant gives what the operations rely on.
LEMMA InvTyped == ASSUME LogInv PROVE Typed
<1> USE DEF LogInv
<1>1. /\ state.tasks \in [Task -> P!TaskState] /\ state.latest_seq \in [Worker -> [Task -> Nat]]
      /\ state.heartbeats \in [Worker -> Nat]
  BY DEF P!IInv, P!TypeOK
<1>2. L!TaskState = P!TaskState
  BY DEF L!TaskState, P!TaskState, L!TaskStatus, P!TaskStatus, L!Terminal, P!Terminal
<1>3. \A w \in Worker : state.heartbeats[w] \in 0 .. MaxTime
  BY <1>1, LogAssumption DEF P!Bounded
<1>4. ASSUME NEW t \in Task
      PROVE  /\ state.tasks[t].leased_to # NoWorker =>
                  /\ state.tasks[t].attempts \in 1 .. MaxLeases
                  /\ state.tasks[t].status \notin {"Absent", "Enqueued"}
             /\ state.tasks[t].status \in {"Absent", "Enqueued"} => state.tasks[t].attempts = 0
  <2>1. state.tasks[t].attempts \in Nat /\ state.tasks[t].attempts <= MaxLeases
    BY <1>1 DEF P!TaskState, P!Bounded
  <2>2. /\ state.tasks[t].attempts = 0 <=> state.tasks[t].leased_to = NoWorker
        /\ state.tasks[t].status \in {"Absent", "Enqueued"} => state.tasks[t].attempts = 0
    BY DEF P!IInv, P!LeaseShape
  <2> QED
    BY <2>1, <2>2, LogAssumption
<1> QED
  BY <1>1, <1>2, <1>3, <1>4 DEF Typed, P!Bounded

\* An empty file replays to an empty ledger.
LEMMA InitLog == ASSUME Init PROVE LogInv /\ L!Init
<1>1. state = EmptyState /\ FileOK /\ HasFields(state)
  BY RebuildEmpty DEF Init, FileOK, HasFields, Fields, EmptyState
<1>2. P!Init
  BY <1>1 DEF EmptyState, P!Init, P!NoTime, P!NoReceipt, L!NoReceipt
<1>3. L!Init
  BY <1>1 DEF EmptyState, L!Init, L!NoTime
<1>4. P!IInv
  BY <1>2, SameAssumption, P!InitIInv
<1>5. P!Bounded
  BY <1>2, LogAssumption DEF P!Init, P!Bounded, P!NoTime
<1> QED
  BY <1>1, <1>3, <1>4, <1>5 DEF LogInv

\* Every append, whole or torn, is a step of the ledger or leaves its state alone.
LEMMA OperationSteps == ASSUME LogInv, Next, ~ compact PROVE Steps
<1>1. FileOK /\ Typed
  BY InvTyped DEF LogInv
<1>2. CASE Manage
  <2>1. CASE \E r \in Run \ state.runs : create_run(r)
    BY <1>1, <2>1, CreateSteps
  <2>2. CASE \E t \in Task : RunOf[t] \in state.runs /\ enqueue(t)
    BY <1>1, <2>2, EnqueueSteps
  <2>3. CASE \E t \in Task, e \in Worker \cup {NoWorker} : cancel_task_if_active(t, e)
    BY <1>1, <2>3, CancelSteps
  <2> QED
    BY <1>2, <2>1, <2>2, <2>3 DEF Manage
<1>3. ASSUME NEW t \in Task, NEW w \in Worker, Work(t, w) PROVE Steps
  <2>1. CASE \E d \in 0..MaxTime, ts \in L!Timestamp :
               lease_task_if_enqueued_with_events(t, w, MaxActive, d, ts)
    BY <1>1, <2>1, LeaseSteps
  <2>2. CASE claim_next(t, w)
    BY <1>1, <2>2, ClaimSteps
  <2>3. CASE \E n \in 1..MaxLeases : append_event_if_leased(t, w, n)
    BY <1>1, <2>3, AppendSteps
  <2>4. CASE \E n \in 1..MaxLeases, p \in Terminal, f \in Terminal \cup {L!NoStatus},
               res \in Result : finalize_task_attempt_if_leased(t, w, n, p, f, res)
    BY <1>1, <2>4, FinalizeSteps
  <2> QED
    BY <1>3, <2>1, <2>2, <2>3, <2>4 DEF Work
<1>4. ASSUME NEW t \in Task, NEW w \in Worker, Recover(t, w) PROVE Steps
  <2> DEFINE n == state.tasks[t].attempts
             s == state.latest_seq[w][t]
             h == state.heartbeats[w]
  <2>1. CASE append_event_if_lease_unchanged(t, w, n, s, h)
    BY <1>1, <2>1, StaleSteps
  <2>2. CASE append_terminal_event_if_lease_unchanged(t, w, n, s, h, "Failed")
    BY <1>1, <2>2, FailSteps
  <2>3. CASE \E d \in 0..MaxTime, ts \in L!Timestamp :
               restart_task_if_unchanged(t, w, state.tasks[t].status, n, s, h, d, ts)
    BY <1>1, <2>3, RestartSteps
  <2>4. CASE \E c \in Channel : record_failed_attempt_alert_once(t, w, n, c)
    BY <1>1, <2>4, AlertSteps
  <2> QED
    BY <1>4, <2>1, <2>2, <2>3, <2>4 DEF Recover
<1>5. CASE \E w \in Worker, ts \in L!Timestamp : heartbeat(w, ts)
  BY <1>1, <1>5, HeartbeatSteps
<1> QED
  BY <1>2, <1>3, <1>4, <1>5 DEF Next

\* Every step but a compaction keeps the invariant and is one of the ledger's.
LEMMA StepLog ==
  ASSUME LogInv, [Next]_logVars, [~ compact]_logVars
  PROVE  LogInv' /\ [L!Next]_(L!ledgerVars)
<1>1. CASE UNCHANGED logVars
  <2>1. file' = file /\ state' = state
    BY <1>1 DEF logVars
  <2>2. UNCHANGED L!ledgerVars /\ UNCHANGED P!ledgerVars /\ FileOK' /\ HasFields(state)'
    BY <2>1 DEF L!ledgerVars, P!ledgerVars, LogInv, FileOK, HasFields
  <2>3. P!IInv' /\ P!Bounded'
    BY <2>2, SameAssumption, P!StepIInv, P!BoundedStep DEF LogInv, P!IInv
  <2> QED
    BY <2>2, <2>3 DEF LogInv
<1>2. CASE Next /\ ~ compact
  <2>1. Steps
    BY <1>2, OperationSteps
  <2>2. [P!Next]_(P!ledgerVars)
    BY <2>1, SameNext DEF Steps
  <2>3. P!IInv' /\ P!Bounded'
    BY <2>2, SameAssumption, P!StepIInv, P!BoundedStep DEF LogInv, P!IInv
  <2> QED
    BY <2>1, <2>3 DEF LogInv, Steps, Grown
<1> QED
  BY <1>1, <1>2

--------------------------------------------------------------------------------
(* What any file replays to.                                               *)

Event == {NoEvent} \cup [seq : Nat, payload : Payload]
Table(C) == [Worker -> [Task -> C]]
AlertKey == Task \X Nat \X Channel

\* The types of the replayed state, and what holds of it whatever was written to
\* the file: which payloads the restart and escalation slots hold, that an alert is
\* recorded once and has its event's number, that only a worker's task has a deadline.
TasksGood(s) ==
  /\ s.tasks \in [Task -> L!TaskState]
  /\ \A t \in Task :
       /\ s.tasks[t].leased_to = NoWorker => s.tasks[t].lease_deadline = 0
       /\ s.tasks[t].status = "Absent" => s.tasks[t].leased_to = NoWorker /\ s.tasks[t].attempts = 0
EventsGood(s) ==
  /\ s.latest_seq \in Table(Nat) /\ s.latest_events \in Table(Event)
  /\ s.restarted_events \in Table(Event) /\ s.escalated_events \in Table(Event)
  /\ \A w \in Worker, t \in Task :
       /\ s.restarted_events[w][t].payload \notin Terminal
       /\ s.escalated_events[w][t].payload \notin Terminal
AlertsGood(s) ==
  /\ IsFiniteSet(s.alert_seq) /\ s.alert_seq \subseteq AlertKey \X Worker \X Nat
  /\ s.alerts = {a[1] : a \in s.alert_seq}
  /\ \A a, b \in s.alert_seq : a[1] = b[1] => a = b
  /\ \A a \in s.alert_seq : a[3] <= s.latest_seq[a[2]][a[1][1]]
RestGood(s) ==
  /\ s.heartbeats \in [Worker -> Nat] /\ s.receipts \in [Task -> L!Receipt] /\ s.runs \subseteq Run
Good(s) == HasFields(s) /\ TasksGood(s) /\ EventsGood(s) /\ AlertsGood(s) /\ RestGood(s)

\* A cell is set to a value of the table's kind.
LEMMA PutTyped ==
  ASSUME NEW C, NEW f \in Table(C), NEW w \in Worker, NEW t \in Task, NEW x \in C
  PROVE  Put(f, w, t, x) \in Table(C)
BY DEF Put, Table

\* The others are not.
LEMMA PutValue ==
  ASSUME NEW C, NEW f \in Table(C), NEW w \in Worker, NEW t \in Task, NEW x,
         NEW v \in Worker, NEW u \in Task
  PROVE  Put(f, w, t, x)[v][u] = IF v = w /\ u = t THEN x ELSE f[v][u]
BY DEF Put, Table

\* A record with an event changes these fields, and no other.
LEMMA EventEffect ==
  ASSUME NEW s, HasFields(s), NEW t, NEW w, NEW q, NEW p,
         NEW e, e = [seq |-> q, payload |-> p], NEW r, r = apply_event(s, t, w, q, p)
  PROVE  /\ HasFields(r)
         /\ r.tasks = IF p \in Terminal THEN mark_task_terminal(s, t, w, p).tasks ELSE s.tasks
         /\ r.latest_seq = Put(s.latest_seq, w, t,
              IF q > s.latest_seq[w][t] THEN q ELSE s.latest_seq[w][t])
         /\ r.latest_events = Put(s.latest_events, w, t,
              IF q > s.latest_seq[w][t] /\ ~ (s.tasks[t].status \in Terminal /\ p \in Regressing) THEN e
              ELSE s.latest_events[w][t])
         /\ r.restarted_events = Put(s.restarted_events, w, t,
              IF p = "Restarted" THEN e ELSE s.restarted_events[w][t])
         /\ r.escalated_events = Put(s.escalated_events, w, t,
              IF p = "Escalated" THEN e ELSE s.escalated_events[w][t])
         /\ r.alerts = s.alerts /\ r.alert_seq = s.alert_seq
         /\ r.heartbeats = s.heartbeats /\ r.receipts = s.receipts /\ r.runs = s.runs
<1> DEFINE regresses == s.tasks[t].status \in Terminal /\ p \in Regressing
      fresh == q > s.latest_seq[w][t]
      recorded == [s EXCEPT
        !.latest_seq[w][t] = IF fresh THEN q ELSE @,
        !.latest_events[w][t] = IF fresh /\ ~ regresses THEN e ELSE @,
        !.restarted_events[w][t] = IF p = "Restarted" THEN e ELSE @,
        !.escalated_events[w][t] = IF p = "Escalated" THEN e ELSE @]
<1>1. r = IF p \in Terminal THEN mark_task_terminal(recorded, t, w, p) ELSE recorded
  BY DEF apply_event
<1>2. /\ HasFields(recorded) /\ recorded.tasks = s.tasks
      /\ recorded.latest_seq = Put(s.latest_seq, w, t, IF fresh THEN q ELSE s.latest_seq[w][t])
      /\ recorded.latest_events = Put(s.latest_events, w, t, IF fresh /\ ~ regresses THEN e ELSE s.latest_events[w][t])
      /\ recorded.restarted_events = Put(s.restarted_events, w, t, IF p = "Restarted" THEN e ELSE s.restarted_events[w][t])
      /\ recorded.escalated_events = Put(s.escalated_events, w, t, IF p = "Escalated" THEN e ELSE s.escalated_events[w][t])
      /\ recorded.alerts = s.alerts /\ recorded.alert_seq = s.alert_seq
      /\ recorded.heartbeats = s.heartbeats /\ recorded.receipts = s.receipts /\ recorded.runs = s.runs
  <2> HIDE DEF regresses, fresh
  <2> QED
    BY DEF Put, HasFields, Fields
<1> HIDE DEF recorded, regresses, fresh
<1> PICK m : m = mark_task_terminal(recorded, t, w, p)
  OBVIOUS
<1>3. /\ HasFields(m) /\ m.tasks = mark_task_terminal(s, t, w, p).tasks
      /\ m.latest_seq = recorded.latest_seq /\ m.latest_events = recorded.latest_events
      /\ m.restarted_events = recorded.restarted_events /\ m.escalated_events = recorded.escalated_events
      /\ m.alerts = recorded.alerts /\ m.alert_seq = recorded.alert_seq
      /\ m.heartbeats = recorded.heartbeats /\ m.receipts = recorded.receipts /\ m.runs = recorded.runs
  BY <1>2 DEF mark_task_terminal, HasFields, Fields
<1> QED
  <2>1. CASE p \in Terminal
    BY <1>1, <1>2, <1>3, <2>1 DEF regresses, fresh
  <2>2. CASE p \notin Terminal
    BY <1>1, <1>2, <2>2 DEF regresses, fresh
  <2> QED
    BY <2>1, <2>2

\* Two states have these fields in common.
Alike(r, s, F) == \A f \in F : r[f] = s[f]

\* A terminal mark changes the tasks only, and keeps them good.
LEMMA MarkGood ==
  ASSUME NEW s, HasFields(s), TasksGood(s), NEW t \in Task, NEW w \in Worker \cup {NoWorker},
         NEW x \in Terminal,
         NEW m, m = mark_task_terminal(s, t, w, x)
  PROVE  /\ HasFields(m) /\ TasksGood(m) /\ Alike(m, s, Fields \ {"tasks"})
         /\ \A u \in Task :
              m.tasks[u] = IF u # t \/ s.tasks[t].status = "Absent" THEN s.tasks[u]
                           ELSE [status |-> x, leased_to |-> IF w = NoWorker THEN s.tasks[t].leased_to ELSE w,
                                 attempts |-> s.tasks[t].attempts,
                                 lease_deadline |-> s.tasks[t].lease_deadline]
<1> DEFINE v == [status |-> x, leased_to |-> IF w = NoWorker THEN s.tasks[t].leased_to ELSE w,
                 attempts |-> s.tasks[t].attempts, lease_deadline |-> s.tasks[t].lease_deadline]
<1>0. s.tasks \in [Task -> L!TaskState] /\ x \in L!TaskStatus /\ x # "Absent"
  BY DEF TasksGood, L!TaskStatus, Terminal, L!Terminal
<1>1. CASE s.tasks[t].status = "Absent"
  <2>1. m = s
    BY <1>1 DEF mark_task_terminal
  <2> QED
    BY <1>1, <2>1 DEF Alike
<1>2. CASE s.tasks[t].status # "Absent"
  <2>1. m = [s EXCEPT !.tasks[t].status = x, !.tasks[t].leased_to = IF w = NoWorker THEN @ ELSE w]
    BY <1>2 DEF mark_task_terminal
  <2>2. HasFields(m) /\ Alike(m, s, Fields \ {"tasks"})
    BY <2>1 DEF HasFields, Fields, Alike
  <2>3. m.tasks = [s.tasks EXCEPT ![t] = v]
    BY <1>0, <2>1 DEF HasFields, Fields, L!TaskState
  <2>4. v \in L!TaskState
    BY <1>0 DEF L!TaskState
  <2>5. /\ v.status # "Absent"
        /\ v.leased_to = NoWorker => s.tasks[t].leased_to = NoWorker
        /\ v.lease_deadline = s.tasks[t].lease_deadline
    BY <1>0, LogAssumption
  <2> HIDE DEF v
  <2>6. TasksGood(m)
    <3>1. m.tasks \in [Task -> L!TaskState] /\ m.tasks[t] = v /\ \A u \in Task : u # t => m.tasks[u] = s.tasks[u]
      BY <1>0, <2>3, <2>4
    <3> QED
      BY <2>5, <3>1 DEF TasksGood
  <2>7. \A u \in Task : m.tasks[u] = IF u # t THEN s.tasks[u] ELSE v
    BY <1>0, <2>3
  <2> QED
    BY <1>2, <2>2, <2>6, <2>7 DEF v
<1> QED
  BY <1>1, <1>2

\* Events keep the state good.
LEMMA EventGood ==
  ASSUME NEW s, Good(s), NEW t \in Task, NEW w \in Worker, NEW q \in Nat, NEW p \in Payload
  PROVE  Good(apply_event(s, t, w, q, p))
<1> DEFINE r == apply_event(s, t, w, q, p)
           e == [seq |-> q, payload |-> p]
           n == IF q > s.latest_seq[w][t] THEN q ELSE s.latest_seq[w][t]
           regresses == s.tasks[t].status \in Terminal /\ p \in Regressing
           le == IF q > s.latest_seq[w][t] /\ ~ regresses THEN e ELSE s.latest_events[w][t]
           re == IF p = "Restarted" THEN e ELSE s.restarted_events[w][t]
           ee == IF p = "Escalated" THEN e ELSE s.escalated_events[w][t]
<1>1. /\ HasFields(r)
      /\ r.tasks = IF p \in Terminal THEN mark_task_terminal(s, t, w, p).tasks ELSE s.tasks
      /\ r.latest_seq = Put(s.latest_seq, w, t, n)
      /\ r.latest_events = Put(s.latest_events, w, t, le)
      /\ r.restarted_events = Put(s.restarted_events, w, t, re)
      /\ r.escalated_events = Put(s.escalated_events, w, t, ee)
      /\ r.alerts = s.alerts /\ r.alert_seq = s.alert_seq
      /\ r.heartbeats = s.heartbeats /\ r.receipts = s.receipts /\ r.runs = s.runs
  BY EventEffect DEF Good
<1>2. e \in Event /\ e.payload = p
  BY DEF Event
<1>3. n \in Nat /\ n >= s.latest_seq[w][t] /\ s.latest_seq[w][t] \in Nat
  BY DEF Good, EventsGood, Table
<1>4. /\ le \in Event /\ re \in Event /\ ee \in Event
      /\ re.payload \notin Terminal /\ ee.payload \notin Terminal
  <2>1. /\ s.latest_events[w][t] \in Event /\ s.restarted_events[w][t] \in Event /\ s.escalated_events[w][t] \in Event
        /\ s.restarted_events[w][t].payload \notin Terminal /\ s.escalated_events[w][t].payload \notin Terminal
    BY DEF Good, EventsGood, Table
  <2>2. "Restarted" \notin Terminal /\ "Escalated" \notin Terminal
    BY DEF Terminal, L!Terminal
  <2> HIDE DEF e
  <2> QED
    BY <1>2, <2>1, <2>2
<1> HIDE DEF r, e, n, le, re, ee, regresses
<1>5. TasksGood(r)
  <2>1. CASE p \in Terminal
    <3>1. TasksGood(mark_task_terminal(s, t, w, p))
      BY <2>1, MarkGood DEF Good
    <3> QED
      BY <1>1, <2>1, <3>1 DEF TasksGood
  <2>2. CASE p \notin Terminal
    BY <1>1, <2>2 DEF Good, TasksGood
  <2> QED
    BY <2>1, <2>2
<1>6. EventsGood(r)
  <2>1. r.latest_seq \in Table(Nat)
    BY <1>1, <1>3, PutTyped DEF Good, EventsGood
  <2>2. r.latest_events \in Table(Event)
    BY <1>1, <1>4, PutTyped DEF Good, EventsGood
  <2>3. r.restarted_events \in Table(Event) /\ r.escalated_events \in Table(Event)
    BY <1>1, <1>4, PutTyped DEF Good, EventsGood
  <2>4. ASSUME NEW v \in Worker, NEW u \in Task
        PROVE  /\ r.restarted_events[v][u] \in {re, s.restarted_events[v][u]}
               /\ r.escalated_events[v][u] \in {ee, s.escalated_events[v][u]}
    BY <1>1, PutValue DEF Good, EventsGood
  <2>5. ASSUME NEW v \in Worker, NEW u \in Task
        PROVE  r.restarted_events[v][u].payload \notin Terminal /\ r.escalated_events[v][u].payload \notin Terminal
    BY <1>4, <2>4 DEF Good, EventsGood
  <2> QED
    BY <2>1, <2>2, <2>3, <2>5 DEF EventsGood
<1>7. AlertsGood(r)
  <2>1. \A v \in Worker, u \in Task : r.latest_seq[v][u] = IF v = w /\ u = t THEN n ELSE s.latest_seq[v][u]
    BY <1>1, PutValue DEF Good, EventsGood
  <2>2. ASSUME NEW a \in s.alert_seq PROVE a[3] <= r.latest_seq[a[2]][a[1][1]]
    <3>1. a[3] \in Nat /\ a[2] \in Worker /\ a[1][1] \in Task /\ a[3] <= s.latest_seq[a[2]][a[1][1]]
      BY DEF Good, AlertsGood, AlertKey
    <3>2. s.latest_seq[a[2]][a[1][1]] \in Nat
      BY <3>1 DEF Good, EventsGood, Table
    <3> QED
      BY <1>3, <2>1, <3>1, <3>2
  <2> QED
    BY <1>1, <2>2 DEF Good, AlertsGood
<1>8. RestGood(r)
  BY <1>1 DEF Good, RestGood
<1> QED
  BY <1>1, <1>5, <1>6, <1>7, <1>8 DEF Good, r

\* The records, one by one.
LEMMA RunGood == ASSUME NEW s, Good(s), NEW r \in Run PROVE Good(apply_record(s, RunCreated(r)))
<1> DEFINE rec == RunCreated(r)
           x == apply_record(s, rec)
<1>1. rec.kind = "RunCreated" /\ rec.run = r
  BY DEF RunCreated
<1> HIDE DEF rec
<1>2. x = [s EXCEPT !.runs = @ \cup {r}]
  BY <1>1 DEF apply_record
<1>3. HasFields(x) /\ x.runs = s.runs \cup {r} /\ \A f \in Fields \ {"runs"} : x[f] = s[f]
  BY <1>2 DEF Good, HasFields, Fields
<1> HIDE DEF x
<1>4. TasksGood(x) /\ EventsGood(x) /\ AlertsGood(x)
  BY <1>3 DEF Good, TasksGood, EventsGood, AlertsGood, Fields
<1>5. RestGood(x)
  BY <1>3 DEF Good, RestGood, Fields
<1> QED
  BY <1>3, <1>4, <1>5 DEF Good, x, rec

\* A new task is good, with whatever number of attempts.
LEMMA EnqueuedGood ==
  ASSUME NEW s, Good(s), NEW t \in Task, NEW n \in Nat PROVE Good(apply_record(s, TaskEnqueued(t, n)))
<1> DEFINE rec == TaskEnqueued(t, n)
           x == apply_record(s, rec)
<1>1. rec.kind = "TaskEnqueued" /\ rec.task = t /\ rec.attempts = n
  BY DEF TaskEnqueued
<1> HIDE DEF rec
<1>2. CASE s.tasks[t].status # "Absent"
  BY <1>1, <1>2 DEF apply_record, rec
<1>3. CASE s.tasks[t].status = "Absent"
  <2>1. x = [s EXCEPT !.tasks[t].status = "Enqueued", !.tasks[t].attempts = n]
    BY <1>1, <1>3 DEF apply_record
  <2>2. /\ HasFields(x) /\ \A f \in Fields \ {"tasks"} : x[f] = s[f]
        /\ x.tasks = [s.tasks EXCEPT ![t].status = "Enqueued", ![t].attempts = n]
    BY <2>1 DEF Good, HasFields, Fields
  <2> HIDE DEF x
  <2>3. TasksGood(x)
    BY <2>2 DEF Good, TasksGood, L!TaskState, L!TaskStatus
  <2>4. EventsGood(x) /\ AlertsGood(x) /\ RestGood(x)
    BY <2>2 DEF Good, EventsGood, AlertsGood, RestGood, Fields
  <2> QED
    BY <2>2, <2>3, <2>4 DEF Good, x, rec
<1> QED
  BY <1>2, <1>3

\* So is a leased one.
LEMMA LeasedGood ==
  ASSUME NEW s, Good(s), NEW t \in Task, NEW w \in Worker, NEW d \in Nat
  PROVE  Good(apply_record(s, TaskLeased(t, w, d)))
<1> DEFINE rec == TaskLeased(t, w, d)
           x == apply_record(s, rec)
           v == [status |-> "Leased", leased_to |-> w, attempts |-> s.tasks[t].attempts + 1, lease_deadline |-> d]
<1>1. rec.kind = "TaskLeased" /\ rec.task = t /\ rec.worker = w /\ rec.expires = d
  BY DEF TaskLeased
<1> HIDE DEF rec
<1>2. CASE s.tasks[t].status = "Absent"
  BY <1>1, <1>2 DEF apply_record, rec
<1>3. CASE s.tasks[t].status # "Absent"
  <2>1. x = [s EXCEPT !.tasks[t] = v]
    BY <1>1, <1>3 DEF apply_record
  <2>2. v \in L!TaskState /\ v.leased_to # NoWorker /\ v.status # "Absent"
    <3>1. s.tasks[t].attempts \in Nat
      BY DEF Good, TasksGood, L!TaskState
    <3> QED
      BY <3>1, LogAssumption DEF L!TaskState, L!TaskStatus
  <2> HIDE DEF v
  <2>3. /\ HasFields(x) /\ \A f \in Fields \ {"tasks"} : x[f] = s[f]
        /\ x.tasks = [s.tasks EXCEPT ![t] = v]
    BY <2>1 DEF Good, HasFields, Fields
  <2> HIDE DEF x
  <2>4. TasksGood(x)
    <3>1. x.tasks \in [Task -> L!TaskState] /\ \A u \in Task : x.tasks[u] = IF u = t THEN v ELSE s.tasks[u]
      BY <2>2, <2>3 DEF Good, TasksGood
    <3> QED
      BY <2>2, <3>1 DEF Good, TasksGood
  <2>5. EventsGood(x) /\ AlertsGood(x) /\ RestGood(x)
    BY <2>3 DEF Good, EventsGood, AlertsGood, RestGood, Fields
  <2> QED
    BY <2>3, <2>4, <2>5 DEF Good, x, rec
<1> QED
  BY <1>2, <1>3

\* A terminal mark keeps a good state, whichever task it is on.
LEMMA MarkedGood ==
  ASSUME NEW s, Good(s), NEW t \in Task, NEW w \in Worker \cup {NoWorker}, NEW x \in Terminal
  PROVE  Good(mark_task_terminal(s, t, w, x))
<1> PICK m : m = mark_task_terminal(s, t, w, x)
  OBVIOUS
<1>1. HasFields(m) /\ TasksGood(m) /\ Alike(m, s, Fields \ {"tasks"})
  <2>1. HasFields(s) /\ TasksGood(s)
    BY DEF Good
  <2> QED
    BY <2>1, MarkGood
<1>2. EventsGood(m) /\ AlertsGood(m) /\ RestGood(m)
  BY <1>1 DEF Good, EventsGood, AlertsGood, RestGood, Fields, Alike
<1> QED
  BY <1>1, <1>2 DEF Good

\* So does the line that is one.
LEMMA CompletedGood ==
  ASSUME NEW s, Good(s), NEW t \in Task, NEW w \in Worker \cup {NoWorker}, NEW x \in Terminal
  PROVE  Good(apply_record(s, TaskCompletedOrFailed(t, w, x)))
<1> DEFINE rec == TaskCompletedOrFailed(t, w, x)
<1>1. rec.kind = "TaskCompletedOrFailed" /\ rec.task = t /\ rec.worker = w /\ rec.status = x
  BY DEF TaskCompletedOrFailed
<1> HIDE DEF rec
<1>2. apply_record(s, rec) = mark_task_terminal(s, t, w, x)
  BY <1>1 DEF apply_record
<1> QED
  BY <1>2, MarkedGood DEF rec

\* Any receipt will do.
LEMMA ReceiptGood ==
  ASSUME NEW s, Good(s), NEW t \in Task, NEW rc \in L!Receipt PROVE Good([s EXCEPT !.receipts[t] = rc])
<1> DEFINE x == [s EXCEPT !.receipts[t] = rc]
<1>1. /\ HasFields(x) /\ \A f \in Fields \ {"receipts"} : x[f] = s[f]
      /\ x.receipts = [s.receipts EXCEPT ![t] = rc]
  BY DEF Good, HasFields, Fields
<1> HIDE DEF x
<1>2. TasksGood(x) /\ EventsGood(x) /\ AlertsGood(x)
  BY <1>1 DEF Good, TasksGood, EventsGood, AlertsGood, Fields
<1>3. RestGood(x)
  BY <1>1 DEF Good, RestGood, Fields
<1> QED
  BY <1>1, <1>2, <1>3 DEF Good, x

\* So a receipt line keeps a good state.
LEMMA RecordedGood ==
  ASSUME NEW s, Good(s), NEW t \in Task, NEW rc \in L!Receipt
  PROVE  Good(apply_record(s, ReceiptRecorded(t, rc)))
<1> DEFINE rec == ReceiptRecorded(t, rc)
<1>1. rec.kind = "ReceiptRecorded" /\ rec.task = t /\ rec.receipt = rc
  BY DEF ReceiptRecorded
<1> HIDE DEF rec
<1>2. apply_record(s, rec) = [s EXCEPT !.receipts[t] = rc]
  BY <1>1 DEF apply_record
<1> QED
  BY <1>2, ReceiptGood DEF rec

\* A finalized attempt is an event, a mark and a receipt.
LEMMA FinalizedGood ==
  ASSUME NEW s, Good(s), NEW t \in Task, NEW w \in Worker, NEW q \in Nat, NEW p \in Terminal,
         NEW f \in Terminal \cup {L!NoStatus}, NEW rc \in L!Receipt
  PROVE  Good(apply_record(s, TaskAttemptFinalized(t, w, q, p, f, rc)))
<1> DEFINE rec == TaskAttemptFinalized(t, w, q, p, f, rc)
           ended == apply_event(s, t, w, q, p)
           final == IF f = L!NoStatus THEN ended ELSE mark_task_terminal(ended, t, w, f)
<1>1. /\ rec.kind = "TaskAttemptFinalized" /\ rec.task = t /\ rec.worker = w /\ rec.seq = q
      /\ rec.payload = p /\ rec.final_status = f /\ rec.receipt = rc
  BY DEF TaskAttemptFinalized
<1> HIDE DEF rec
<1>2. apply_record(s, rec) = [final EXCEPT !.receipts[t] = rc]
  <2>1. apply_record(s, rec) = apply_finalized(s, rec)
    BY <1>1 DEF apply_record
  <2> QED
    BY <1>1, <2>1 DEF apply_finalized
<1>3. Good(ended)
  BY EventGood, EventKinds
<1>4. Good(final)
  BY <1>3, MarkedGood
<1> QED
  BY <1>2, <1>4, ReceiptGood DEF rec

\* An event line is an event.
LEMMA AppendedGood ==
  ASSUME NEW s, Good(s), NEW t \in Task, NEW w \in Worker, NEW q \in Nat, NEW p \in Payload
  PROVE  Good(apply_record(s, EventAppended(t, w, q, p)))
BY ReplayEvent, EventGood

\* A checkpoint of a number may only raise it.
LEMMA NumberGood ==
  ASSUME NEW s, Good(s), NEW t \in Task, NEW w \in Worker, NEW q \in Nat
  PROVE  Good(apply_record(s, EventSequenceCheckpoint(t, w, q)))
<1> DEFINE rec == EventSequenceCheckpoint(t, w, q)
           x == apply_record(s, rec)
           n == IF q > s.latest_seq[w][t] THEN q ELSE s.latest_seq[w][t]
<1>1. rec.kind = "EventSequenceCheckpoint" /\ rec.task = t /\ rec.worker = w /\ rec.seq = q
  BY DEF EventSequenceCheckpoint
<1> HIDE DEF rec
<1>2. x = [s EXCEPT !.latest_seq[w][t] = IF q > @ THEN q ELSE @]
  BY <1>1 DEF apply_record
<1>3. /\ HasFields(x) /\ \A f \in Fields \ {"latest_seq"} : x[f] = s[f]
      /\ x.latest_seq = Put(s.latest_seq, w, t, n)
  BY <1>2 DEF Good, HasFields, Fields, Put
<1>4. n \in Nat /\ n >= s.latest_seq[w][t]
  BY DEF Good, EventsGood, Table
<1> HIDE DEF x, n
<1>5. TasksGood(x) /\ RestGood(x)
  BY <1>3 DEF Good, TasksGood, RestGood, Fields
<1>6. x.latest_seq \in Table(Nat)
  BY <1>3, <1>4, PutTyped DEF Good, EventsGood
<1>7. EventsGood(x)
  BY <1>3, <1>6 DEF Good, EventsGood, Fields
<1>8. \A v \in Worker, u \in Task : x.latest_seq[v][u] = IF v = w /\ u = t THEN n ELSE s.latest_seq[v][u]
  BY <1>3, PutValue DEF Good, EventsGood
<1>9. AlertsGood(x)
  <2>1. ASSUME NEW a \in s.alert_seq PROVE a[3] <= x.latest_seq[a[2]][a[1][1]]
    <3>1. a[3] \in Nat /\ a[2] \in Worker /\ a[1][1] \in Task /\ a[3] <= s.latest_seq[a[2]][a[1][1]]
      BY DEF Good, AlertsGood, AlertKey
    <3>2. s.latest_seq[a[2]][a[1][1]] \in Nat
      BY <3>1 DEF Good, EventsGood, Table
    <3> QED
      BY <1>4, <1>8, <3>1, <3>2
  <2> QED
    BY <1>3, <2>1 DEF Good, AlertsGood, Fields
<1> QED
  BY <1>3, <1>5, <1>7, <1>9 DEF Good, x, rec

\* Any heartbeat will do.
LEMMA HeartbeatGood ==
  ASSUME NEW s, Good(s), NEW w \in Worker, NEW ts \in Nat PROVE Good(apply_record(s, Heartbeat(w, ts)))
<1> DEFINE rec == Heartbeat(w, ts)
           x == apply_record(s, rec)
<1>1. rec.kind = "Heartbeat" /\ rec.worker = w /\ rec.timestamp = ts
  BY DEF Heartbeat
<1> HIDE DEF rec
<1>2. x = [s EXCEPT !.heartbeats[w] = ts]
  BY <1>1 DEF apply_record
<1>3. /\ HasFields(x) /\ \A f \in Fields \ {"heartbeats"} : x[f] = s[f]
      /\ x.heartbeats = [s.heartbeats EXCEPT ![w] = ts]
  BY <1>2 DEF Good, HasFields, Fields
<1> HIDE DEF x
<1>4. TasksGood(x) /\ EventsGood(x) /\ AlertsGood(x)
  BY <1>3 DEF Good, TasksGood, EventsGood, AlertsGood, Fields
<1>5. RestGood(x)
  BY <1>3 DEF Good, RestGood, Fields
<1> QED
  BY <1>3, <1>4, <1>5 DEF Good, x, rec

\* An alert is recorded under its key, with the number of the event it is.
LEMMA SentGood ==
  ASSUME NEW s, Good(s), NEW t \in Task, NEW w \in Worker, NEW n \in Nat, NEW c \in Channel, NEW q \in Nat
  PROVE  Good(apply_record(s, AlertSent(t, w, n, c, q)))
<1> DEFINE rec == AlertSent(t, w, n, c, q)
           key == <<t, n, c>>
           sent == [s EXCEPT !.alerts = @ \cup {key}, !.alert_seq = @ \cup {<<key, w, q>>}]
           x == apply_event(sent, t, w, q, "Escalated")
<1>1. /\ rec.kind = "AlertSent" /\ rec.task = t /\ rec.worker = w /\ rec.attempt = n
      /\ rec.channel = c /\ rec.seq = q
  BY DEF AlertSent
<1> HIDE DEF rec
<1>2. apply_record(s, rec) = IF key \in s.alerts THEN s ELSE x
  <2>1. apply_record(s, rec) = apply_alert(s, rec)
    BY <1>1 DEF apply_record
  <2> QED
    BY <1>1, <2>1 DEF apply_alert
<1>3. CASE key \in s.alerts
  BY <1>2, <1>3 DEF rec
<1>4. CASE key \notin s.alerts
  <2>1. /\ HasFields(sent) /\ \A f \in Fields \ {"alerts", "alert_seq"} : sent[f] = s[f]
        /\ sent.alerts = s.alerts \cup {key} /\ sent.alert_seq = s.alert_seq \cup {<<key, w, q>>}
    BY DEF Good, HasFields, Fields
  <2> HIDE DEF sent
  <2>2. TasksGood(sent) /\ EventsGood(sent) /\ RestGood(sent)
    BY <2>1 DEF Good, TasksGood, EventsGood, RestGood, Fields
  <2> DEFINE y == apply_event(s, t, w, q, "Escalated")
  <2>3. "Escalated" \in Payload /\ "Escalated" \notin Terminal
    BY EventKinds DEF Terminal, L!Terminal
  <2>4. Good(y)
    BY <2>3, EventGood
  <2>5. /\ y.latest_seq = Put(s.latest_seq, w, t, IF q > s.latest_seq[w][t] THEN q ELSE s.latest_seq[w][t])
        /\ y.alerts = s.alerts /\ y.alert_seq = s.alert_seq
    <3>1. HasFields(s)
      BY DEF Good
    <3> PICK e : e = [seq |-> q, payload |-> "Escalated"]
      OBVIOUS
    <3> PICK r : r = y
      OBVIOUS
    <3>2. /\ r.latest_seq = Put(s.latest_seq, w, t, IF q > s.latest_seq[w][t] THEN q ELSE s.latest_seq[w][t])
          /\ r.alerts = s.alerts /\ r.alert_seq = s.alert_seq
      BY <3>1, EventEffect
    <3> QED
      BY <3>2
  <2>6. /\ HasFields(x) /\ \A f \in Fields \ {"alerts", "alert_seq"} : x[f] = y[f]
        /\ x.alerts = sent.alerts /\ x.alert_seq = sent.alert_seq
    <3> DEFINE e == [seq |-> q, payload |-> "Escalated"]
    <3>1. /\ HasFields(x) /\ x.tasks = s.tasks
          /\ x.latest_seq = y.latest_seq /\ x.latest_events = y.latest_events
          /\ x.restarted_events = y.restarted_events /\ x.escalated_events = y.escalated_events
          /\ x.alerts = sent.alerts /\ x.alert_seq = sent.alert_seq
          /\ x.heartbeats = y.heartbeats /\ x.receipts = y.receipts /\ x.runs = y.runs
          /\ y.tasks = s.tasks
      <4>1. HasFields(s) /\ HasFields(sent)
        BY <2>1 DEF Good
      <4>2. /\ HasFields(x) /\ x.tasks = sent.tasks
            /\ x.latest_seq = Put(sent.latest_seq, w, t,
                 IF q > sent.latest_seq[w][t] THEN q ELSE sent.latest_seq[w][t])
            /\ x.latest_events = Put(sent.latest_events, w, t,
                 IF q > sent.latest_seq[w][t]
                    /\ ~ (sent.tasks[t].status \in Terminal /\ "Escalated" \in Regressing) THEN e
                 ELSE sent.latest_events[w][t])
            /\ x.restarted_events = Put(sent.restarted_events, w, t, sent.restarted_events[w][t])
            /\ x.escalated_events = Put(sent.escalated_events, w, t, e)
            /\ x.alerts = sent.alerts /\ x.alert_seq = sent.alert_seq
            /\ x.heartbeats = sent.heartbeats /\ x.receipts = sent.receipts /\ x.runs = sent.runs
        BY <2>3, <4>1, EventEffect
      <4>3. /\ HasFields(y) /\ y.tasks = s.tasks
            /\ y.latest_seq = Put(s.latest_seq, w, t,
                 IF q > s.latest_seq[w][t] THEN q ELSE s.latest_seq[w][t])
            /\ y.latest_events = Put(s.latest_events, w, t,
                 IF q > s.latest_seq[w][t]
                    /\ ~ (s.tasks[t].status \in Terminal /\ "Escalated" \in Regressing) THEN e
                 ELSE s.latest_events[w][t])
            /\ y.restarted_events = Put(s.restarted_events, w, t, s.restarted_events[w][t])
            /\ y.escalated_events = Put(s.escalated_events, w, t, e)
            /\ y.heartbeats = s.heartbeats /\ y.receipts = s.receipts /\ y.runs = s.runs
        BY <2>3, <4>1, EventEffect
      <4>4. /\ sent.tasks = s.tasks /\ sent.latest_seq = s.latest_seq /\ sent.latest_events = s.latest_events
            /\ sent.restarted_events = s.restarted_events /\ sent.escalated_events = s.escalated_events
            /\ sent.heartbeats = s.heartbeats /\ sent.receipts = s.receipts /\ sent.runs = s.runs
        BY <2>1 DEF Fields
      <4> HIDE DEF x, y, e
      <4> QED
        BY <4>2, <4>3, <4>4
    <3> HIDE DEF x, y
    <3> QED
      BY <3>1 DEF Fields
  <2> HIDE DEF x, y
  <2>7. TasksGood(x) /\ EventsGood(x) /\ RestGood(x)
    BY <2>4, <2>6 DEF Good, TasksGood, EventsGood, RestGood, Fields
  <2>8. y.latest_seq[w][t] >= q
    <3>1. s.latest_seq[w][t] \in Nat /\ s.latest_seq \in Table(Nat)
      BY DEF Good, EventsGood, Table
    <3>2. y.latest_seq[w][t] = IF q > s.latest_seq[w][t] THEN q ELSE s.latest_seq[w][t]
      BY <2>5, <3>1, PutValue
    <3> QED
      BY <3>1, <3>2
  <2>9. AlertsGood(x)
    <3> PICK a : a = <<key, w, q>>
      OBVIOUS
    <3>1. x.alert_seq = s.alert_seq \cup {a} /\ x.alerts = s.alerts \cup {a[1]} /\ a[1] = key
          /\ a[2] = w /\ a[3] = q /\ a[1][1] = t /\ a \in AlertKey \X Worker \X Nat
      BY <2>1, <2>6 DEF AlertKey
    <3>2. IsFiniteSet(x.alert_seq)
      <4> PICK S : S = s.alert_seq
        OBVIOUS
      <4>1. IsFiniteSet(S)
        BY DEF Good, AlertsGood
      <4>2. IsFiniteSet(S \cup {a})
        BY <4>1, FS_AddElement, Zenon
      <4> QED
        BY <3>1, <4>2
    <3>3. x.alert_seq \subseteq AlertKey \X Worker \X Nat /\ x.alerts = {b[1] : b \in x.alert_seq}
      BY <3>1 DEF Good, AlertsGood
    <3>4. \A b \in s.alert_seq : b[1] # a[1]
      BY <1>4, <3>1 DEF Good, AlertsGood
    <3>5. \A b, d \in x.alert_seq : b[1] = d[1] => b = d
      BY <3>1, <3>4 DEF Good, AlertsGood
    <3>6. ASSUME NEW b \in x.alert_seq PROVE b[3] <= x.latest_seq[b[2]][b[1][1]]
      <4>1. x.latest_seq = y.latest_seq
        BY <2>6 DEF Fields
      <4>2. CASE b = a
        <5>1. y.latest_seq[w][t] \in Nat
          BY <2>4 DEF Good, EventsGood, Table
        <5> QED
          BY <2>8, <3>1, <4>1, <4>2, <5>1
      <4>3. CASE b \in s.alert_seq
        BY <2>4, <2>5, <4>1, <4>3 DEF Good, AlertsGood
      <4> QED
        BY <3>1, <4>2, <4>3
    <3> QED
      BY <3>2, <3>3, <3>5, <3>6 DEF AlertsGood
  <2>10. Good(x)
    BY <2>6, <2>7, <2>9 DEF Good
  <2> QED
    BY <1>2, <1>4, <2>10 DEF rec, x
<1> QED
  BY <1>3, <1>4

\* Whatever line is replayed, and so whatever file.
LEMMA LineGood == ASSUME NEW s, Good(s), NEW rec \in Line PROVE Good(apply_record(s, rec))
<1>1. ASSUME NEW r \in Run, rec = RunCreated(r) PROVE Good(apply_record(s, rec))
  BY <1>1, RunGood
<1>2. ASSUME NEW t \in Task, NEW n \in Nat, rec = TaskEnqueued(t, n) PROVE Good(apply_record(s, rec))
  BY <1>2, EnqueuedGood
<1>3. ASSUME NEW t \in Task, NEW w \in Worker, NEW d \in Nat, rec = TaskLeased(t, w, d)
      PROVE  Good(apply_record(s, rec))
  BY <1>3, LeasedGood
<1>4. ASSUME NEW t \in Task, NEW w \in Worker \cup {NoWorker}, NEW x \in Terminal,
             rec = TaskCompletedOrFailed(t, w, x)
      PROVE  Good(apply_record(s, rec))
  BY <1>4, CompletedGood
<1>5. ASSUME NEW t \in Task, NEW w \in Worker, NEW q \in Nat, NEW p \in Terminal,
             NEW f \in Terminal \cup {L!NoStatus}, NEW rc \in L!Receipt,
             rec = TaskAttemptFinalized(t, w, q, p, f, rc)
      PROVE  Good(apply_record(s, rec))
  BY <1>5, FinalizedGood
<1>6. ASSUME NEW t \in Task, NEW w \in Worker, NEW q \in Nat, NEW p \in Payload,
             rec = EventAppended(t, w, q, p)
      PROVE  Good(apply_record(s, rec))
  BY <1>6, AppendedGood
<1>7. ASSUME NEW t \in Task, NEW w \in Worker, NEW q \in Nat, rec = EventSequenceCheckpoint(t, w, q)
      PROVE  Good(apply_record(s, rec))
  BY <1>7, NumberGood
<1>8. ASSUME NEW w \in Worker, NEW ts \in Nat, rec = Heartbeat(w, ts) PROVE Good(apply_record(s, rec))
  BY <1>8, HeartbeatGood
<1>9. ASSUME NEW t \in Task, NEW rc \in L!Receipt, rec = ReceiptRecorded(t, rc)
      PROVE  Good(apply_record(s, rec))
  BY <1>9, RecordedGood
<1>10. ASSUME NEW t \in Task, NEW w \in Worker, NEW n \in Nat, NEW c \in Channel, NEW q \in Nat,
              rec = AlertSent(t, w, n, c, q)
       PROVE  Good(apply_record(s, rec))
  BY <1>10, SentGood
<1>11. ASSUME rec = Malformed PROVE Good(apply_record(s, rec))
  <2>1. rec.kind = "Malformed"
    BY <1>11 DEF Malformed
  <2> QED
    BY <2>1 DEF apply_record
<1>12. \/ \E r \in Run : rec = RunCreated(r)
       \/ \E t \in Task, n \in Nat : rec = TaskEnqueued(t, n)
       \/ \E t \in Task, w \in Worker, d \in Nat : rec = TaskLeased(t, w, d)
       \/ \E t \in Task, w \in Worker \cup {NoWorker}, x \in Terminal : rec = TaskCompletedOrFailed(t, w, x)
       \/ \E t \in Task, w \in Worker, q \in Nat, p \in Terminal, f \in Terminal \cup {L!NoStatus},
            rc \in L!Receipt : rec = TaskAttemptFinalized(t, w, q, p, f, rc)
       \/ \E t \in Task, w \in Worker, q \in Nat, p \in Payload : rec = EventAppended(t, w, q, p)
       \/ \E t \in Task, w \in Worker, q \in Nat : rec = EventSequenceCheckpoint(t, w, q)
       \/ \E w \in Worker, ts \in Nat : rec = Heartbeat(w, ts)
       \/ \E t \in Task, rc \in L!Receipt : rec = ReceiptRecorded(t, rc)
       \/ \E t \in Task, w \in Worker, n \in Nat, c \in Channel, q \in Nat : rec = AlertSent(t, w, n, c, q)
       \/ rec = Malformed
  BY DEF Line
<1> QED
  BY <1>1, <1>2, <1>3, <1>4, <1>5, <1>6, <1>7, <1>8, <1>9, <1>10, <1>11, <1>12, Zenon

\* The state of an empty file is good.
LEMMA EmptyGood == Good(EmptyState)
<1> PICK s : s = EmptyState
  OBVIOUS
<1>1. /\ HasFields(s)
      /\ s.tasks = [t \in Task |-> [status |-> "Absent", leased_to |-> NoWorker,
                                    attempts |-> 0, lease_deadline |-> 0]]
      /\ s.latest_seq = [w \in Worker |-> [t \in Task |-> 0]]
      /\ s.heartbeats = [w \in Worker |-> 0] /\ s.receipts = [t \in Task |-> L!NoReceipt]
      /\ s.alerts = {} /\ s.runs = {} /\ s.alert_seq = {}
      /\ s.latest_events = [w \in Worker |-> [t \in Task |-> NoEvent]]
      /\ s.restarted_events = [w \in Worker |-> [t \in Task |-> NoEvent]]
      /\ s.escalated_events = [w \in Worker |-> [t \in Task |-> NoEvent]]
  BY DEF EmptyState, HasFields, Fields
<1>2. TasksGood(s)
  BY <1>1 DEF TasksGood, L!TaskState, L!TaskStatus
<1>3. EventsGood(s)
  <2>1. NoEvent \in Event /\ NoEvent.payload \notin Terminal
    BY DEF Event, NoEvent, Terminal, L!Terminal
  <2> HIDE DEF NoEvent
  <2> QED
    BY <1>1, <2>1 DEF EventsGood, Table
<1>4. AlertsGood(s)
  BY <1>1, FS_EmptySet DEF AlertsGood
<1>5. RestGood(s)
  BY <1>1 DEF RestGood, L!NoReceipt, L!Receipt
<1> QED
  BY <1>1, <1>2, <1>3, <1>4, <1>5 DEF Good

\* And so is the state of every file.
LEMMA FileGood == ASSUME NEW lines \in Seq(Line) PROVE Good(rebuild_state(lines))
<1> DEFINE n == Len(lines)
           G == {i \in 0 .. n : Good(After(<<>>, lines, i))}
<1>1. n \in Nat /\ \A i \in 1 .. n : lines[i] \in Line
  BY LenProperties, ElementOfSeq
<1>2. <<>> \in Seq(Line)
  OBVIOUS
<1>3. 0 \in G
  <2>1. After(<<>>, lines, 0) = EmptyState
    BY <1>2, AfterStep, RebuildEmpty
  <2> QED
    BY <1>1, <2>1, EmptyGood
<1>4. ASSUME NEW i \in 1 .. n, i - 1 \in G PROVE i \in G
  <2>1. After(<<>>, lines, i) = apply_record(After(<<>>, lines, i - 1), lines[i])
    BY <1>2, AfterStep
  <2>2. Good(After(<<>>, lines, i - 1)) /\ lines[i] \in Line /\ i \in 0 .. n
    BY <1>1, <1>4
  <2> QED
    BY <2>1, <2>2, LineGood
<1>5. n \in G
  <2> HIDE DEF G, n
  <2>1. \A i \in 0 .. n : i \in G
    BY <1>1, <1>3, <1>4, Induction
  <2>2. n \in 0 .. n
    BY <1>1
  <2> QED
    BY <2>1, <2>2
<1>6. After(<<>>, lines, n) = rebuild_state(lines)
  <2>1. SubSeq(lines, 1, Len(lines)) = lines
    BY SubSeqFull
  <2>2. <<>> \o lines = lines
    BY ConcatEmptySeq
  <2> QED
    BY <2>1, <2>2 DEF After
<1> QED
  BY <1>5, <1>6

--------------------------------------------------------------------------------
(* What whole appends keep.                                                *)

\* A worker's retained event that ended a task agrees with the task: it is over, and
\* that worker was its last.  E are the streams for which it need not.
EndsBut(s, E) ==
  \A w \in Worker, t \in Task :
    s.latest_events[w][t].payload \in Terminal /\ <<w, t>> \notin E =>
      s.tasks[t].status \in Terminal /\ s.tasks[t].leased_to = w
Ends(s) == EndsBut(s, {})

\* Other fields do not matter.
LEMMA EndsAside ==
  ASSUME NEW s, NEW E, EndsBut(s, E), NEW r, r.tasks = s.tasks, r.latest_events = s.latest_events
  PROVE  EndsBut(r, E)
BY DEF EndsBut

\* A terminal mark that names no other worker keeps it.
LEMMA MarkEnds ==
  ASSUME NEW s, Good(s), NEW E, EndsBut(s, E), NEW t \in Task, NEW w \in Worker \cup {NoWorker},
         w = NoWorker \/ w = s.tasks[t].leased_to, NEW x \in Terminal,
         NEW m, m = mark_task_terminal(s, t, w, x)
  PROVE  EndsBut(m, E)
<1>0. HasFields(s) /\ TasksGood(s)
  BY DEF Good
<1>1. /\ Alike(m, s, Fields \ {"tasks"})
      /\ \A u \in Task :
           m.tasks[u] = IF u # t \/ s.tasks[t].status = "Absent" THEN s.tasks[u]
                        ELSE [status |-> x, leased_to |-> IF w = NoWorker THEN s.tasks[t].leased_to ELSE w,
                              attempts |-> s.tasks[t].attempts,
                              lease_deadline |-> s.tasks[t].lease_deadline]
  BY <1>0, MarkGood
<1>2. m.latest_events = s.latest_events
  BY <1>1 DEF Alike, Fields
<1>3. ASSUME NEW u \in Task
      PROVE  /\ m.tasks[u].leased_to = s.tasks[u].leased_to
             /\ s.tasks[u].status \in Terminal => m.tasks[u].status \in Terminal
  BY <1>1
<1> QED
  BY <1>2, <1>3 DEF EndsBut

\* So does an event, if it is not a terminal one of another worker than the last.
LEMMA EventEnds ==
  ASSUME NEW s, Good(s), NEW E, EndsBut(s, E), NEW t \in Task, NEW w \in Worker, NEW q \in Nat,
         NEW p \in Payload,
         p \in Terminal => s.tasks[t].status # "Absent" /\ s.tasks[t].leased_to = w,
         NEW r, r = apply_event(s, t, w, q, p)
  PROVE  EndsBut(r, E)
<1> PICK e : e = [seq |-> q, payload |-> p]
  OBVIOUS
<1> PICK le : le = IF q > s.latest_seq[w][t] /\ ~ (s.tasks[t].status \in Terminal /\ p \in Regressing) THEN e
              ELSE s.latest_events[w][t]
  OBVIOUS
<1>0. HasFields(s) /\ TasksGood(s) /\ s.latest_events \in Table(Event)
  BY DEF Good, EventsGood
<1>1. /\ r.tasks = IF p \in Terminal THEN mark_task_terminal(s, t, w, p).tasks ELSE s.tasks
      /\ r.latest_events = Put(s.latest_events, w, t, le)
  BY <1>0, EventEffect
<1>2. \A v \in Worker, u \in Task :
        r.latest_events[v][u] = IF v = w /\ u = t THEN le ELSE s.latest_events[v][u]
  BY <1>0, <1>1, PutValue
<1>3. le.payload = p \/ le = s.latest_events[w][t]
  OBVIOUS
<1>4. CASE p \notin Terminal
  BY <1>1, <1>2, <1>3, <1>4 DEF EndsBut
<1>5. CASE p \in Terminal
  <2> PICK m : m = mark_task_terminal(s, t, w, p)
    OBVIOUS
  <2>1. \A u \in Task :
           m.tasks[u] = IF u # t \/ s.tasks[t].status = "Absent" THEN s.tasks[u]
                        ELSE [status |-> p, leased_to |-> IF w = NoWorker THEN s.tasks[t].leased_to ELSE w,
                              attempts |-> s.tasks[t].attempts,
                              lease_deadline |-> s.tasks[t].lease_deadline]
    BY <1>0, <1>5, MarkGood
  <2>2. /\ r.tasks[t].status \in Terminal /\ r.tasks[t].leased_to = w
        /\ \A u \in Task : u # t => r.tasks[u] = s.tasks[u]
    BY <1>1, <1>5, <2>1, LogAssumption
  <2>3. ASSUME NEW v \in Worker, r.latest_events[v][t].payload \in Terminal, <<v, t>> \notin E
        PROVE  v = w
    BY <1>2, <1>5, <2>3 DEF EndsBut
  <2> QED
    BY <1>2, <2>2, <2>3 DEF EndsBut
<1> QED
  BY <1>4, <1>5

\* The next event of a stream replaces the retained one, unless the task is over.
LEMMA EventRenews ==
  ASSUME NEW s, Good(s), NEW E, EndsBut(s, E), NEW t \in Task, NEW w \in Worker, NEW q \in Nat,
         NEW p \in Payload \ Terminal, q > s.latest_seq[w][t], s.tasks[t].status \notin Terminal,
         NEW r, r = apply_event(s, t, w, q, p)
  PROVE  EndsBut(r, E \ {<<w, t>>})
<1> PICK e : e = [seq |-> q, payload |-> p]
  OBVIOUS
<1>0. HasFields(s) /\ s.latest_events \in Table(Event)
  BY DEF Good, EventsGood
<1>1. r.tasks = s.tasks /\ r.latest_events = Put(s.latest_events, w, t, e)
  BY <1>0, EventEffect
<1>2. \A v \in Worker, u \in Task :
        r.latest_events[v][u] = IF v = w /\ u = t THEN e ELSE s.latest_events[v][u]
  BY <1>0, <1>1, PutValue
<1> QED
  BY <1>1, <1>2 DEF EndsBut

\* A lease of a task that was over leaves the stream of its worker behind.
LEMMA LeaseEnds ==
  ASSUME NEW s, Good(s), Ends(s), NEW t \in Task, NEW w \in Worker, NEW d \in Nat,
         s.tasks[t].status # "Absent", s.tasks[t].leased_to = w \/ s.tasks[t].status \notin Terminal,
         NEW r, r = apply_record(s, TaskLeased(t, w, d))
  PROVE  EndsBut(r, {<<w, t>>}) /\ (s.tasks[t].status \notin Terminal => Ends(r))
<1> PICK rec : rec = TaskLeased(t, w, d)
  OBVIOUS
<1>1. rec.kind = "TaskLeased" /\ rec.task = t
  BY DEF TaskLeased
<1>2. r = [s EXCEPT !.tasks[t] = [status |-> "Leased", leased_to |-> rec.worker,
                 attempts |-> @.attempts + 1, lease_deadline |-> rec.expires]]
  BY <1>1 DEF apply_record
<1>3. r.latest_events = s.latest_events /\ \A u \in Task : u # t => r.tasks[u] = s.tasks[u]
  BY <1>2 DEF Good, HasFields, Fields, TasksGood
<1> QED
  BY <1>3 DEF Ends, EndsBut

\* The file of a behaviour whose appends are whole.
Whole == FileOK /\ Typed /\ Good(state) /\ Ends(state) /\ "tearing" \notin mode

\* A batch is replayed to its end.
LEMMA WholeBatch ==
  ASSUME Whole, NEW recs \in Seq(Line), append_records_unlocked(recs)
  PROVE  /\ state' = After(file, recs, Len(recs)) /\ After(file, recs, 0) = state
         /\ \A k \in 0 .. Len(recs) : Good(After(file, recs, k))
         /\ \A k \in 1 .. Len(recs) : After(file, recs, k) = apply_record(After(file, recs, k - 1), recs[k])
<1>1. file \in Seq(Line) /\ state = rebuild_state(file)
  BY DEF Whole, FileOK
<1>2. state' = After(file, recs, Len(recs))
  <2>1. SubSeq(recs, 1, Len(recs)) = recs
    BY SubSeqFull
  <2>2. Appended(recs)
    BY DEF append_records_unlocked, Torn, Whole
  <2> QED
    BY <2>1, <2>2 DEF Appended, Written, After
<1>3. ASSUME NEW k \in 0 .. Len(recs) PROVE Good(After(file, recs, k))
  <2>1. \A i \in 1 .. k : recs[i] \in Line
    <3>1. Len(recs) \in Nat
      BY LenProperties
    <3> QED
      BY <3>1, ElementOfSeq
  <2>2. SubSeq(recs, 1, k) \in Seq(Line)
    BY <2>1, SubSeqProperties
  <2>3. file \o SubSeq(recs, 1, k) \in Seq(Line)
    BY <1>1, <2>2, ConcatProperties
  <2> QED
    BY <2>3, FileGood DEF After
<1> QED
  BY <1>1, <1>2, <1>3, AfterStep

\* A batch of one record that is appended whole.
LEMMA WholeRecord ==
  ASSUME Whole, NEW rec \in Line, append_records_unlocked(<<rec>>)
  PROVE  state' = apply_record(state, rec)
<1>1. <<rec>> \in Seq(Line) /\ Len(<<rec>>) = 1 /\ <<rec>>[1] = rec /\ 1 \in 1 .. 1 /\ 1 - 1 = 0
  OBVIOUS
<1> QED
  BY <1>1, WholeBatch

\* The operations, one by one.
LEMMA CreateEnds == ASSUME Whole, NEW r \in Run, create_run(r) PROVE Ends(state')
<1> PICK rec : rec = RunCreated(r)
  OBVIOUS
<1>1. rec \in Line /\ rec.kind = "RunCreated"
  BY DEF Line, RunCreated, create_run
<1>2. state' = apply_record(state, rec)
  BY <1>1, WholeRecord DEF create_run
<1>3. state' = [state EXCEPT !.runs = @ \cup {rec.run}]
  BY <1>1, <1>2 DEF apply_record
<1> QED
  BY <1>3, EndsAside DEF Whole, Good, HasFields, Fields, Ends

\* A heartbeat.
LEMMA HeartbeatEnds == ASSUME Whole, NEW w \in Worker, NEW ts \in L!Timestamp, heartbeat(w, ts) PROVE Ends(state')
<1> PICK rec : rec = Heartbeat(w, ts)
  OBVIOUS
<1>1. rec \in Line /\ rec.kind = "Heartbeat"
  BY LogAssumption DEF Line, L!Timestamp, Heartbeat
<1>2. state' = apply_record(state, rec)
  BY <1>1, WholeRecord DEF heartbeat
<1>3. state' = [state EXCEPT !.heartbeats[rec.worker] = rec.timestamp]
  BY <1>1, <1>2 DEF apply_record
<1> QED
  BY <1>3, EndsAside DEF Whole, Good, HasFields, Fields, Ends

\* A task that is enqueued was absent, so no retained event ended it.
LEMMA EnqueueEnds == ASSUME Whole, NEW t \in Task, enqueue(t) PROVE Ends(state')
<1> PICK rec : rec = TaskEnqueued(t, 0)
  OBVIOUS
<1>1. rec \in Line /\ rec.kind = "TaskEnqueued" /\ rec.task = t /\ rec.attempts = 0
  BY DEF Line, TaskEnqueued
<1>2. state' = apply_record(state, rec) /\ state.tasks[t].status = "Absent"
  BY <1>1, WholeRecord DEF enqueue
<1>3. state' = [state EXCEPT !.tasks[t].status = "Enqueued", !.tasks[t].attempts = 0]
  BY <1>1, <1>2 DEF apply_record
<1>4. state'.latest_events = state.latest_events /\ \A u \in Task : u # t => state'.tasks[u] = state.tasks[u]
  BY <1>3 DEF Whole, Good, HasFields, Fields, TasksGood
<1>5. "Absent" \notin Terminal
  BY DEF Terminal, L!Terminal
<1> QED
  BY <1>2, <1>4, <1>5 DEF Whole, Ends, EndsBut

\* A task that is claimed was queued, so no retained event ended it.
LEMMA ClaimEnds == ASSUME Whole, NEW t \in Task, NEW w \in Worker, claim_next(t, w) PROVE Ends(state')
<1> PICK rec : rec = TaskLeased(t, w, 0)
  OBVIOUS
<1>1. rec \in Line /\ state.tasks[t].status = "Enqueued" /\ append_records_unlocked(<<rec>>)
  BY DEF Line, claim_next
<1>2. state' = apply_record(state, TaskLeased(t, w, 0))
  BY <1>1, WholeRecord
<1>3. "Enqueued" \notin Terminal
  BY DEF Terminal, L!Terminal
<1> QED
  BY <1>1, <1>2, <1>3, LeaseEnds DEF Whole

\* An event that ends nothing, or that the task's worker ends it with.
LEMMA OneEventEnds ==
  ASSUME Whole, NEW t \in Task, NEW w \in Worker, NEW p \in Payload,
         p \in Terminal => state.tasks[t].status # "Absent" /\ state.tasks[t].leased_to = w,
         append_records_unlocked(<<EventAppended(t, w, NextSeq(t, w), p)>>)
  PROVE  Ends(state')
<1> PICK q : q = NextSeq(t, w)
  OBVIOUS
<1>1. q \in Nat
  BY DEF NextSeq, Whole, Typed
<1>2. EventAppended(t, w, q, p) \in Line
  BY <1>1 DEF Line
<1>3. state' = apply_event(state, t, w, q, p)
  BY <1>2, WholeRecord, ReplayEvent
<1> QED
  BY <1>1, <1>3, EventEnds DEF Whole, Ends

\* An event of a lease that is held is one of its worker.
LEMMA ReportEnds ==
  ASSUME Whole, NEW t \in Task, NEW w \in Worker, NEW n, NEW s, NEW h,
         \/ append_event_if_leased(t, w, n)
         \/ append_event_if_lease_unchanged(t, w, n, s, h)
         \/ append_terminal_event_if_lease_unchanged(t, w, n, s, h, "Failed")
  PROVE  Ends(state')
<1>1. /\ "Progress" \in Payload /\ "Stale" \in Payload /\ "Failed" \in Payload
      /\ "Progress" \notin Terminal /\ "Stale" \notin Terminal
  BY DEF Payload, Regressing, Terminal, L!Terminal
<1>2. CASE append_event_if_leased(t, w, n)
  BY <1>1, <1>2, OneEventEnds DEF append_event_if_leased
<1>3. CASE append_event_if_lease_unchanged(t, w, n, s, h)
  BY <1>1, <1>3, OneEventEnds DEF append_event_if_lease_unchanged
<1>4. CASE append_terminal_event_if_lease_unchanged(t, w, n, s, h, "Failed")
  <2>1. state.tasks[t].leased_to = w /\ state.tasks[t].status = "Leased"
    BY <1>4 DEF append_terminal_event_if_lease_unchanged, L!LeaseUnchanged, L!VersionUnchanged, L!IsLeased
  <2> QED
    BY <1>1, <1>4, <2>1, OneEventEnds DEF append_terminal_event_if_lease_unchanged
<1> QED
  BY <1>2, <1>3, <1>4

\* An alert is no terminal event.
LEMMA AlertEnds ==
  ASSUME Whole, NEW t \in Task, NEW w \in Worker, NEW n, NEW c \in Channel,
         record_failed_attempt_alert_once(t, w, n, c)
  PROVE  Ends(state')
<1> PICK q : q = NextSeq(t, w)
  OBVIOUS
<1> PICK rec : rec = AlertSent(t, w, n, c, q)
  OBVIOUS
<1>1. q \in Nat /\ n \in Nat /\ <<t, n, c>> \notin state.alerts
  BY LogAssumption DEF NextSeq, Whole, Typed, record_failed_attempt_alert_once, L!CanAlert, L!TaskState
<1>2. rec \in Line
  BY <1>1 DEF Line
<1>3. state' = apply_record(state, rec)
  BY <1>2, WholeRecord DEF record_failed_attempt_alert_once
<1> DEFINE key == <<t, n, c>>
           sent == [state EXCEPT !.alerts = @ \cup {key}, !.alert_seq = @ \cup {<<key, w, q>>}]
<1>4. state' = apply_event(sent, t, w, q, "Escalated")
  <2>1. /\ rec.kind = "AlertSent" /\ rec.task = t /\ rec.worker = w /\ rec.attempt = n
        /\ rec.channel = c /\ rec.seq = q
    BY DEF AlertSent
  <2>2. apply_record(state, rec) = apply_alert(state, rec)
    BY <2>1 DEF apply_record
  <2> QED
    BY <1>1, <1>3, <2>1, <2>2 DEF apply_alert
<1>5. HasFields(sent) /\ Alike(sent, state, Fields \ {"alerts", "alert_seq"})
  BY DEF Whole, Good, HasFields, Fields, Alike
<1> HIDE DEF sent
<1>6. "Escalated" \in Payload /\ "Escalated" \notin Terminal
  BY EventKinds DEF Terminal, L!Terminal
<1> PICK r : r = apply_event(state, t, w, q, "Escalated")
  OBVIOUS
<1>7. Ends(r)
  BY <1>1, <1>6, EventEnds DEF Whole, Ends
<1> PICK e : e = [seq |-> q, payload |-> "Escalated"]
  OBVIOUS
<1>8. /\ r.tasks = state.tasks
      /\ r.latest_events = Put(state.latest_events, w, t,
              IF q > state.latest_seq[w][t] /\ ~ (state.tasks[t].status \in Terminal /\ "Escalated" \in Regressing) THEN e
              ELSE state.latest_events[w][t])
  BY <1>6, EventEffect DEF Whole, Good
<1>9. /\ state'.tasks = sent.tasks
      /\ state'.latest_events = Put(sent.latest_events, w, t,
              IF q > sent.latest_seq[w][t] /\ ~ (sent.tasks[t].status \in Terminal /\ "Escalated" \in Regressing) THEN e
              ELSE sent.latest_events[w][t])
  BY <1>4, <1>5, <1>6, EventEffect
<1>10. state'.tasks = r.tasks /\ state'.latest_events = r.latest_events
  BY <1>5, <1>8, <1>9 DEF Alike, Fields
<1> QED
  BY <1>7, <1>10, EndsAside DEF Ends

\* A worker that ends its attempt is its task's last.
LEMMA FinalizeEnds ==
  ASSUME Whole, NEW t \in Task, NEW w \in Worker, NEW n \in 1 .. MaxLeases,
         NEW p \in Terminal, NEW f \in Terminal \cup {L!NoStatus}, NEW res \in Result,
         finalize_task_attempt_if_leased(t, w, n, p, f, res)
  PROVE  Ends(state')
<1> PICK q : q = NextSeq(t, w)
  OBVIOUS
<1> PICK rc : rc = [worker_id |-> w, attempt |-> n, terminal_seq |-> q, result |-> res]
  OBVIOUS
<1> PICK rec : rec = TaskAttemptFinalized(t, w, q, p, f, rc)
  OBVIOUS
<1>1. q \in Nat /\ rc \in L!Receipt
  BY DEF NextSeq, Whole, Typed, L!Receipt
<1>2. rec \in Line
  BY <1>1 DEF Line
<1>3. /\ rec.kind = "TaskAttemptFinalized" /\ rec.task = t /\ rec.worker = w /\ rec.seq = q
      /\ rec.payload = p /\ rec.final_status = f /\ rec.receipt = rc
  BY DEF TaskAttemptFinalized
<1>4. state' = apply_record(state, rec)
  <2>1. append_records_unlocked(<<rec>>)
    BY DEF finalize_task_attempt_if_leased
  <2> QED
    BY <1>2, <2>1, WholeRecord
<1>5. state.tasks[t].leased_to = w /\ state.tasks[t].status = "Leased" /\ p \in Payload
  BY EventKinds DEF finalize_task_attempt_if_leased, L!OwnsAttempt, L!IsLeased
<1> PICK ended : ended = apply_event(state, t, w, q, p)
  OBVIOUS
<1> PICK final : final = IF f = L!NoStatus THEN ended ELSE mark_task_terminal(ended, t, w, f)
  OBVIOUS
<1>6. state' = [final EXCEPT !.receipts[t] = rc]
  <2>1. apply_record(state, rec) = apply_finalized(state, rec)
    BY <1>3 DEF apply_record
  <2> QED
    BY <1>3, <1>4, <2>1 DEF apply_finalized
<1>7. Ends(ended) /\ Good(ended)
  BY <1>1, <1>5, EventEnds, EventGood DEF Whole, Ends
<1>8. ended.tasks[t].leased_to = w
  <2> PICK e : e = [seq |-> q, payload |-> p]
    OBVIOUS
  <2>1. ended.tasks = mark_task_terminal(state, t, w, p).tasks
    BY EventEffect DEF Whole, Good
  <2> PICK m : m = mark_task_terminal(state, t, w, p)
    OBVIOUS
  <2>2. m.tasks[t] = IF t # t \/ state.tasks[t].status = "Absent" THEN state.tasks[t]
                           ELSE [status |-> p, leased_to |-> IF w = NoWorker THEN state.tasks[t].leased_to ELSE w,
                                 attempts |-> state.tasks[t].attempts,
                                 lease_deadline |-> state.tasks[t].lease_deadline]
    BY MarkGood DEF Whole, Good
  <2> QED
    BY <1>5, <2>1, <2>2
<1>9. Ends(final) /\ Good(final)
  <2>1. CASE f = L!NoStatus
    BY <1>7, <2>1
  <2>2. CASE f # L!NoStatus
    <3>1. f \in Terminal /\ w \in Worker \cup {NoWorker} /\ final = mark_task_terminal(ended, t, w, f)
      BY <2>2
    <3> QED
      BY <1>7, <1>8, <3>1, MarkEnds, MarkedGood DEF Ends
  <2> QED
    BY <2>1, <2>2
<1> QED
  BY <1>6, <1>9, EndsAside DEF Good, HasFields, Fields, Ends

\* A cancelled task keeps its worker.
LEMMA CancelEnds ==
  ASSUME Whole, NEW t \in Task, NEW e \in Worker \cup {NoWorker}, cancel_task_if_active(t, e)
  PROVE  Ends(state')
<1> PICK w : w = state.tasks[t].leased_to
  OBVIOUS
<1>1. /\ w \in Worker \cup {NoWorker} /\ state.tasks[t].status # "Absent"
      /\ \/ /\ w # NoWorker
            /\ append_records_unlocked(
                 <<EventAppended(t, w, NextSeq(t, w), "Interrupted"),
                   EventAppended(t, w, NextSeq(t, w) + 1, "Cancelled")>>)
         \/ /\ w = NoWorker
            /\ append_records_unlocked(<<TaskCompletedOrFailed(t, NoWorker, "Cancelled")>>)
  BY DEF cancel_task_if_active, Whole, Typed, L!TaskState
<1>2. "Cancelled" \in Terminal /\ "Cancelled" \in Payload /\ "Interrupted" \in Payload /\ "Interrupted" \notin Terminal
  BY EventKinds DEF Terminal, L!Terminal, Regressing
<1>3. CASE w = NoWorker
  <2> PICK rec : rec = TaskCompletedOrFailed(t, NoWorker, "Cancelled")
    OBVIOUS
  <2>1. rec \in Line /\ append_records_unlocked(<<rec>>)
    BY <1>1, <1>2, <1>3 DEF Line
  <2>2. state' = apply_record(state, rec)
    BY <2>1, WholeRecord
  <2>3. rec.kind = "TaskCompletedOrFailed" /\ rec.task = t /\ rec.worker = NoWorker /\ rec.status = "Cancelled"
    BY DEF TaskCompletedOrFailed
  <2>4. state' = mark_task_terminal(state, t, NoWorker, "Cancelled")
    BY <2>2, <2>3 DEF apply_record
  <2> QED
    BY <1>2, <2>4, MarkEnds DEF Whole, Ends
<1>4. CASE w # NoWorker
  <2> PICK q : q = NextSeq(t, w)
    OBVIOUS
  <2>1. w \in Worker /\ q \in Nat /\ q + 1 \in Nat
    <3>1. w \in Worker
      BY <1>1, <1>4
    <3> QED
      BY <3>1 DEF NextSeq, Whole, Typed
  <2> PICK a : a = EventAppended(t, w, q, "Interrupted")
    OBVIOUS
  <2> PICK b : b = EventAppended(t, w, q + 1, "Cancelled")
    OBVIOUS
  <2>2. a \in Line /\ b \in Line /\ append_records_unlocked(<<a, b>>)
    BY <1>1, <1>2, <1>4, <2>1, EventLine
  <2> PICK r : r = apply_event(state, t, w, q, "Interrupted")
    OBVIOUS
  <2>3. state' = apply_event(r, t, w, q + 1, "Cancelled")
    <3>1. <<a, b>> \in Seq(Line) /\ Len(<<a, b>>) = 2 /\ <<a, b>>[1] = a /\ <<a, b>>[2] = b
      BY <2>2
    <3> PICK recs : recs = <<a, b>>
      OBVIOUS
    <3>2. state' = After(file, recs, 2) /\ After(file, recs, 0) = state
      BY <2>2, <3>1, WholeBatch
    <3>3. \A k \in 1 .. 2 : After(file, recs, k) = apply_record(After(file, recs, k - 1), recs[k])
      BY <2>2, <3>1, WholeBatch
    <3>4. After(file, recs, 1) = apply_record(state, a)
      BY <3>1, <3>2, <3>3
    <3>5. After(file, recs, 2) = apply_record(After(file, recs, 1), b)
      BY <3>1, <3>3
    <3>6. apply_record(state, a) = r
      BY ReplayEvent
    <3>7. apply_record(r, b) = apply_event(r, t, w, q + 1, "Cancelled")
      BY ReplayEvent
    <3> QED
      BY <3>2, <3>4, <3>5, <3>6, <3>7
  <2>4. Ends(r) /\ Good(r)
    BY <1>2, <2>1, EventEnds, EventGood DEF Whole, Ends
  <2> PICK x : x = [seq |-> q, payload |-> "Interrupted"]
    OBVIOUS
  <2>5. r.tasks = state.tasks
    BY <1>2, EventEffect DEF Whole, Good
  <2>6. r.tasks[t].status # "Absent" /\ r.tasks[t].leased_to = w
    BY <1>1, <2>5
  <2> QED
    BY <1>2, <2>1, <2>3, <2>4, <2>6, EventEnds DEF Ends
<1> QED
  BY <1>3, <1>4

\* A heartbeat record changes the worker's time only.
LEMMA BeatEnds ==
  ASSUME NEW s, HasFields(s), NEW E, EndsBut(s, E), NEW w, NEW ts PROVE EndsBut(apply_record(s, Heartbeat(w, ts)), E)
<1> PICK rec : rec = Heartbeat(w, ts)
  OBVIOUS
<1> PICK r : r = apply_record(s, rec)
  OBVIOUS
<1>1. rec.kind = "Heartbeat"
  BY DEF Heartbeat
<1>2. r = [s EXCEPT !.heartbeats[rec.worker] = rec.timestamp]
  BY <1>1 DEF apply_record
<1>3. r.tasks = s.tasks /\ r.latest_events = s.latest_events
  BY <1>2 DEF HasFields, Fields
<1> QED
  BY <1>3, EndsAside

\* A restarted task's event that ended it is no longer the retained one.
LEMMA RestartEnds ==
  ASSUME Whole, NEW t \in Task, NEW w \in Worker, NEW n, NEW s, NEW h,
         NEW d \in 0 .. MaxTime, NEW b \in L!Timestamp,
         restart_task_if_unchanged(t, w, state.tasks[t].status, n, s, h, d, b)
  PROVE  Ends(state')
<1> PICK q : q = NextSeq(t, w)
  OBVIOUS
<1> PICK recs : recs = <<TaskLeased(t, w, d), EventAppended(t, w, q, "Restarted"),
                         EventAppended(t, w, q + 1, "Progress"), Heartbeat(w, b)>>
  OBVIOUS
<1> DEFINE S(k) == After(file, recs, k)
<1>1. /\ state.tasks[t].leased_to = w /\ state.tasks[t].status # "Absent"
      /\ append_records_unlocked(recs)
  <2>1. state.tasks[t].leased_to = w /\ append_records_unlocked(recs)
    BY DEF restart_task_if_unchanged, L!CanRestart, L!VersionUnchanged
  <2> QED
    BY <2>1, LogAssumption DEF Whole, Typed
<1>2. /\ q \in Nat /\ q + 1 \in Nat /\ q > state.latest_seq[w][t] /\ d \in Nat /\ b \in Nat
      /\ {"Restarted", "Progress"} \subseteq Payload \ Terminal
  <2>1. q \in Nat /\ q > state.latest_seq[w][t]
    BY DEF NextSeq, Whole, Typed
  <2>2. d \in Nat /\ b \in Nat
    BY LogAssumption DEF L!Timestamp
  <2>3. {"Restarted", "Progress"} \subseteq Payload \ Terminal
    BY EventKinds DEF Regressing
  <2> QED
    BY <2>1, <2>2, <2>3
<1>3. /\ recs \in Seq(Line) /\ Len(recs) = 4
      /\ recs[1] = TaskLeased(t, w, d) /\ recs[2] = EventAppended(t, w, q, "Restarted")
      /\ recs[3] = EventAppended(t, w, q + 1, "Progress") /\ recs[4] = Heartbeat(w, b)
  <2>1. TaskLeased(t, w, d) \in Line /\ Heartbeat(w, b) \in Line
    BY <1>2 DEF Line
  <2>2. EventAppended(t, w, q, "Restarted") \in Line /\ EventAppended(t, w, q + 1, "Progress") \in Line
    BY <1>2, EventLine
  <2> QED
    BY <2>1, <2>2
<1>4. /\ state' = S(4) /\ S(0) = state
      /\ \A k \in 0 .. 4 : Good(S(k))
      /\ \A k \in 1 .. 4 : S(k) = apply_record(S(k - 1), recs[k])
  BY <1>1, <1>3, WholeBatch
<1> HIDE DEF S
<1>5. S(1) = apply_record(state, TaskLeased(t, w, d)) /\ S(2) = apply_event(S(1), t, w, q, "Restarted")
      /\ S(3) = apply_event(S(2), t, w, q + 1, "Progress") /\ S(4) = apply_record(S(3), Heartbeat(w, b))
  <2>1. S(1) = apply_record(S(0), recs[1]) /\ S(2) = apply_record(S(1), recs[2])
        /\ S(3) = apply_record(S(2), recs[3]) /\ S(4) = apply_record(S(3), recs[4])
    BY <1>4
  <2> QED
    BY <1>3, <1>4, <2>1, ReplayEvent
<1>6. Good(S(1)) /\ Good(S(2)) /\ Good(S(3))
  BY <1>4
<1>7. EndsBut(S(1), {<<w, t>>})
  BY <1>1, <1>2, <1>5, LeaseEnds DEF Whole
<1>8. S(1).latest_seq = state.latest_seq /\ S(1).tasks[t].status = "Leased"
  <2>1. Shows(S(1), [state.tasks EXCEPT ![t] = [status |-> "Leased", leased_to |-> w,
               attempts |-> state.tasks[t].attempts + 1, lease_deadline |-> d]],
              state.latest_seq, state.heartbeats, state.receipts, state.alerts, state.runs)
    BY <1>1, <1>5, ReplayLeased DEF Whole, Typed
  <2> QED
    BY <2>1 DEF Shows, Whole, Typed
<1>9. "Leased" \notin Terminal
  BY DEF Terminal, L!Terminal
<1>10. EndsBut(S(2), {<<w, t>>} \ {<<w, t>>})
  BY <1>2, <1>5, <1>6, <1>7, <1>8, <1>9, EventRenews
<1>11. EndsBut(S(2), {})
  <2>1. {<<w, t>>} \ {<<w, t>>} = {}
    OBVIOUS
  <2> QED
    BY <1>10, <2>1
<1>12. EndsBut(S(3), {})
  BY <1>2, <1>5, <1>6, <1>11, EventEnds
<1>13. EndsBut(S(4), {})
  BY <1>5, <1>6, <1>12, BeatEnds DEF Good
<1> QED
  BY <1>4, <1>13 DEF Ends

\* A function on 1 .. n is a sequence.
LEMMA Sequenced ==
  ASSUME NEW X, NEW n \in Nat, NEW e \in [1 .. n -> X] PROVE e \in Seq(X) /\ Len(e) = n
<1>1. e \in Seq(X)
  OBVIOUS
<1>2. DOMAIN e = 1 .. Len(e) /\ Len(e) \in Nat
  BY <1>1, LenProperties
<1>3. DOMAIN e = 1 .. n
  OBVIOUS
<1> QED
  BY <1>1, <1>2, <1>3

\* The records of a launch.
LaunchLines(t, w, d, b, q, N) ==
  <<TaskLeased(t, w, d)>> \o [i \in 1 .. N |-> EventAppended(t, w, q + i - 1, "Progress")]
  \o <<Heartbeat(w, b)>>

\* By position.
Launched(recs, t, w, d, b, q, N) ==
  /\ recs \in Seq(Line) /\ Len(recs) = N + 2
  /\ recs[1] = TaskLeased(t, w, d) /\ recs[N + 2] = Heartbeat(w, b)
  /\ \A i \in 1 .. N : recs[i + 1] = EventAppended(t, w, q + i - 1, "Progress")
\* The batch of a lease: the lease, the first events and a heartbeat.
LEMMA LaunchRecords ==
  ASSUME NEW t \in Task, NEW w \in Worker, NEW d \in Nat, NEW b \in Nat, NEW q \in Nat, NEW N \in Nat,
         NEW recs, recs = LaunchLines(t, w, d, b, q, N)
  PROVE  Launched(recs, t, w, d, b, q, N)
<1> PICK r1 : r1 = TaskLeased(t, w, d)
  OBVIOUS
<1> PICK r2 : r2 = Heartbeat(w, b)
  OBVIOUS
<1> PICK es : es = [i \in 1 .. N |-> EventAppended(t, w, q + i - 1, "Progress")]
  OBVIOUS
<1>0. recs = <<r1>> \o es \o <<r2>>
  BY DEF LaunchLines
<1>1. r1 \in Line /\ r2 \in Line
  BY DEF Line
<1>2. ASSUME NEW i \in 1 .. N PROVE es[i] = EventAppended(t, w, q + i - 1, "Progress") /\ es[i] \in Line
  <2>1. q + i - 1 \in Nat /\ "Progress" \in Payload
    BY EventKinds DEF Regressing
  <2> QED
    BY <2>1, EventLine
<1>3. es \in Seq(Line) /\ Len(es) = N
  <2>0. es \in [1 .. N -> Line]
    BY <1>2
  <2> QED
    BY <2>0, Sequenced
<1> PICK f : f = <<r1>> \o es
  OBVIOUS
<1>4. <<r1>> \in Seq(Line) /\ Len(<<r1>>) = 1 /\ <<r2>> \in Seq(Line) /\ Len(<<r2>>) = 1
      /\ <<r1>>[1] = r1 /\ <<r2>>[1] = r2
  BY <1>1
<1>5. /\ f \in Seq(Line) /\ Len(f) = 1 + N
      /\ \A i \in 1 .. 1 + N : f[i] = IF i <= 1 THEN <<r1>>[i] ELSE es[i - 1]
  <2>1. /\ f \in Seq(Line) /\ Len(f) = Len(<<r1>>) + Len(es)
        /\ \A i \in 1 .. Len(<<r1>>) + Len(es) : f[i] =
             IF i <= Len(<<r1>>) THEN <<r1>>[i] ELSE es[i - Len(<<r1>>)]
    BY <1>3, <1>4, ConcatProperties
  <2> QED
    BY <1>3, <1>4, <2>1
<1>6. /\ recs \in Seq(Line) /\ Len(recs) = N + 2
      /\ \A i \in 1 .. N + 2 : recs[i] = IF i <= 1 + N THEN f[i] ELSE <<r2>>[i - (1 + N)]
  <2>0. recs = f \o <<r2>>
    BY <1>0
  <2>1. /\ recs \in Seq(Line) /\ Len(recs) = Len(f) + Len(<<r2>>)
        /\ \A i \in 1 .. Len(f) + Len(<<r2>>) : recs[i] =
             IF i <= Len(f) THEN f[i] ELSE <<r2>>[i - Len(f)]
    BY <1>4, <1>5, <2>0, ConcatProperties
  <2>2. (1 + N) + 1 = N + 2
    OBVIOUS
  <2> QED
    BY <1>4, <1>5, <2>1, <2>2
<1>7. recs[1] = r1
  <2>1. 1 \in 1 .. N + 2 /\ 1 <= 1 + N /\ 1 \in 1 .. 1 + N
    OBVIOUS
  <2> QED
    BY <1>4, <1>5, <1>6, <2>1
<1>8. recs[N + 2] = r2
  <2>1. N + 2 \in 1 .. N + 2 /\ ~ (N + 2 <= 1 + N) /\ (N + 2) - (1 + N) = 1
    OBVIOUS
  <2> QED
    BY <1>4, <1>6, <2>1
<1>9. ASSUME NEW i \in 1 .. N PROVE recs[i + 1] = EventAppended(t, w, q + i - 1, "Progress")
  <2>1. i + 1 \in 1 .. N + 2 /\ i + 1 <= 1 + N /\ i + 1 \in 1 .. 1 + N /\ ~ (i + 1 <= 1) /\ (i + 1) - 1 = i
    OBVIOUS
  <2> QED
    BY <1>2, <1>5, <1>6, <2>1
<1> QED
  BY <1>6, <1>7, <1>8, <1>9 DEF Launched

\* A launched task was queued, so no worker's retained event had ended it.
LEMMA LaunchEnds ==
  ASSUME Whole, NEW t \in Task, NEW w \in Worker, NEW d \in 0 .. MaxTime, NEW b \in L!Timestamp,
         lease_task_if_enqueued_with_events(t, w, MaxActive, d, b)
  PROVE  Ends(state')
<1> PICK q : q = NextSeq(t, w)
  OBVIOUS
<1> PICK N : N = InitialEvents
  OBVIOUS
<1> PICK recs : recs = LaunchLines(t, w, d, b, q, N)
  OBVIOUS
<1> DEFINE S(k) == After(file, recs, k)
           G == {i \in 0 .. N : EndsBut(S(i + 1), {})}
<1>1. state.tasks[t].status = "Enqueued" /\ append_records_unlocked(recs)
  BY DEF lease_task_if_enqueued_with_events, L!CanLease, LaunchLines
<1>2. q \in Nat /\ N \in Nat /\ d \in Nat /\ b \in Nat /\ "Progress" \in Payload /\ "Progress" \notin Terminal
  <2>1. q \in Nat
    BY DEF NextSeq, Whole, Typed
  <2>2. N \in Nat /\ d \in Nat /\ b \in Nat
    BY LogAssumption DEF L!Timestamp
  <2> QED
    BY <2>1, <2>2, EventKinds DEF Regressing
<1>3. /\ recs \in Seq(Line) /\ Len(recs) = N + 2
      /\ recs[1] = TaskLeased(t, w, d) /\ recs[N + 2] = Heartbeat(w, b)
      /\ \A i \in 1 .. N : recs[i + 1] = EventAppended(t, w, q + i - 1, "Progress")
  <2>1. Launched(recs, t, w, d, b, q, N)
    BY <1>2, LaunchRecords
  <2> QED
    BY <2>1 DEF Launched
<1>4. /\ state' = S(N + 2) /\ S(0) = state
      /\ \A k \in 0 .. N + 2 : Good(S(k))
      /\ \A k \in 1 .. N + 2 : S(k) = apply_record(S(k - 1), recs[k])
  BY <1>1, <1>3, WholeBatch
<1> HIDE DEF S
<1>5. 0 \in G
  <2>1. 1 \in 1 .. N + 2 /\ 0 \in 0 .. N
    BY <1>2
  <2>2. S(1) = apply_record(state, TaskLeased(t, w, d))
    <3>1. S(1) = apply_record(S(1 - 1), recs[1]) /\ 1 - 1 = 0
      BY <1>2, <1>4, <2>1
    <3> QED
      BY <1>3, <1>4, <3>1
  <2>3. "Enqueued" \notin Terminal
    BY DEF Terminal, L!Terminal
  <2>4. Ends(S(1))
    BY <1>1, <1>2, <2>2, <2>3, LeaseEnds DEF Whole
  <2>5. 0 + 1 = 1
    OBVIOUS
  <2> QED
    BY <2>1, <2>4, <2>5 DEF Ends
<1>6. ASSUME NEW i \in 1 .. N, i - 1 \in G PROVE i \in G
  <2>1. i + 1 \in 1 .. N + 2 /\ i \in 0 .. N + 2 /\ (i + 1) - 1 = i /\ (i - 1) + 1 = i /\ i \in 0 .. N
        /\ q + i - 1 \in Nat
    BY <1>2
  <2>2. S(i + 1) = apply_record(S(i), recs[i + 1])
    BY <1>4, <2>1
  <2>3. S(i + 1) = apply_event(S(i), t, w, q + i - 1, "Progress")
    <3>1. recs[i + 1] = EventAppended(t, w, q + i - 1, "Progress")
      BY <1>3
    <3>2. apply_record(S(i), EventAppended(t, w, q + i - 1, "Progress")) = apply_event(S(i), t, w, q + i - 1, "Progress")
      BY ReplayEvent
    <3> QED
      BY <2>2, <3>1, <3>2
  <2>4. EndsBut(S(i), {}) /\ Good(S(i))
    BY <1>4, <1>6, <2>1
  <2>5. EndsBut(S(i + 1), {})
    BY <1>2, <2>1, <2>3, <2>4, EventEnds
  <2> QED
    BY <2>1, <2>5
<1>7. EndsBut(S(N + 1), {})
  <2> HIDE DEF G
  <2>1. \A i \in 0 .. N : i \in G
    BY <1>2, <1>5, <1>6, Induction
  <2>2. N \in G
    BY <1>2, <2>1
  <2> QED
    BY <2>2 DEF G
<1>8. S(N + 2) = apply_record(S(N + 1), Heartbeat(w, b)) /\ Good(S(N + 1))
  <2>1. N + 2 \in 1 .. N + 2 /\ (N + 2) - 1 = N + 1 /\ N + 1 \in 0 .. N + 2
    BY <1>2
  <2>2. S(N + 2) = apply_record(S((N + 2) - 1), recs[N + 2])
    BY <1>4, <2>1
  <2> QED
    BY <1>3, <1>4, <2>1, <2>2
<1>9. EndsBut(S(N + 2), {})
  BY <1>7, <1>8, BeatEnds DEF Good
<1> QED
  BY <1>4, <1>9 DEF Ends

\* Every whole append keeps it.
LEMMA OperationEnds == ASSUME Whole, Next, ~ compact PROVE Ends(state')
<1>1. CASE Manage
  <2>1. CASE \E r \in Run \ state.runs : create_run(r)
    BY <2>1, CreateEnds
  <2>2. CASE \E t \in Task : RunOf[t] \in state.runs /\ enqueue(t)
    BY <2>2, EnqueueEnds
  <2>3. CASE \E t \in Task, e \in Worker \cup {NoWorker} : cancel_task_if_active(t, e)
    BY <2>3, CancelEnds
  <2> QED
    BY <1>1, <2>1, <2>2, <2>3 DEF Manage
<1>2. ASSUME NEW t \in Task, NEW w \in Worker, Work(t, w) PROVE Ends(state')
  <2>1. CASE \E d \in 0..MaxTime, ts \in L!Timestamp :
               lease_task_if_enqueued_with_events(t, w, MaxActive, d, ts)
    BY <2>1, LaunchEnds
  <2>2. CASE claim_next(t, w)
    BY <2>2, ClaimEnds
  <2>3. CASE \E n \in 1..MaxLeases : append_event_if_leased(t, w, n)
    BY <2>3, ReportEnds
  <2>4. CASE \E n \in 1..MaxLeases, p \in Terminal, f \in Terminal \cup {L!NoStatus},
               res \in Result : finalize_task_attempt_if_leased(t, w, n, p, f, res)
    BY <2>4, FinalizeEnds
  <2> QED
    BY <1>2, <2>1, <2>2, <2>3, <2>4 DEF Work
<1>3. ASSUME NEW t \in Task, NEW w \in Worker, Recover(t, w) PROVE Ends(state')
  <2> DEFINE n == state.tasks[t].attempts
             s == state.latest_seq[w][t]
             h == state.heartbeats[w]
  <2>1. CASE append_event_if_lease_unchanged(t, w, n, s, h)
    BY <2>1, ReportEnds
  <2>2. CASE append_terminal_event_if_lease_unchanged(t, w, n, s, h, "Failed")
    BY <2>2, ReportEnds
  <2>3. CASE \E d \in 0..MaxTime, ts \in L!Timestamp :
               restart_task_if_unchanged(t, w, state.tasks[t].status, n, s, h, d, ts)
    BY <2>3, RestartEnds
  <2>4. CASE \E c \in Channel : record_failed_attempt_alert_once(t, w, n, c)
    BY <2>4, AlertEnds
  <2> QED
    BY <1>3, <2>1, <2>2, <2>3, <2>4 DEF Recover
<1>4. CASE \E w \in Worker, ts \in L!Timestamp : heartbeat(w, ts)
  BY <1>4, HeartbeatEnds
<1> QED
  BY <1>1, <1>2, <1>3, <1>4 DEF Next

--------------------------------------------------------------------------------
(* Compaction.                                                             *)

\* The state compaction is asked to keep: that of a file whose appends were whole.
Sound(s) ==
  /\ Good(s) /\ Ends(s)
  /\ \A t \in Task :
       IF s.tasks[t].leased_to = NoWorker THEN s.tasks[t].status # "Leased"
       ELSE s.tasks[t].attempts >= 1 /\ s.tasks[t].status \notin {"Absent", "Enqueued"}

\* How much of s the lines replayed so far, to x, have rebuilt: the runs R, the tasks T,
\* of which those of F with the status they ended in, the alerts A, the numbers of the
\* streams Q, the heartbeats of the workers H, and the receipts of the tasks C.
TaskIs(v, old, known, ended) ==
  IF known
  THEN /\ v.status # "Absent" /\ v.leased_to = old.leased_to /\ v.attempts = old.attempts
       /\ v.lease_deadline = old.lease_deadline
       /\ ended \/ old.status \notin Terminal => v.status = old.status
  ELSE v.status = "Absent" /\ v.leased_to = NoWorker /\ v.lease_deadline = 0
TasksAre(x, s, T, F) == \A t \in Task : TaskIs(x.tasks[t], s.tasks[t], t \in T, t \in F)
AlertsAre(x, A) == x.alerts = {a[1] : a \in A}
NumbersAre(x, s, Q) ==
  \A w \in Worker, t \in Task :
    /\ x.latest_seq[w][t] <= s.latest_seq[w][t]
    /\ <<w, t>> \in Q => x.latest_seq[w][t] = s.latest_seq[w][t]
BeatsAre(x, s, H) == \A w \in Worker : x.heartbeats[w] = IF w \in H THEN s.heartbeats[w] ELSE 0
ReceiptsAre(x, s, C) == \A t \in Task : x.receipts[t] = IF t \in C THEN s.receipts[t] ELSE L!NoReceipt

\* A retained event that ended a task is one of s.
EventsFrom(x, s) ==
  \A w \in Worker, t \in Task :
    x.latest_events[w][t].payload \in Terminal =>
      s.tasks[t].status \in Terminal /\ s.tasks[t].leased_to = w

Rebuilt(x, s, R, T, A, Q, H, F, C) ==
  /\ Good(x) /\ EventsFrom(x, s)
  /\ x.runs = R /\ TasksAre(x, s, T, F) /\ AlertsAre(x, A) /\ NumbersAre(x, s, Q)
  /\ BeatsAre(x, s, H) /\ ReceiptsAre(x, s, C)

\* The fields that a line leaves alone are as they were.
LEMMA Others ==
  ASSUME NEW s, NEW x, NEW R, NEW T, NEW A, NEW Q, NEW H, NEW F, NEW C, Rebuilt(x, s, R, T, A, Q, H, F, C),
         NEW r, NEW D, D \subseteq Fields, Alike(r, x, Fields \ D)
  PROVE  /\ "runs" \notin D => r.runs = R
         /\ "tasks" \notin D => TasksAre(r, s, T, F)
         /\ "alerts" \notin D => AlertsAre(r, A)
         /\ "latest_seq" \notin D => NumbersAre(r, s, Q)
         /\ "heartbeats" \notin D => BeatsAre(r, s, H)
         /\ "receipts" \notin D => ReceiptsAre(r, s, C)
         /\ "latest_events" \notin D => EventsFrom(r, s)
BY DEF Rebuilt, Alike, Fields, TasksAre, AlertsAre, NumbersAre, BeatsAre, ReceiptsAre, EventsFrom

\* The lines of a checkpoint, one by one.
LEMMA RunLine ==
  ASSUME NEW s, NEW x, NEW R, NEW T, NEW A, NEW Q, NEW H, NEW F, NEW C, Rebuilt(x, s, R, T, A, Q, H, F, C),
         NEW u \in Run
  PROVE  Rebuilt(apply_record(x, RunCreated(u)), s, R \cup {u}, T, A, Q, H, F, C)
<1> PICK rec : rec = RunCreated(u)
  OBVIOUS
<1> PICK r : r = apply_record(x, rec)
  OBVIOUS
<1>1. rec.kind = "RunCreated" /\ rec.run = u
  BY DEF RunCreated
<1>2. r = [x EXCEPT !.runs = @ \cup {u}]
  BY <1>1 DEF apply_record
<1>3. Alike(r, x, Fields \ {"runs"}) /\ r.runs = R \cup {u}
  BY <1>2 DEF Rebuilt, Good, HasFields, Fields, Alike
<1>4. Good(r)
  BY RunGood DEF Rebuilt
<1>5. /\ TasksAre(r, s, T, F) /\ AlertsAre(r, A) /\ NumbersAre(r, s, Q)
      /\ BeatsAre(r, s, H) /\ ReceiptsAre(r, s, C) /\ EventsFrom(r, s)
  <2> PICK D : D = {"runs"}
    OBVIOUS
  <2> QED
    BY <1>3, Others DEF Fields
<1> QED
  BY <1>3, <1>4, <1>5 DEF Rebuilt

\* What a new alert does: it is recorded, and is an event of its worker and task.
LEMMA EscalatedLine ==
  ASSUME NEW s, NEW x, Good(x), EventsFrom(x, s), NumbersAre(x, s, {}),
         NEW t \in Task, NEW w \in Worker, NEW n \in Nat, NEW c \in Channel, NEW q \in Nat,
         q <= s.latest_seq[w][t], NEW key, key = <<t, n, c>>, key \notin x.alerts,
         NEW r, r = apply_record(x, AlertSent(t, w, n, c, q))
  PROVE  /\ Good(r) /\ EventsFrom(r, s) /\ NumbersAre(r, s, {}) /\ r.alerts = x.alerts \cup {key}
         /\ Alike(r, x, {"runs", "tasks", "heartbeats", "receipts"})
<1> PICK rec : rec = AlertSent(t, w, n, c, q)
  OBVIOUS
<1> DEFINE sent == [x EXCEPT !.alerts = @ \cup {key}, !.alert_seq = @ \cup {<<key, w, q>>}]
<1>3. r = apply_event(sent, t, w, q, "Escalated")
  <2>1. /\ rec.kind = "AlertSent" /\ rec.task = t /\ rec.worker = w /\ rec.attempt = n
        /\ rec.channel = c /\ rec.seq = q
    BY DEF AlertSent
  <2>2. apply_record(x, rec) = apply_alert(x, rec)
    BY <2>1 DEF apply_record
  <2> QED
    BY <2>1, <2>2 DEF apply_alert
<1>4. HasFields(sent) /\ Alike(sent, x, Fields \ {"alerts", "alert_seq"}) /\ sent.alerts = x.alerts \cup {key}
  BY DEF Good, HasFields, Fields, Alike
<1> HIDE DEF sent
<1> PICK e : e = [seq |-> q, payload |-> "Escalated"]
  OBVIOUS
<1>5. "Escalated" \notin Terminal
  BY DEF Terminal, L!Terminal
<1>51. /\ r.tasks = sent.tasks /\ r.alerts = sent.alerts
        /\ r.latest_seq = Put(sent.latest_seq, w, t, IF q > sent.latest_seq[w][t] THEN q ELSE sent.latest_seq[w][t])
        /\ r.latest_events = Put(sent.latest_events, w, t,
              IF q > sent.latest_seq[w][t] /\ ~ (sent.tasks[t].status \in Terminal /\ "Escalated" \in Regressing) THEN e
              ELSE sent.latest_events[w][t])
        /\ r.heartbeats = sent.heartbeats /\ r.receipts = sent.receipts /\ r.runs = sent.runs
  BY <1>3, <1>4, <1>5, EventEffect
<1> PICK m : m = IF q > x.latest_seq[w][t] THEN q ELSE x.latest_seq[w][t]
  OBVIOUS
<1> PICK le : le = IF q > x.latest_seq[w][t] /\ ~ (x.tasks[t].status \in Terminal /\ "Escalated" \in Regressing) THEN e
                   ELSE x.latest_events[w][t]
  OBVIOUS
<1>6. /\ r.tasks = x.tasks /\ r.alerts = x.alerts \cup {key}
      /\ r.latest_seq = Put(x.latest_seq, w, t, m)
      /\ r.latest_events = Put(x.latest_events, w, t, le)
      /\ r.heartbeats = x.heartbeats /\ r.receipts = x.receipts /\ r.runs = x.runs
  <2>2. /\ sent.tasks = x.tasks /\ sent.latest_seq = x.latest_seq /\ sent.latest_events = x.latest_events
        /\ sent.heartbeats = x.heartbeats /\ sent.receipts = x.receipts /\ sent.runs = x.runs
    BY <1>4 DEF Alike, Fields
  <2> QED
    BY <1>4, <1>51, <2>2
<1>7. Good(r)
  BY SentGood
<1>8. EventsFrom(r, s)
  <2>1. \A v \in Worker, u \in Task : r.latest_events[v][u] = IF v = w /\ u = t THEN le ELSE x.latest_events[v][u]
    BY <1>6, PutValue DEF Good, EventsGood
  <2>2. le.payload \notin Terminal \/ le = x.latest_events[w][t]
    BY <1>5
  <2> QED
    BY <2>1, <2>2 DEF EventsFrom
<1>9. NumbersAre(r, s, {})
  <2>1. \A v \in Worker, u \in Task : r.latest_seq[v][u] = IF v = w /\ u = t THEN m ELSE x.latest_seq[v][u]
    BY <1>6, PutValue DEF Good, EventsGood
  <2>2. m <= s.latest_seq[w][t]
    BY DEF NumbersAre
  <2> QED
    BY <2>1, <2>2 DEF NumbersAre
<1> QED
  BY <1>6, <1>7, <1>8, <1>9 DEF Alike

\* An alert that has not been rebuilt yet.
LEMMA AlertLine ==
  ASSUME NEW s, Sound(s), NEW x, NEW R, NEW T, NEW A, NEW H, NEW F, NEW C, Rebuilt(x, s, R, T, A, {}, H, F, C),
         A \subseteq s.alert_seq, NEW a \in s.alert_seq \ A
  PROVE  Rebuilt(apply_record(x, AlertSent(a[1][1], a[2], a[1][2], a[1][3], a[3])), s, R, T, A \cup {a}, {}, H, F, C)
<1>1. PICK t \in Task, w \in Worker, n \in Nat, c \in Channel, q \in Nat :
        /\ t = a[1][1] /\ w = a[2] /\ n = a[1][2] /\ c = a[1][3] /\ q = a[3]
        /\ a[1] = <<t, n, c>> /\ q <= s.latest_seq[w][t]
  BY DEF Sound, Good, AlertsGood, AlertKey
<1> PICK key : key = <<t, n, c>>
  OBVIOUS
<1>2. key \notin x.alerts /\ x.alerts \cup {key} = {b[1] : b \in A \cup {a}}
  <2>1. x.alerts = {b[1] : b \in A} /\ a[1] = key
    BY <1>1 DEF Rebuilt, AlertsAre
  <2>2. \A b \in A : b[1] # a[1]
    BY DEF Sound, Good, AlertsGood
  <2> QED
    BY <2>1, <2>2
<1> PICK r : r = apply_record(x, AlertSent(t, w, n, c, q))
  OBVIOUS
<1>3. Good(x) /\ EventsFrom(x, s) /\ NumbersAre(x, s, {})
  BY DEF Rebuilt
<1>4. /\ Good(r) /\ EventsFrom(r, s) /\ NumbersAre(r, s, {}) /\ r.alerts = x.alerts \cup {key}
      /\ Alike(r, x, {"runs", "tasks", "heartbeats", "receipts"})
  BY <1>1, <1>2, <1>3, EscalatedLine
<1>5. /\ r.runs = x.runs /\ r.tasks = x.tasks /\ r.heartbeats = x.heartbeats /\ r.receipts = x.receipts
  BY <1>4 DEF Alike
<1>6. /\ r.runs = R /\ TasksAre(r, s, T, F) /\ BeatsAre(r, s, H) /\ ReceiptsAre(r, s, C)
  BY <1>5 DEF Rebuilt, TasksAre, BeatsAre, ReceiptsAre
<1>7. AlertsAre(r, A \cup {a})
  BY <1>2, <1>4 DEF AlertsAre
<1>8. Rebuilt(r, s, R, T, A \cup {a}, {}, H, F, C)
  BY <1>4, <1>6, <1>7 DEF Rebuilt
<1> QED
  BY <1>1, <1>8

\* An event of s: not later than its last one, and one that ended a task only if the
\* worker's last task ended.
Retained(s, t, w, q, p) ==
  /\ t \in Task /\ w \in Worker /\ q \in Nat /\ p \in Payload /\ q <= s.latest_seq[w][t]
  /\ p \in Terminal => s.tasks[t].status \in Terminal /\ s.tasks[t].leased_to = w

\* A retained event: a terminal one marks its task as it ended.
LEMMA RetainedLine ==
  ASSUME NEW s, Sound(s), NEW x, NEW R, NEW A, NEW H, NEW C, NEW T, T = {t \in Task : s.tasks[t].status # "Absent"},
         Rebuilt(x, s, R, T, A, {}, H, {}, C),
         NEW t, NEW w, NEW q, NEW p, Retained(s, t, w, q, p)
  PROVE  Rebuilt(apply_record(x, EventAppended(t, w, q, p)), s, R, T, A, {}, H, {}, C)
<1>1. /\ t \in Task /\ w \in Worker /\ q \in Nat /\ p \in Payload /\ q <= s.latest_seq[w][t]
      /\ p \in Terminal => s.tasks[t].status \in Terminal /\ s.tasks[t].leased_to = w
  BY DEF Retained
<1> PICK r : r = apply_event(x, t, w, q, p)
  OBVIOUS
<1> PICK e : e = [seq |-> q, payload |-> p]
  OBVIOUS
<1> PICK m : m = IF q > x.latest_seq[w][t] THEN q ELSE x.latest_seq[w][t]
  OBVIOUS
<1> PICK le : le = IF q > x.latest_seq[w][t] /\ ~ (x.tasks[t].status \in Terminal /\ p \in Regressing) THEN e
                   ELSE x.latest_events[w][t]
  OBVIOUS
<1>2. /\ r.tasks = (IF p \in Terminal THEN mark_task_terminal(x, t, w, p).tasks ELSE x.tasks)
      /\ r.latest_seq = Put(x.latest_seq, w, t, m)
      /\ r.latest_events = Put(x.latest_events, w, t, le)
      /\ r.alerts = x.alerts
      /\ r.heartbeats = x.heartbeats /\ r.receipts = x.receipts /\ r.runs = x.runs
  BY EventEffect DEF Rebuilt, Good
<1>3. Good(r)
  BY <1>1, EventGood DEF Rebuilt
<1>4. EventsFrom(r, s)
  <2>1. \A v \in Worker, u \in Task : r.latest_events[v][u] = IF v = w /\ u = t THEN le ELSE x.latest_events[v][u]
    BY <1>1, <1>2, PutValue DEF Rebuilt, Good, EventsGood
  <2>2. le.payload = p \/ le = x.latest_events[w][t]
    OBVIOUS
  <2> QED
    BY <1>1, <2>1, <2>2 DEF Rebuilt, EventsFrom
<1>5. NumbersAre(r, s, {})
  <2>1. \A v \in Worker, u \in Task : r.latest_seq[v][u] = IF v = w /\ u = t THEN m ELSE x.latest_seq[v][u]
    BY <1>1, <1>2, PutValue DEF Rebuilt, Good, EventsGood
  <2>2. m <= s.latest_seq[w][t]
    BY <1>1 DEF Rebuilt, NumbersAre
  <2> QED
    BY <2>1, <2>2 DEF Rebuilt, NumbersAre
<1>6. TasksAre(r, s, T, {})
  <2>1. CASE p \notin Terminal
    BY <1>2, <2>1 DEF Rebuilt, TasksAre
  <2>2. CASE p \in Terminal
    <3> PICK y : y = mark_task_terminal(x, t, w, p)
      OBVIOUS
    <3>1. \A u \in Task :
              y.tasks[u] = IF u # t \/ x.tasks[t].status = "Absent" THEN x.tasks[u]
                           ELSE [status |-> p, leased_to |-> IF w = NoWorker THEN x.tasks[t].leased_to ELSE w,
                                 attempts |-> x.tasks[t].attempts,
                                 lease_deadline |-> x.tasks[t].lease_deadline]
      BY <1>1, <2>2, MarkGood DEF Rebuilt, Good
    <3>2. /\ t \in T /\ p # "Absent" /\ s.tasks[t].status \in Terminal /\ s.tasks[t].leased_to = w /\ w # NoWorker
          /\ "Absent" \notin Terminal
      BY <1>1, <2>2, LogAssumption DEF Terminal, L!Terminal
    <3>3. r.tasks = y.tasks
      BY <1>2, <2>2
    <3> HIDE DEF Terminal
    <3>4. ASSUME NEW u \in Task PROVE TaskIs(r.tasks[u], s.tasks[u], u \in T, u \in {})
      <4>1. TaskIs(x.tasks[u], s.tasks[u], u \in T, u \in {})
        BY DEF Rebuilt, TasksAre
      <4>2. CASE u # t
        BY <3>1, <3>3, <4>1, <4>2
      <4>3. CASE u = t
        BY <3>1, <3>2, <3>3, <4>1, <4>3 DEF TaskIs
      <4> QED
        BY <4>2, <4>3
    <3> QED
      BY <3>4 DEF TasksAre
  <2> QED
    BY <2>1, <2>2
<1>7. AlertsAre(r, A) /\ BeatsAre(r, s, H) /\ ReceiptsAre(r, s, C)
  BY <1>2 DEF Rebuilt, AlertsAre, BeatsAre, ReceiptsAre
<1> QED
  BY <1>2, <1>3, <1>4, <1>5, <1>6, <1>7, ReplayEvent DEF Rebuilt

\* r is x but for one task.
OnlyTask(r, x, t, status, w, n, d) ==
  /\ Good(r) /\ Alike(r, x, Fields \ {"tasks"})
  /\ \A u \in Task : u # t => r.tasks[u] = x.tasks[u]
  /\ r.tasks[t].status = status /\ r.tasks[t].leased_to = w
  /\ r.tasks[t].attempts = n /\ r.tasks[t].lease_deadline = d

\* A task that was queued and leased for the last time is as it was, but for the status
\* it ended in.
LEMMA EnqueueLine ==
  ASSUME NEW x, Good(x), NEW t \in Task, x.tasks[t].status = "Absent", NEW n \in Nat,
         NEW r, r = apply_record(x, TaskEnqueued(t, n))
  PROVE  OnlyTask(r, x, t, "Enqueued", x.tasks[t].leased_to, n, x.tasks[t].lease_deadline)
<1> PICK rec : rec = TaskEnqueued(t, n)
  OBVIOUS
<1>1. rec.kind = "TaskEnqueued" /\ rec.task = t /\ rec.attempts = n
  BY DEF TaskEnqueued
<1>2. r = [x EXCEPT !.tasks[t].status = "Enqueued", !.tasks[t].attempts = n]
  BY <1>1 DEF apply_record
<1>3. /\ Alike(r, x, Fields \ {"tasks"})
      /\ r.tasks = [x.tasks EXCEPT ![t].status = "Enqueued", ![t].attempts = n]
  BY <1>2 DEF Good, HasFields, Fields, Alike
<1>4. x.tasks \in [Task -> L!TaskState]
  BY DEF Good, TasksGood
<1>5. Good(r)
  BY EnqueuedGood
<1> QED
  BY <1>3, <1>4, <1>5 DEF OnlyTask, L!TaskState

\* A task that was leased counts that attempt again.
LEMMA LeaseLine ==
  ASSUME NEW x, Good(x), NEW t \in Task, x.tasks[t].status # "Absent", NEW w \in Worker, NEW d \in Nat,
         NEW r, r = apply_record(x, TaskLeased(t, w, d))
  PROVE  OnlyTask(r, x, t, "Leased", w, x.tasks[t].attempts + 1, d)
<1> PICK rec : rec = TaskLeased(t, w, d)
  OBVIOUS
<1>1. rec.kind = "TaskLeased" /\ rec.task = t /\ rec.worker = w /\ rec.expires = d
  BY DEF TaskLeased
<1>2. r = [x EXCEPT !.tasks[t] = [status |-> "Leased", leased_to |-> w,
                 attempts |-> x.tasks[t].attempts + 1, lease_deadline |-> d]]
  BY <1>1 DEF apply_record
<1>3. /\ Alike(r, x, Fields \ {"tasks"})
      /\ r.tasks = [x.tasks EXCEPT ![t] = [status |-> "Leased", leased_to |-> w,
                 attempts |-> x.tasks[t].attempts + 1, lease_deadline |-> d]]
  BY <1>2 DEF Good, HasFields, Fields, Alike
<1>4. x.tasks \in [Task -> L!TaskState]
  BY DEF Good, TasksGood
<1>5. Good(r)
  BY LeasedGood
<1> QED
  BY <1>3, <1>4, <1>5 DEF OnlyTask

\* The number of attempts that the line of the queue names.
Before(s, t) == IF s.tasks[t].leased_to = NoWorker THEN s.tasks[t].attempts ELSE s.tasks[t].attempts - 1

\* The lines of one task rebuild it.
LEMMA TaskRebuilt ==
  ASSUME NEW s, Sound(s), NEW x, NEW R, NEW T, T \subseteq Task, Rebuilt(x, s, R, T, {}, {}, {}, {}, {}),
         NEW t \in Task \ T, s.tasks[t].status # "Absent",
         NEW y, y = apply_record(x, TaskEnqueued(t, Before(s, t))),
         NEW z, z = IF s.tasks[t].leased_to = NoWorker THEN y
                    ELSE apply_record(y, TaskLeased(t, s.tasks[t].leased_to, s.tasks[t].lease_deadline))
  PROVE  Rebuilt(z, s, R, T \cup {t}, {}, {}, {}, {}, {})
<1>1. /\ s.tasks[t] \in L!TaskState /\ Before(s, t) \in Nat
      /\ s.tasks[t].leased_to = NoWorker => s.tasks[t].lease_deadline = 0
      /\ s.tasks[t].leased_to = NoWorker => s.tasks[t].status # "Leased"
  <2>1. s.tasks[t] \in L!TaskState /\ (s.tasks[t].leased_to = NoWorker => s.tasks[t].lease_deadline = 0)
    BY DEF Sound, Good, TasksGood
  <2>2. IF s.tasks[t].leased_to = NoWorker THEN s.tasks[t].status # "Leased" ELSE s.tasks[t].attempts >= 1
    BY DEF Sound
  <2>3. s.tasks[t].attempts \in Nat
    BY <2>1 DEF L!TaskState
  <2> QED
    BY <2>1, <2>2, <2>3 DEF Before
<1>2. x.tasks[t].status = "Absent" /\ x.tasks[t].leased_to = NoWorker /\ x.tasks[t].lease_deadline = 0 /\ Good(x)
  BY DEF Rebuilt, TasksAre, TaskIs
<1>3. OnlyTask(y, x, t, "Enqueued", NoWorker, Before(s, t), 0)
  BY <1>1, <1>2, EnqueueLine
<1>4. PICK st : OnlyTask(z, x, t, st, s.tasks[t].leased_to, s.tasks[t].attempts, s.tasks[t].lease_deadline)
                /\ st # "Absent" /\ (s.tasks[t].status \notin Terminal => st = s.tasks[t].status)
  <2>1. CASE s.tasks[t].leased_to = NoWorker
    <3>1. s.tasks[t].status \notin Terminal => s.tasks[t].status = "Enqueued"
      BY <1>1, <2>1 DEF L!TaskState, L!TaskStatus, Terminal
    <3>2. OnlyTask(z, x, t, "Enqueued", s.tasks[t].leased_to, s.tasks[t].attempts, s.tasks[t].lease_deadline)
      BY <1>1, <1>3, <2>1 DEF Before
    <3> QED
      BY <3>1, <3>2
  <2>2. CASE s.tasks[t].leased_to # NoWorker
    <3> PICK w : w = s.tasks[t].leased_to
      OBVIOUS
    <3> PICK d : d = s.tasks[t].lease_deadline
      OBVIOUS
    <3>1. w \in Worker /\ d \in Nat
      BY <1>1, <2>2 DEF L!TaskState
    <3>2. z = apply_record(y, TaskLeased(t, w, d))
      BY <2>2
    <3>3. Good(y) /\ y.tasks[t].status # "Absent" /\ y.tasks[t].attempts = Before(s, t)
      BY <1>3 DEF OnlyTask
    <3> HIDE DEF OnlyTask
    <3>4. OnlyTask(z, y, t, "Leased", w, y.tasks[t].attempts + 1, d)
      BY ONLY <3>1, <3>2, <3>3, t \in Task, LeaseLine
    <3>5. s.tasks[t].status \notin Terminal => s.tasks[t].status = "Leased"
      <4>1. s.tasks[t].status \notin {"Absent", "Enqueued"}
        BY <2>2 DEF Sound
      <4> QED
        BY <1>1, <4>1 DEF L!TaskState, L!TaskStatus, Terminal
    <3>6. y.tasks[t].attempts + 1 = s.tasks[t].attempts
      BY <1>1, <2>2, <3>3 DEF Before, L!TaskState
    <3>7. OnlyTask(z, x, t, "Leased", w, s.tasks[t].attempts, d)
      <4>1. Good(z) /\ Alike(z, y, Fields \ {"tasks"}) /\ Alike(y, x, Fields \ {"tasks"})
        BY <1>3, <3>4 DEF OnlyTask
      <4>2. Alike(z, x, Fields \ {"tasks"})
        BY <4>1 DEF Alike
      <4>3. \A u \in Task : u # t => z.tasks[u] = x.tasks[u]
        BY <1>3, <3>4 DEF OnlyTask
      <4>4. /\ z.tasks[t].status = "Leased" /\ z.tasks[t].leased_to = w
            /\ z.tasks[t].attempts = s.tasks[t].attempts /\ z.tasks[t].lease_deadline = d
        BY <3>4, <3>6 DEF OnlyTask
      <4> QED
        BY <4>1, <4>2, <4>3, <4>4 DEF OnlyTask
    <3> QED
      BY <3>5, <3>7
  <2> QED
    BY <2>1, <2>2
<1>5. TasksAre(z, s, T \cup {t}, {})
  <2>1. ASSUME NEW u \in Task PROVE TaskIs(z.tasks[u], s.tasks[u], u \in T \cup {t}, u \in {})
    <3>1. CASE u = t
      BY <1>4, <3>1 DEF OnlyTask, TaskIs
    <3>2. CASE u # t
      <4>1. TaskIs(x.tasks[u], s.tasks[u], u \in T, u \in {})
        BY DEF Rebuilt, TasksAre
      <4>2. z.tasks[u] = x.tasks[u]
        BY <1>4, <3>2 DEF OnlyTask
      <4> QED
        BY <3>2, <4>1, <4>2 DEF TaskIs
    <3> QED
      BY <3>1, <3>2
  <2> QED
    BY <2>1 DEF TasksAre
<1>6. Good(z) /\ Alike(z, x, Fields \ {"tasks"})
  BY <1>4 DEF OnlyTask
<1>7. /\ z.runs = R /\ AlertsAre(z, {}) /\ NumbersAre(z, s, {})
      /\ BeatsAre(z, s, {}) /\ ReceiptsAre(z, s, {}) /\ EventsFrom(z, s)
  <2> PICK D : D = {"tasks"}
    OBVIOUS
  <2> QED
    BY <1>6, Others DEF Fields
<1> QED
  BY <1>5, <1>6, <1>7 DEF Rebuilt

\* A checkpoint of a number sets it, an older one of the same stream being smaller.
LEMMA NumberLine ==
  ASSUME NEW s, Sound(s), NEW x, NEW R, NEW T, NEW A, NEW Q, NEW H, NEW F, NEW C,
         Rebuilt(x, s, R, T, A, Q, H, F, C),
         NEW t \in Task, NEW w \in Worker
  PROVE  Rebuilt(apply_record(x, EventSequenceCheckpoint(t, w, s.latest_seq[w][t])),
                 s, R, T, A, Q \cup {<<w, t>>}, H, F, C)
<1> PICK q : q = s.latest_seq[w][t]
  OBVIOUS
<1> PICK rec : rec = EventSequenceCheckpoint(t, w, q)
  OBVIOUS
<1> PICK r : r = apply_record(x, rec)
  OBVIOUS
<1>0. q \in Nat /\ x.latest_seq[w][t] \in Nat /\ x.latest_seq[w][t] <= q
  <2>1. s.latest_seq \in Table(Nat) /\ x.latest_seq \in Table(Nat) /\ NumbersAre(x, s, Q)
    BY DEF Sound, Rebuilt, Good, EventsGood
  <2> QED
    BY <2>1 DEF NumbersAre, Table
<1>1. rec.kind = "EventSequenceCheckpoint" /\ rec.task = t /\ rec.worker = w /\ rec.seq = q
  BY DEF EventSequenceCheckpoint
<1>2. r = [x EXCEPT !.latest_seq[w][t] = IF q > @ THEN q ELSE @]
  BY <1>1 DEF apply_record
<1>3. Alike(r, x, Fields \ {"latest_seq"}) /\ r.latest_seq = Put(x.latest_seq, w, t, q)
  <2>1. r.latest_seq = Put(x.latest_seq, w, t, IF q > x.latest_seq[w][t] THEN q ELSE x.latest_seq[w][t])
    BY <1>2 DEF Rebuilt, Good, HasFields, Fields, Put
  <2>2. (IF q > x.latest_seq[w][t] THEN q ELSE x.latest_seq[w][t]) = q
    BY <1>0
  <2>3. Alike(r, x, Fields \ {"latest_seq"})
    BY <1>2 DEF Rebuilt, Good, HasFields, Fields, Alike
  <2> QED
    BY <2>1, <2>2, <2>3
<1>4. Good(r)
  BY <1>0, NumberGood DEF Rebuilt
<1>5. NumbersAre(r, s, Q \cup {<<w, t>>})
  <2>1. \A v \in Worker, u \in Task : r.latest_seq[v][u] = IF v = w /\ u = t THEN q ELSE x.latest_seq[v][u]
    BY <1>3, PutValue DEF Rebuilt, Good, EventsGood
  <2>2. ASSUME NEW v \in Worker, NEW u \in Task
        PROVE  /\ r.latest_seq[v][u] <= s.latest_seq[v][u]
               /\ <<v, u>> \in Q \cup {<<w, t>>} => r.latest_seq[v][u] = s.latest_seq[v][u]
    <3>1. CASE v = w /\ u = t
      BY <1>0, <2>1, <3>1
    <3>2. CASE ~ (v = w /\ u = t)
      <4>1. <<v, u>> # <<w, t>>
        BY <3>2
      <4> QED
        BY <2>1, <3>2, <4>1 DEF Rebuilt, NumbersAre
    <3> QED
      BY <3>1, <3>2
  <2> QED
    BY <2>2 DEF NumbersAre
<1>6. /\ r.runs = R /\ TasksAre(r, s, T, F) /\ AlertsAre(r, A)
      /\ BeatsAre(r, s, H) /\ ReceiptsAre(r, s, C) /\ EventsFrom(r, s)
  <2> PICK D : D = {"latest_seq"}
    OBVIOUS
  <2> QED
    BY <1>3, Others DEF Fields
<1> QED
  BY <1>4, <1>5, <1>6 DEF Rebuilt

\* A heartbeat.
LEMMA BeatLine ==
  ASSUME NEW s, Sound(s), NEW x, NEW R, NEW T, NEW A, NEW Q, NEW H, NEW F, NEW C,
         Rebuilt(x, s, R, T, A, Q, H, F, C),
         NEW w \in Worker
  PROVE  Rebuilt(apply_record(x, Heartbeat(w, s.heartbeats[w])), s, R, T, A, Q, H \cup {w}, F, C)
<1> PICK b : b = s.heartbeats[w]
  OBVIOUS
<1> PICK rec : rec = Heartbeat(w, b)
  OBVIOUS
<1> PICK r : r = apply_record(x, rec)
  OBVIOUS
<1>0. b \in Nat
  BY DEF Sound, Good, RestGood
<1>1. rec.kind = "Heartbeat" /\ rec.worker = w /\ rec.timestamp = b
  BY DEF Heartbeat
<1>2. r = [x EXCEPT !.heartbeats[w] = b]
  BY <1>1 DEF apply_record
<1>3. Alike(r, x, Fields \ {"heartbeats"}) /\ r.heartbeats = [x.heartbeats EXCEPT ![w] = b]
  BY <1>2 DEF Rebuilt, Good, HasFields, Fields, Alike
<1>4. Good(r)
  BY <1>0, HeartbeatGood DEF Rebuilt
<1>5. BeatsAre(r, s, H \cup {w})
  BY <1>3 DEF Rebuilt, BeatsAre, Good, RestGood
<1>6. /\ r.runs = R /\ TasksAre(r, s, T, F) /\ AlertsAre(r, A)
      /\ NumbersAre(r, s, Q) /\ ReceiptsAre(r, s, C) /\ EventsFrom(r, s)
  <2> PICK D : D = {"heartbeats"}
    OBVIOUS
  <2> QED
    BY <1>3, Others DEF Fields
<1> QED
  BY <1>4, <1>5, <1>6 DEF Rebuilt

\* A receipt.
LEMMA ReceiptLine ==
  ASSUME NEW s, Sound(s), NEW x, NEW R, NEW T, NEW A, NEW Q, NEW H, NEW F, NEW C,
         Rebuilt(x, s, R, T, A, Q, H, F, C),
         NEW t \in Task
  PROVE  Rebuilt(apply_record(x, ReceiptRecorded(t, s.receipts[t])), s, R, T, A, Q, H, F, C \cup {t})
<1> PICK rc : rc = s.receipts[t]
  OBVIOUS
<1> PICK rec : rec = ReceiptRecorded(t, rc)
  OBVIOUS
<1> PICK r : r = apply_record(x, rec)
  OBVIOUS
<1>0. rc \in L!Receipt
  BY DEF Sound, Good, RestGood
<1>1. rec.kind = "ReceiptRecorded" /\ rec.task = t /\ rec.receipt = rc
  BY DEF ReceiptRecorded
<1>2. r = [x EXCEPT !.receipts[t] = rc]
  BY <1>1 DEF apply_record
<1>3. Alike(r, x, Fields \ {"receipts"}) /\ r.receipts = [x.receipts EXCEPT ![t] = rc]
  BY <1>2 DEF Rebuilt, Good, HasFields, Fields, Alike
<1>4. Good(r)
  BY <1>0, RecordedGood DEF Rebuilt
<1>5. ReceiptsAre(r, s, C \cup {t})
  BY <1>3 DEF Rebuilt, ReceiptsAre, Good, RestGood
<1>6. /\ r.runs = R /\ TasksAre(r, s, T, F) /\ AlertsAre(r, A)
      /\ NumbersAre(r, s, Q) /\ BeatsAre(r, s, H) /\ EventsFrom(r, s)
  <2> PICK D : D = {"receipts"}
    OBVIOUS
  <2> QED
    BY <1>3, Others DEF Fields
<1> QED
  BY <1>4, <1>5, <1>6 DEF Rebuilt

\* The status a task ended in.
LEMMA EndLine ==
  ASSUME NEW s, Sound(s), NEW x, NEW R, NEW T, NEW A, NEW Q, NEW H, NEW F, NEW C,
         Rebuilt(x, s, R, T, A, Q, H, F, C),
         NEW t \in Task, t \in T, s.tasks[t].status \in Terminal
  PROVE  Rebuilt(apply_record(x, TaskCompletedOrFailed(t, s.tasks[t].leased_to, s.tasks[t].status)),
                 s, R, T, A, Q, H, F \cup {t}, C)
<1> PICK w : w = s.tasks[t].leased_to
  OBVIOUS
<1> PICK st : st = s.tasks[t].status
  OBVIOUS
<1> PICK rec : rec = TaskCompletedOrFailed(t, w, st)
  OBVIOUS
<1> PICK r : r = apply_record(x, rec)
  OBVIOUS
<1>0. w \in Worker \cup {NoWorker} /\ st \in Terminal
  BY DEF Sound, Good, TasksGood, L!TaskState
<1>1. rec.kind = "TaskCompletedOrFailed" /\ rec.task = t /\ rec.worker = w /\ rec.status = st
  BY DEF TaskCompletedOrFailed
<1>2. r = mark_task_terminal(x, t, w, st)
  BY <1>1 DEF apply_record
<1>3. /\ Alike(r, x, Fields \ {"tasks"})
      /\ \A u \in Task :
           r.tasks[u] = IF u # t \/ x.tasks[t].status = "Absent" THEN x.tasks[u]
                        ELSE [status |-> st, leased_to |-> IF w = NoWorker THEN x.tasks[t].leased_to ELSE w,
                              attempts |-> x.tasks[t].attempts,
                              lease_deadline |-> x.tasks[t].lease_deadline]
  <2>1. HasFields(x) /\ TasksGood(x)
    BY DEF Rebuilt, Good
  <2>2. Alike(r, x, Fields \ {"tasks"})
    BY ONLY <1>0, <1>2, <2>1, t \in Task, MarkGood
  <2>3. ASSUME NEW u \in Task
        PROVE  r.tasks[u] = IF u # t \/ x.tasks[t].status = "Absent" THEN x.tasks[u]
                        ELSE [status |-> st, leased_to |-> IF w = NoWorker THEN x.tasks[t].leased_to ELSE w,
                              attempts |-> x.tasks[t].attempts,
                              lease_deadline |-> x.tasks[t].lease_deadline]
    BY ONLY <1>0, <1>2, <2>1, t \in Task, u \in Task, MarkGood
  <2> QED
    BY <2>2, <2>3
<1>4. Good(r)
  BY <1>0, CompletedGood DEF Rebuilt
<1>5. TasksAre(r, s, T, F \cup {t})
  <2>1. ASSUME NEW u \in Task PROVE TaskIs(r.tasks[u], s.tasks[u], u \in T, u \in F \cup {t})
    <3>1. TaskIs(x.tasks[u], s.tasks[u], u \in T, u \in F)
      BY DEF Rebuilt, TasksAre
    <3>2. CASE u = t
      <4>1. st # "Absent"
        BY <1>0 DEF Terminal, L!Terminal
      <4> QED
        BY <1>3, <3>1, <3>2, <4>1 DEF TaskIs
    <3>3. CASE u # t
      <4>1. r.tasks[u] = x.tasks[u] /\ (u \in F \cup {t} <=> u \in F)
        BY <1>3, <3>3
      <4> QED
        BY <3>1, <4>1 DEF TaskIs
    <3> QED
      BY <3>2, <3>3
  <2> QED
    BY <2>1 DEF TasksAre
<1>6. /\ r.runs = R /\ NumbersAre(r, s, Q) /\ AlertsAre(r, A)
      /\ BeatsAre(r, s, H) /\ ReceiptsAre(r, s, C) /\ EventsFrom(r, s)
  <2> PICK D : D = {"tasks"}
    OBVIOUS
  <2> QED
    BY <1>3, Others DEF Fields
<1> QED
  BY <1>4, <1>5, <1>6 DEF Rebuilt

\* The image of a finite set is finite.
LEMMA ImageFinite ==
  ASSUME NEW X, NEW S, IsFiniteSet(S), NEW f \in [S -> X]
  PROVE  IsFiniteSet(Range(f)) /\ Range(f) \in SUBSET X
<1> DEFINE B == {f[x] : x \in S}
<1>1. f \in Surjection(S, B) /\ B \in SUBSET X
  BY DEF Surjection
<1>2. Range(f) = B
  BY DEF Range
<1> HIDE DEF B
<1> QED
  BY <1>1, <1>2, FS_Surjection

\* A sweep with a line for each element.
Lines(g) == [x \in DOMAIN g |-> <<g[x]>>]
Follows(S, g, J) == \A D \in SUBSET S : \A x \in S \ D : \A p \in J[D] : Append(p, g[x]) \in J[D \cup {x}]
Distinct(S, g) == \A x, y \in S : g[x] = g[y] => x = y

\* The sweep that appends them keeps what each line keeps.
LEMMA OneEach ==
  ASSUME NEW X, NEW S, IsFiniteSet(S), NEW g \in [S -> X], Distinct(S, g),
         NEW J \in [SUBSET S -> SUBSET Seq(X)], NEW pre \in J[{}], Follows(S, g, J)
  PROVE  pre \o Every(Lines(g)) \in J[S]
<1> PICK f : f = Lines(g)
  OBVIOUS
<1> PICK K : K = [x \in S |-> {x}]
  OBVIOUS
<1>1. f \in [S -> Seq(X)] /\ \A x \in S : f[x] = <<g[x]>>
  BY DEF Lines
<1>2. Classes(S, f, K)
  <2>1. ASSUME NEW x \in S, NEW y \in S PROVE f[y] = f[x] <=> y = x
    <3>1. f[y] = <<g[y]>> /\ f[x] = <<g[x]>>
      BY <1>1
    <3>2. <<g[y]>> = <<g[x]>> => g[y] = g[x]
      OBVIOUS
    <3> QED
      BY <3>1, <3>2 DEF Distinct
  <2> QED
    BY <2>1 DEF Classes
<1>3. Leads(S, f, J, K)
  <2>1. ASSUME NEW D \in SUBSET S, NEW x \in S \ D, NEW p \in J[D] PROVE p \o f[x] \in J[D \cup K[x]]
    <3>1. p \in Seq(X) /\ g[x] \in X /\ f[x] = <<g[x]>> /\ K[x] = {x}
      BY <1>1
    <3>2. p \o <<g[x]>> = Append(p, g[x])
      BY <3>1, AppendIsConcat
    <3>3. Append(p, g[x]) \in J[D \cup {x}]
      BY DEF Follows
    <3> QED
      BY <3>1, <3>2, <3>3, Zenon
  <2> QED
    BY <2>1 DEF Leads
<1> QED
  BY <1>1, <1>2, <1>3, Sweep

\* The sequences of lines that rebuild so much of s.
Partly(s, R, T, A, Q, H, F, C) ==
  {p \in Seq(Line) : Rebuilt(rebuild_state(p), s, R, T, A, Q, H, F, C)}

\* One more line, one more thing rebuilt.
LEMMA PartlyAppend ==
  ASSUME NEW s, NEW p \in Seq(Line), NEW rec \in Line, NEW R, NEW T, NEW A, NEW Q, NEW H, NEW F, NEW C,
         Rebuilt(apply_record(rebuild_state(p), rec), s, R, T, A, Q, H, F, C)
  PROVE  Append(p, rec) \in Partly(s, R, T, A, Q, H, F, C)
<1>1. rebuild_state(Append(p, rec)) = apply_record(rebuild_state(p), rec)
  BY RebuildAppend
<1>2. Append(p, rec) \in Seq(Line)
  BY AppendProperties
<1> QED
  BY <1>1, <1>2 DEF Partly

RunPart(s) == Every([r \in s.runs |-> <<RunCreated(r)>>])

\* The runs.
LEMMA RunsWritten ==
  ASSUME NEW s, Sound(s), NEW pre \in Partly(s, {}, {}, {}, {}, {}, {}, {})
  PROVE  pre \o RunPart(s) \in Partly(s, s.runs, {}, {}, {}, {}, {}, {})
<1> PICK S : S = s.runs
  OBVIOUS
<1>1. S \subseteq Run /\ IsFiniteSet(S)
  BY FS_Subset, LogAssumption DEF Sound, Good, RestGood
<1> PICK J : J = [D \in SUBSET S |-> Partly(s, D, {}, {}, {}, {}, {}, {})]
  OBVIOUS
<1> PICK g : g = [r \in S |-> RunCreated(r)]
  OBVIOUS
<1>2. /\ J \in [SUBSET S -> SUBSET Seq(Line)]
      /\ \A D \in SUBSET S : J[D] = Partly(s, D, {}, {}, {}, {}, {}, {})
  BY DEF Partly
<1>3. g \in [S -> Line] /\ \A x \in S : g[x] = RunCreated(x)
  BY <1>1 DEF Line
<1>4. Distinct(S, g)
  BY <1>3 DEF RunCreated, Distinct
<1>5. Follows(S, g, J)
  <2>1. ASSUME NEW D \in SUBSET S, NEW x \in S \ D, NEW p \in J[D] PROVE Append(p, g[x]) \in J[D \cup {x}]
    <3>1. p \in Seq(Line) /\ Rebuilt(rebuild_state(p), s, D, {}, {}, {}, {}, {}, {}) /\ x \in Run
      BY <1>1, <1>2 DEF Partly
    <3>2. Rebuilt(apply_record(rebuild_state(p), RunCreated(x)), s, D \cup {x}, {}, {}, {}, {}, {}, {})
      BY <3>1, RunLine
    <3>3. g[x] \in Line /\ g[x] = RunCreated(x) /\ D \cup {x} \in SUBSET S
      BY <1>3
    <3>4. Append(p, g[x]) \in Partly(s, D \cup {x}, {}, {}, {}, {}, {}, {})
      BY <3>1, <3>2, <3>3, PartlyAppend
    <3> QED
      BY <1>2, <3>3, <3>4
  <2> QED
    BY <2>1 DEF Follows
<1>6. pre \in J[{}]
  BY <1>2
<1>7. pre \o Every(Lines(g)) \in J[S]
  BY ONLY <1>1, <1>2, <1>3, <1>4, <1>5, <1>6, OneEach
<1>8. Lines(g) = [r \in s.runs |-> <<RunCreated(r)>>]
  BY <1>3 DEF Lines
<1> QED
  BY <1>2, <1>7, <1>8 DEF RunPart

\* The parts of a checkpoint that are not empty lists, and whose lines they are.
Known(s) == {t \in Task : s.tasks[t].status # "Absent"}
Streams(s) == {p \in Worker \X Task : s.latest_seq[p[1]][p[2]] > 0}
Seen(s) == {w \in Worker : s.heartbeats[w] > 0}
Receipted(s) == {t \in Task : s.receipts[t] # L!NoReceipt}

AlertPart(s) == Every([a \in s.alert_seq |-> <<AlertSent(a[1][1], a[2], a[1][2], a[1][3], a[3])>>])

\* The alerts.
LEMMA AlertsWritten ==
  ASSUME NEW s, Sound(s), NEW pre \in Partly(s, s.runs, Known(s), {}, {}, {}, {}, {})
  PROVE  pre \o AlertPart(s) \in Partly(s, s.runs, Known(s), s.alert_seq, {}, {}, {}, {})
<1> PICK S : S = s.alert_seq
  OBVIOUS
<1>1. /\ IsFiniteSet(S) /\ S \subseteq AlertKey \X Worker \X Nat
  BY DEF Sound, Good, AlertsGood
<1> PICK J : J = [D \in SUBSET S |-> Partly(s, s.runs, Known(s), D, {}, {}, {}, {})]
  OBVIOUS
<1> PICK g : g = [a \in S |-> AlertSent(a[1][1], a[2], a[1][2], a[1][3], a[3])]
  OBVIOUS
<1>2. /\ J \in [SUBSET S -> SUBSET Seq(Line)]
      /\ \A D \in SUBSET S : J[D] = Partly(s, s.runs, Known(s), D, {}, {}, {}, {})
  BY DEF Partly
<1>3. g \in [S -> Line] /\ \A x \in S : g[x] = AlertSent(x[1][1], x[2], x[1][2], x[1][3], x[3])
  <2>1. ASSUME NEW x \in S PROVE AlertSent(x[1][1], x[2], x[1][2], x[1][3], x[3]) \in Line
    <3>1. x[1][1] \in Task /\ x[2] \in Worker /\ x[1][2] \in Nat /\ x[1][3] \in Channel /\ x[3] \in Nat
      BY <1>1 DEF AlertKey
    <3> QED
      BY <3>1 DEF Line
  <2> QED
    BY <2>1
<1>4. Distinct(S, g)
  <2>1. ASSUME NEW x \in S, NEW y \in S, g[x] = g[y] PROVE x = y
    <3>1. /\ x = <<<<x[1][1], x[1][2], x[1][3]>>, x[2], x[3]>>
          /\ y = <<<<y[1][1], y[1][2], y[1][3]>>, y[2], y[3]>>
      BY <1>1 DEF AlertKey
    <3>2. /\ x[1][1] = y[1][1] /\ x[1][2] = y[1][2] /\ x[1][3] = y[1][3]
          /\ x[2] = y[2] /\ x[3] = y[3]
      BY <1>3, <2>1 DEF AlertSent
    <3> QED
      BY <3>1, <3>2
  <2> QED
    BY <2>1 DEF Distinct
<1>5. Follows(S, g, J)
  <2>1. ASSUME NEW D \in SUBSET S, NEW x \in S \ D, NEW p \in J[D] PROVE Append(p, g[x]) \in J[D \cup {x}]
    <3>1. p \in Seq(Line) /\ Rebuilt(rebuild_state(p), s, s.runs, Known(s), D, {}, {}, {}, {})
      BY <1>2 DEF Partly
    <3>2. Rebuilt(apply_record(rebuild_state(p), AlertSent(x[1][1], x[2], x[1][2], x[1][3], x[3])),
                  s, s.runs, Known(s), D \cup {x}, {}, {}, {}, {})
      <4>1. x \in s.alert_seq \ D /\ D \subseteq s.alert_seq
        OBVIOUS
      <4> QED
        BY <3>1, <4>1, AlertLine
    <3>3. g[x] \in Line /\ g[x] = AlertSent(x[1][1], x[2], x[1][2], x[1][3], x[3]) /\ D \cup {x} \in SUBSET S
      BY <1>3
    <3>4. Append(p, g[x]) \in Partly(s, s.runs, Known(s), D \cup {x}, {}, {}, {}, {})
      BY <3>1, <3>2, <3>3, PartlyAppend
    <3> QED
      BY <1>2, <3>3, <3>4
  <2> QED
    BY <2>1 DEF Follows
<1>6. pre \in J[{}]
  BY <1>2
<1>7. pre \o Every(Lines(g)) \in J[S]
  BY ONLY <1>1, <1>2, <1>3, <1>4, <1>5, <1>6, OneEach
<1>8. Lines(g) = [a \in s.alert_seq |-> <<AlertSent(a[1][1], a[2], a[1][2], a[1][3], a[3])>>]
  BY <1>3 DEF Lines
<1> QED
  BY <1>2, <1>7, <1>8 DEF AlertPart

NumberPart(s) == Every([p \in Streams(s) |-> <<EventSequenceCheckpoint(p[2], p[1], s.latest_seq[p[1]][p[2]])>>])

\* The numbers of the streams.
LEMMA NumbersWritten ==
  ASSUME NEW s, Sound(s), NEW pre \in Partly(s, s.runs, Known(s), s.alert_seq, {}, {}, {}, {})
  PROVE  pre \o NumberPart(s) \in Partly(s, s.runs, Known(s), s.alert_seq, Streams(s), {}, {}, {})
<1> PICK S : S = Streams(s)
  OBVIOUS
<1>1. /\ IsFiniteSet(S) /\ S \subseteq Worker \X Task
      /\ s.latest_seq \in Table(Nat)
  <2>1. S \subseteq Worker \X Task
    BY DEF Streams
  <2>2. IsFiniteSet(Worker \X Task)
    BY FS_Product, LogAssumption
  <2> QED
    BY <2>1, <2>2, FS_Subset DEF Sound, Good, EventsGood
<1> PICK J : J = [D \in SUBSET S |-> Partly(s, s.runs, Known(s), s.alert_seq, D, {}, {}, {})]
  OBVIOUS
<1> PICK g : g = [p \in S |-> EventSequenceCheckpoint(p[2], p[1], s.latest_seq[p[1]][p[2]])]
  OBVIOUS
<1>2. /\ J \in [SUBSET S -> SUBSET Seq(Line)]
      /\ \A D \in SUBSET S : J[D] = Partly(s, s.runs, Known(s), s.alert_seq, D, {}, {}, {})
  BY DEF Partly
<1>3. g \in [S -> Line] /\ \A x \in S : g[x] = EventSequenceCheckpoint(x[2], x[1], s.latest_seq[x[1]][x[2]])
  <2>1. ASSUME NEW x \in S PROVE EventSequenceCheckpoint(x[2], x[1], s.latest_seq[x[1]][x[2]]) \in Line
    <3>1. x[1] \in Worker /\ x[2] \in Task /\ s.latest_seq[x[1]][x[2]] \in Nat
      BY <1>1 DEF Table
    <3> QED
      BY <3>1 DEF Line
  <2> QED
    BY <2>1
<1>4. Distinct(S, g)
  <2>1. ASSUME NEW x \in S, NEW y \in S, g[x] = g[y] PROVE x = y
    <3>1. x = <<x[1], x[2]>> /\ y = <<y[1], y[2]>>
      BY <1>1
    <3>2. x[1] = y[1] /\ x[2] = y[2]
      BY <1>3, <2>1 DEF EventSequenceCheckpoint
    <3> QED
      BY <3>1, <3>2
  <2> QED
    BY <2>1 DEF Distinct
<1>5. Follows(S, g, J)
  <2>1. ASSUME NEW D \in SUBSET S, NEW x \in S \ D, NEW p \in J[D] PROVE Append(p, g[x]) \in J[D \cup {x}]
    <3>1. p \in Seq(Line) /\ Rebuilt(rebuild_state(p), s, s.runs, Known(s), s.alert_seq, D, {}, {}, {})
      BY <1>2 DEF Partly
    <3>2. Rebuilt(apply_record(rebuild_state(p), EventSequenceCheckpoint(x[2], x[1], s.latest_seq[x[1]][x[2]])),
                  s, s.runs, Known(s), s.alert_seq, D \cup {x}, {}, {}, {})
      <4>1. x[1] \in Worker /\ x[2] \in Task /\ x = <<x[1], x[2]>>
        BY <1>1
      <4> QED
        BY <3>1, <4>1, NumberLine
    <3>3. /\ g[x] \in Line /\ g[x] = EventSequenceCheckpoint(x[2], x[1], s.latest_seq[x[1]][x[2]])
          /\ D \cup {x} \in SUBSET S
      BY <1>3
    <3>4. Append(p, g[x]) \in Partly(s, s.runs, Known(s), s.alert_seq, D \cup {x}, {}, {}, {})
      BY <3>1, <3>2, <3>3, PartlyAppend
    <3> QED
      BY <1>2, <3>3, <3>4
  <2> QED
    BY <2>1 DEF Follows
<1>6. pre \in J[{}]
  BY <1>2
<1>7. pre \o Every(Lines(g)) \in J[S]
  BY ONLY <1>1, <1>2, <1>3, <1>4, <1>5, <1>6, OneEach
<1>8. Lines(g) = [p \in Streams(s) |-> <<EventSequenceCheckpoint(p[2], p[1], s.latest_seq[p[1]][p[2]])>>]
  BY <1>3 DEF Lines
<1> QED
  BY <1>2, <1>7, <1>8 DEF NumberPart

BeatPart(s) == Every([w \in Seen(s) |-> <<Heartbeat(w, s.heartbeats[w])>>])

\* The heartbeats.
LEMMA BeatsWritten ==
  ASSUME NEW s, Sound(s), NEW pre \in Partly(s, s.runs, Known(s), s.alert_seq, Streams(s), {}, {}, {})
  PROVE  pre \o BeatPart(s) \in Partly(s, s.runs, Known(s), s.alert_seq, Streams(s), Seen(s), {}, {})
<1> PICK S : S = Seen(s)
  OBVIOUS
<1>1. /\ IsFiniteSet(S) /\ S \subseteq Worker /\ s.heartbeats \in [Worker -> Nat]
  BY FS_Subset, LogAssumption DEF Seen, Sound, Good, RestGood
<1> PICK J : J = [D \in SUBSET S |-> Partly(s, s.runs, Known(s), s.alert_seq, Streams(s), D, {}, {})]
  OBVIOUS
<1> PICK g : g = [w \in S |-> Heartbeat(w, s.heartbeats[w])]
  OBVIOUS
<1>2. /\ J \in [SUBSET S -> SUBSET Seq(Line)]
      /\ \A D \in SUBSET S : J[D] = Partly(s, s.runs, Known(s), s.alert_seq, Streams(s), D, {}, {})
  BY DEF Partly
<1>3. g \in [S -> Line] /\ \A x \in S : g[x] = Heartbeat(x, s.heartbeats[x])
  BY <1>1 DEF Line
<1>4. Distinct(S, g)
  BY <1>3 DEF Heartbeat, Distinct
<1>5. Follows(S, g, J)
  <2>1. ASSUME NEW D \in SUBSET S, NEW x \in S \ D, NEW p \in J[D] PROVE Append(p, g[x]) \in J[D \cup {x}]
    <3>1. p \in Seq(Line) /\ Rebuilt(rebuild_state(p), s, s.runs, Known(s), s.alert_seq, Streams(s), D, {}, {})
      BY <1>2 DEF Partly
    <3>2. Rebuilt(apply_record(rebuild_state(p), Heartbeat(x, s.heartbeats[x])),
                  s, s.runs, Known(s), s.alert_seq, Streams(s), D \cup {x}, {}, {})
      <4>1. x \in Worker
        BY <1>1
      <4> QED
        BY <3>1, <4>1, BeatLine
    <3>3. g[x] \in Line /\ g[x] = Heartbeat(x, s.heartbeats[x]) /\ D \cup {x} \in SUBSET S
      BY <1>3
    <3>4. Append(p, g[x]) \in Partly(s, s.runs, Known(s), s.alert_seq, Streams(s), D \cup {x}, {}, {})
      BY <3>1, <3>2, <3>3, PartlyAppend
    <3> QED
      BY <1>2, <3>3, <3>4
  <2> QED
    BY <2>1 DEF Follows
<1>6. pre \in J[{}]
  BY <1>2
<1>7. pre \o Every(Lines(g)) \in J[S]
  BY ONLY <1>1, <1>2, <1>3, <1>4, <1>5, <1>6, OneEach
<1>8. Lines(g) = [w \in Seen(s) |-> <<Heartbeat(w, s.heartbeats[w])>>]
  BY <1>3 DEF Lines
<1> QED
  BY <1>2, <1>7, <1>8 DEF BeatPart

ReceiptPart(s) == Every([t \in Receipted(s) |-> <<ReceiptRecorded(t, s.receipts[t])>>])

\* The receipts.
LEMMA ReceiptsWritten ==
  ASSUME NEW s, Sound(s), NEW pre \in Partly(s, s.runs, Known(s), s.alert_seq, Streams(s), Seen(s), Known(s), {})
  PROVE  pre \o ReceiptPart(s) \in Partly(s, s.runs, Known(s), s.alert_seq, Streams(s), Seen(s), Known(s), Receipted(s))
<1> PICK S : S = Receipted(s)
  OBVIOUS
<1>1. /\ IsFiniteSet(S) /\ S \subseteq Task /\ s.receipts \in [Task -> L!Receipt]
  BY FS_Subset, LogAssumption DEF Receipted, Sound, Good, RestGood
<1> PICK J : J = [D \in SUBSET S |-> Partly(s, s.runs, Known(s), s.alert_seq, Streams(s), Seen(s), Known(s), D)]
  OBVIOUS
<1> PICK g : g = [t \in S |-> ReceiptRecorded(t, s.receipts[t])]
  OBVIOUS
<1>2. /\ J \in [SUBSET S -> SUBSET Seq(Line)]
      /\ \A D \in SUBSET S : J[D] = Partly(s, s.runs, Known(s), s.alert_seq, Streams(s), Seen(s), Known(s), D)
  BY DEF Partly
<1>3. g \in [S -> Line] /\ \A x \in S : g[x] = ReceiptRecorded(x, s.receipts[x])
  BY <1>1 DEF Line
<1>4. Distinct(S, g)
  BY <1>3 DEF ReceiptRecorded, Distinct
<1>5. Follows(S, g, J)
  <2>1. ASSUME NEW D \in SUBSET S, NEW x \in S \ D, NEW p \in J[D] PROVE Append(p, g[x]) \in J[D \cup {x}]
    <3>1. /\ p \in Seq(Line)
          /\ Rebuilt(rebuild_state(p), s, s.runs, Known(s), s.alert_seq, Streams(s), Seen(s), Known(s), D)
      BY <1>2 DEF Partly
    <3>2. Rebuilt(apply_record(rebuild_state(p), ReceiptRecorded(x, s.receipts[x])),
                  s, s.runs, Known(s), s.alert_seq, Streams(s), Seen(s), Known(s), D \cup {x})
      <4>1. x \in Task
        BY <1>1
      <4> QED
        BY <3>1, <4>1, ReceiptLine
    <3>3. g[x] \in Line /\ g[x] = ReceiptRecorded(x, s.receipts[x]) /\ D \cup {x} \in SUBSET S
      BY <1>3
    <3>4. Append(p, g[x]) \in Partly(s, s.runs, Known(s), s.alert_seq, Streams(s), Seen(s), Known(s), D \cup {x})
      BY <3>1, <3>2, <3>3, PartlyAppend
    <3> QED
      BY <1>2, <3>3, <3>4
  <2> QED
    BY <2>1 DEF Follows
<1>6. pre \in J[{}]
  BY <1>2
<1>7. pre \o Every(Lines(g)) \in J[S]
  BY ONLY <1>1, <1>2, <1>3, <1>4, <1>5, <1>6, OneEach
<1>8. Lines(g) = [t \in Receipted(s) |-> <<ReceiptRecorded(t, s.receipts[t])>>]
  BY <1>3 DEF Lines
<1> QED
  BY <1>2, <1>7, <1>8 DEF ReceiptPart

\* The lines of one task of the queue: one, or two if it was ever leased.
LEMMA TaskLinesAppended ==
  ASSUME NEW s, Sound(s), NEW t \in Known(s), NEW p \in Seq(Line),
         NEW a, a = TaskEnqueued(t, Before(s, t)),
         NEW b, b = TaskLeased(t, s.tasks[t].leased_to, s.tasks[t].lease_deadline)
  PROVE  /\ TaskLines(s, t) \in Seq(Line) /\ TaskLines(s, t)[1] = a /\ a \in Line
         /\ s.tasks[t].leased_to # NoWorker => b \in Line
         /\ p \o TaskLines(s, t) = IF s.tasks[t].leased_to = NoWorker THEN Append(p, a) ELSE Append(Append(p, a), b)
<1>1. /\ t \in Task /\ s.tasks[t] \in L!TaskState
      /\ s.tasks[t].leased_to # NoWorker => s.tasks[t].attempts >= 1
  BY DEF Known, Sound, Good, TasksGood
<1>2. /\ s.tasks[t].attempts \in Nat /\ s.tasks[t].leased_to \in Worker \cup {NoWorker}
      /\ s.tasks[t].lease_deadline \in Nat
  BY <1>1 DEF L!TaskState
<1>3. Before(s, t) \in Nat
  BY <1>1, <1>2 DEF Before
<1>4. a \in Line
  BY <1>1, <1>3 DEF Line
<1>5. s.tasks[t].leased_to # NoWorker => b \in Line
  BY <1>1, <1>2 DEF Line
<1>6. CASE s.tasks[t].leased_to = NoWorker
  <2>1. TaskLines(s, t) = <<a>> \o <<>>
    BY <1>6 DEF TaskLines, Before
  <2>2. <<a>> \o <<>> = <<a>> /\ <<a>> \in Seq(Line)
    BY <1>4, ConcatEmptySeq
  <2>3. p \o <<a>> = Append(p, a)
    BY <1>4, AppendIsConcat
  <2>4. TaskLines(s, t) = <<a>>
    BY <2>1, <2>2, Zenon
  <2> QED
    BY <1>4, <1>5, <1>6, <2>2, <2>3, <2>4
<1>7. CASE s.tasks[t].leased_to # NoWorker
  <2> PICK c : c = <<a>> \o <<b>>
    OBVIOUS
  <2>1. TaskLines(s, t) = c
    BY <1>7 DEF TaskLines, Before
  <2>2. <<a>> \in Seq(Line) /\ <<b>> \in Seq(Line)
    BY <1>4, <1>5, <1>7
  <2>3. c \in Seq(Line) /\ p \o c = (p \o <<a>>) \o <<b>> /\ c[1] = a
    <3>1. c \in Seq(Line) /\ c[1] = a
      BY <2>2, ConcatProperties
    <3> HIDE <1>1
    <3> PICK u : u = <<a>>
      OBVIOUS
    <3> PICK v : v = <<b>>
      OBVIOUS
    <3>2. p \o (u \o v) = (p \o u) \o v
      BY <2>2, Associative
    <3> QED
      BY <3>1, <3>2, Zenon
  <2>4. p \o <<a>> = Append(p, a) /\ Append(p, a) \in Seq(Line)
    BY <1>4, AppendIsConcat, AppendProperties
  <2>5. Append(p, a) \o <<b>> = Append(Append(p, a), b)
    BY <1>5, <1>7, <2>4, AppendIsConcat
  <2> QED
    BY <1>4, <1>5, <1>7, <2>1, <2>3, <2>4, <2>5
<1> QED
  BY <1>6, <1>7

TaskPart(s) == Every([t \in Known(s) |-> TaskLines(s, t)])

\* The queue.
LEMMA TasksWritten ==
  ASSUME NEW s, Sound(s), NEW pre \in Partly(s, s.runs, {}, {}, {}, {}, {}, {})
  PROVE  pre \o TaskPart(s) \in Partly(s, s.runs, Known(s), {}, {}, {}, {}, {})
<1> PICK S : S = Known(s)
  OBVIOUS
<1>1. IsFiniteSet(S) /\ S \subseteq Task
  BY FS_Subset, LogAssumption DEF Known
<1> PICK J : J = [D \in SUBSET S |-> Partly(s, s.runs, D, {}, {}, {}, {}, {})]
  OBVIOUS
<1> PICK f : f = [t \in S |-> TaskLines(s, t)]
  OBVIOUS
<1> PICK K : K = [t \in S |-> {t}]
  OBVIOUS
<1>2. /\ J \in [SUBSET S -> SUBSET Seq(Line)]
      /\ \A D \in SUBSET S : J[D] = Partly(s, s.runs, D, {}, {}, {}, {}, {})
  BY DEF Partly
<1>3. f \in [S -> Seq(Line)] /\ \A x \in S : f[x] = TaskLines(s, x) /\ f[x][1] = TaskEnqueued(x, Before(s, x))
  <2>1. <<>> \in Seq(Line)
    OBVIOUS
  <2>2. ASSUME NEW x \in S PROVE TaskLines(s, x) \in Seq(Line) /\ TaskLines(s, x)[1] = TaskEnqueued(x, Before(s, x))
    BY <2>1, TaskLinesAppended
  <2> QED
    BY <2>2
<1>4. Classes(S, f, K)
  <2>1. ASSUME NEW x \in S, NEW y \in S, f[y] = f[x] PROVE y = x
    <3>1. TaskEnqueued(y, Before(s, y)) = TaskEnqueued(x, Before(s, x))
      BY <1>3, <2>1
    <3> QED
      BY <3>1 DEF TaskEnqueued
  <2> QED
    BY <2>1 DEF Classes
<1>5. Leads(S, f, J, K)
  <2>1. ASSUME NEW D \in SUBSET S, NEW x \in S \ D, NEW p \in J[D] PROVE p \o f[x] \in J[D \cup K[x]]
    <3> PICK a : a = TaskEnqueued(x, Before(s, x))
      OBVIOUS
    <3> PICK b : b = TaskLeased(x, s.tasks[x].leased_to, s.tasks[x].lease_deadline)
      OBVIOUS
    <3> PICK y : y = apply_record(rebuild_state(p), a)
      OBVIOUS
    <3> PICK z : z = IF s.tasks[x].leased_to = NoWorker THEN y ELSE apply_record(y, b)
      OBVIOUS
    <3>1. p \in Seq(Line) /\ Rebuilt(rebuild_state(p), s, s.runs, D, {}, {}, {}, {}, {})
      BY <1>2 DEF Partly
    <3>2. x \in Task \ D /\ s.tasks[x].status # "Absent" /\ D \subseteq Task
      BY <1>1 DEF Known
    <3>3. Rebuilt(z, s, s.runs, D \cup {x}, {}, {}, {}, {}, {})
      BY <3>1, <3>2, TaskRebuilt
    <3>4. /\ a \in Line /\ (s.tasks[x].leased_to # NoWorker => b \in Line)
          /\ p \o TaskLines(s, x) = IF s.tasks[x].leased_to = NoWorker THEN Append(p, a) ELSE Append(Append(p, a), b)
      BY <3>1, TaskLinesAppended
    <3> PICK q : q = p \o f[x]
      OBVIOUS
    <3>5. q = IF s.tasks[x].leased_to = NoWorker THEN Append(p, a) ELSE Append(Append(p, a), b)
      BY <1>3, <3>4
    <3>6. rebuild_state(Append(p, a)) = y /\ Append(p, a) \in Seq(Line)
      BY <3>1, <3>4, RebuildAppend, AppendProperties
    <3>7. q \in Seq(Line) /\ rebuild_state(q) = z
      <4>1. CASE s.tasks[x].leased_to = NoWorker
        BY <3>5, <3>6, <4>1
      <4>2. CASE s.tasks[x].leased_to # NoWorker
        <5> PICK c : c = Append(p, a)
          OBVIOUS
        <5>1. c \in Seq(Line) /\ b \in Line /\ rebuild_state(c) = y
          BY <3>4, <3>6, <4>2, Zenon
        <5>2. rebuild_state(Append(c, b)) = apply_record(y, b)
          BY ONLY <5>1, RebuildAppend
        <5>3. Append(c, b) \in Seq(Line)
          BY ONLY <5>1, AppendProperties
        <5> QED
          BY <3>5, <4>2, <5>2, <5>3
      <4> QED
        BY <4>1, <4>2
    <3>8. q \in Partly(s, s.runs, D \cup {x}, {}, {}, {}, {}, {})
      BY <3>3, <3>7 DEF Partly
    <3>9. D \cup {x} \in SUBSET S /\ K[x] = {x}
      OBVIOUS
    <3> QED
      BY <1>2, <3>8, <3>9
  <2> QED
    BY <2>1 DEF Leads
<1>6. pre \in J[{}]
  BY <1>2
<1>7. pre \o Every(f) \in J[S]
  BY ONLY <1>1, <1>2, <1>3, <1>4, <1>5, <1>6, Sweep
<1> QED
  BY <1>2, <1>7 DEF TaskPart

\* The event lines that say what s retains.
RetainedLines(s) == {rec \in Line : \E t, w, q, p : Retained(s, t, w, q, p) /\ rec = EventAppended(t, w, q, p)}

\* An event of the three slots of a stream is one of them.
LEMMA EventRetained ==
  ASSUME NEW s, Sound(s), NEW w \in Worker, NEW t \in Task, NEW n \in 1 .. s.latest_seq[w][t],
         NEW e \in {s.latest_events[w][t], s.restarted_events[w][t], s.escalated_events[w][t]} \ {NoEvent},
         e.seq = n
  PROVE  EventAppended(t, w, n, e.payload) \in RetainedLines(s)
<1>1. /\ s.latest_seq[w][t] \in Nat
      /\ s.latest_events[w][t] \in Event /\ s.restarted_events[w][t] \in Event /\ s.escalated_events[w][t] \in Event
      /\ s.restarted_events[w][t].payload \notin Terminal /\ s.escalated_events[w][t].payload \notin Terminal
  BY DEF Sound, Good, EventsGood, Table
<1>2. e.payload \in Payload
  BY <1>1 DEF Event
<1>3. n \in Nat /\ n <= s.latest_seq[w][t]
  BY <1>1
<1>4. e.payload \in Terminal => s.tasks[t].status \in Terminal /\ s.tasks[t].leased_to = w
  BY <1>1 DEF Sound, Ends, EndsBut
<1> PICK p : p = e.payload
  OBVIOUS
<1>5. Retained(s, t, w, n, p)
  BY <1>2, <1>3, <1>4 DEF Retained
<1>6. EventAppended(t, w, n, p) \in Line
  BY <1>2, <1>3, EventLine DEF Line
<1> QED
  BY <1>5, <1>6 DEF RetainedLines

\* So are all the lines of a stream.
LEMMA EventLinesRetained ==
  ASSUME NEW s, Sound(s), NEW w \in Worker, NEW t \in Task
  PROVE  EventLines(s, w, t) \in Seq(RetainedLines(s))
<1> PICK kept : kept = {s.latest_events[w][t], s.restarted_events[w][t], s.escalated_events[w][t]} \ {NoEvent}
  OBVIOUS
<1> PICK k : k = s.latest_seq[w][t]
  OBVIOUS
<1> PICK Y : Y = RetainedLines(s)
  OBVIOUS
<1> DEFINE of(n) == {e \in kept : e.seq = n}
           B(n) == {<<EventAppended(t, w, n, e.payload)>> : e \in of(n)}
<1>0. k \in Nat
  BY DEF Sound, Good, EventsGood, Table
<1>1. ASSUME NEW n \in 1 .. k PROVE B(n) \in SUBSET Seq(Y) /\ IsFiniteSet(B(n))
  <2>1. IsFiniteSet(of(n))
    <3> PICK a : a = s.latest_events[w][t]
      OBVIOUS
    <3> PICK b : b = s.restarted_events[w][t]
      OBVIOUS
    <3> PICK c : c = s.escalated_events[w][t]
      OBVIOUS
    <3>1. IsFiniteSet({a}) /\ IsFiniteSet({b}) /\ IsFiniteSet({c})
      BY FS_Singleton
    <3>2. IsFiniteSet({a} \cup {b})
      BY <3>1, FS_Union
    <3> PICK m : m = {a} \cup {b}
      OBVIOUS
    <3>3. IsFiniteSet(m \cup {c})
      BY <3>1, <3>2, FS_Union
    <3>4. of(n) \subseteq m \cup {c}
      OBVIOUS
    <3> HIDE DEF of
    <3> QED
      BY <3>3, <3>4, FS_Subset
  <2> PICK S : S = of(n)
    OBVIOUS
  <2> PICK f : f = [e \in S |-> <<EventAppended(t, w, n, e.payload)>>]
    OBVIOUS
  <2>2. f \in [S -> Seq(Y)]
    <3>1. ASSUME NEW e \in S PROVE <<EventAppended(t, w, n, e.payload)>> \in Seq(Y)
      <4>1. EventAppended(t, w, n, e.payload) \in Y
        BY EventRetained
      <4> QED
        BY <4>1
    <3> QED
      BY <3>1
  <2>3. IsFiniteSet(Range(f)) /\ Range(f) \in SUBSET Seq(Y)
    BY <2>1, <2>2, ImageFinite
  <2>4. Range(f) = B(n)
    BY DEF Range
  <2> QED
    BY <2>3, <2>4, Zenon
<1> DEFINE ss == [n \in 1 .. k |-> FlattenSeq(SetToSeq(B(n)))]
<1>2. ss \in Seq(Seq(Y))
  <2>1. ASSUME NEW n \in 1 .. k PROVE FlattenSeq(SetToSeq(B(n))) \in Seq(Y)
    <3> HIDE DEF B
    <3> QED
      BY <1>1, JoinedTyped
  <2> HIDE DEF B
  <2> QED
    BY <1>0, <2>1
<1>3. EventLines(s, w, t) = FlattenSeq(ss)
  BY Zenon DEF EventLines, LinesFor
<1> HIDE DEF ss
<1> QED
  BY <1>2, <1>3, FlattenTyped

EventPart(s) == Every([p \in Streams(s) |-> EventLines(s, p[1], p[2])])

\* The retained events.
LEMMA EventsWritten ==
  ASSUME NEW s, Sound(s), NEW pre \in Partly(s, s.runs, Known(s), s.alert_seq, {}, {}, {}, {})
  PROVE  pre \o EventPart(s) \in Partly(s, s.runs, Known(s), s.alert_seq, {}, {}, {}, {})
<1> PICK Y : Y = RetainedLines(s)
  OBVIOUS
<1> PICK I : I = Partly(s, s.runs, Known(s), s.alert_seq, {}, {}, {}, {})
  OBVIOUS
<1> PICK S : S = Streams(s)
  OBVIOUS
<1> PICK f : f = [p \in S |-> EventLines(s, p[1], p[2])]
  OBVIOUS
<1>1. IsFiniteSet(S) /\ S \subseteq Worker \X Task
  <2>1. S \subseteq Worker \X Task
    BY DEF Streams
  <2>2. IsFiniteSet(Worker \X Task)
    BY FS_Product, LogAssumption
  <2> QED
    BY <2>1, <2>2, FS_Subset
<1>2. f \in [S -> Seq(Y)]
  <2>1. ASSUME NEW p \in S PROVE EventLines(s, p[1], p[2]) \in Seq(Y)
    BY <1>1, EventLinesRetained
  <2> QED
    BY <2>1
<1>3. Every(f) \in Seq(Y)
  <2> PICK B : B = Range(f)
    OBVIOUS
  <2>1. IsFiniteSet(B) /\ B \in SUBSET Seq(Y)
    BY <1>1, <1>2, ImageFinite
  <2>2. FlattenSeq(SetToSeq(B)) \in Seq(Y)
    BY <2>1, JoinedTyped
  <2> QED
    BY <2>2 DEF Every
<1>4. Keeps(I, Y)
  <2>1. ASSUME NEW p \in I, NEW rec \in Y PROVE Append(p, rec) \in I
    <3>1. p \in Seq(Line) /\ Rebuilt(rebuild_state(p), s, s.runs, Known(s), s.alert_seq, {}, {}, {}, {})
      BY DEF Partly
    <3>2. PICK t, w, q, l : Retained(s, t, w, q, l) /\ rec = EventAppended(t, w, q, l) /\ rec \in Line
      BY DEF RetainedLines
    <3>3. Rebuilt(apply_record(rebuild_state(p), rec), s, s.runs, Known(s), s.alert_seq, {}, {}, {}, {})
      BY <3>1, <3>2, RetainedLine DEF Known
    <3> QED
      BY <3>1, <3>2, <3>3, PartlyAppend
  <2> QED
    BY <2>1 DEF Keeps
<1>5. Y \in SUBSET Line /\ I \in SUBSET Seq(Line)
  BY DEF RetainedLines, Partly
<1>6. pre \o Every(f) \in I
  BY <1>3, <1>4, <1>5, Steady
<1> QED
  BY <1>6 DEF EventPart

\* A task that did not end has its status already.
LEMMA NotEnded ==
  ASSUME NEW x, NEW s, NEW R, NEW T, NEW A, NEW Q, NEW H, NEW F, NEW C, Rebuilt(x, s, R, T, A, Q, H, F, C),
         NEW G, \A t \in G : s.tasks[t].status \notin Terminal
  PROVE  Rebuilt(x, s, R, T, A, Q, H, F \cup G, C)
<1>1. TasksAre(x, s, T, F \cup G)
  <2>1. ASSUME NEW t \in Task PROVE TaskIs(x.tasks[t], s.tasks[t], t \in T, t \in F \cup G)
    <3>1. TaskIs(x.tasks[t], s.tasks[t], t \in T, t \in F)
      BY DEF Rebuilt, TasksAre
    <3>2. CASE t \in G
      BY <3>1, <3>2 DEF TaskIs
    <3>3. CASE t \notin G
      <4>1. t \in F \cup G <=> t \in F
        BY <3>3
      <4> QED
        BY <3>1, <4>1 DEF TaskIs
    <3> QED
      BY <3>2, <3>3
  <2> QED
    BY <2>1 DEF TasksAre
<1> QED
  BY <1>1 DEF Rebuilt

EndPart(s) == Every([t \in Known(s) |-> TerminalLines(s, t)])

\* How the tasks that are over ended.
LEMMA EndsWritten ==
  ASSUME NEW s, Sound(s), NEW pre \in Partly(s, s.runs, Known(s), s.alert_seq, Streams(s), Seen(s), {}, {})
  PROVE  pre \o EndPart(s) \in Partly(s, s.runs, Known(s), s.alert_seq, Streams(s), Seen(s), Known(s), {})
<1> PICK S : S = Known(s)
  OBVIOUS
<1>1. IsFiniteSet(S) /\ S \subseteq Task
  BY FS_Subset, LogAssumption DEF Known
<1> PICK J : J = [D \in SUBSET S |-> Partly(s, s.runs, S, s.alert_seq, Streams(s), Seen(s), D, {})]
  OBVIOUS
<1> PICK f : f = [t \in S |-> TerminalLines(s, t)]
  OBVIOUS
<1> PICK K : K = [t \in S |-> {u \in S : f[u] = f[t]}]
  OBVIOUS
<1>2. /\ J \in [SUBSET S -> SUBSET Seq(Line)]
      /\ \A D \in SUBSET S : J[D] = Partly(s, s.runs, S, s.alert_seq, Streams(s), Seen(s), D, {})
  BY DEF Partly
<1>3. ASSUME NEW x \in S, NEW rec, rec = TaskCompletedOrFailed(x, s.tasks[x].leased_to, s.tasks[x].status)
      PROVE  /\ s.tasks[x].status \in Terminal => rec \in Line /\ TerminalLines(s, x) = <<rec>>
             /\ s.tasks[x].status \notin Terminal => TerminalLines(s, x) = <<>>
  <2>1. s.tasks[x].leased_to \in Worker \cup {NoWorker} /\ x \in Task
    BY <1>1 DEF Sound, Good, TasksGood, L!TaskState
  <2>2. s.tasks[x].status \in Terminal => rec \in Line
    BY <1>3, <2>1 DEF Line
  <2> QED
    BY <1>3, <2>2 DEF TerminalLines
<1>4. f \in [S -> Seq(Line)] /\ \A x \in S : f[x] = TerminalLines(s, x)
  <2>1. ASSUME NEW x \in S PROVE TerminalLines(s, x) \in Seq(Line)
    <3> PICK rec : rec = TaskCompletedOrFailed(x, s.tasks[x].leased_to, s.tasks[x].status)
      OBVIOUS
    <3>1. CASE s.tasks[x].status \in Terminal
      <4>1. TerminalLines(s, x) = <<rec>> /\ rec \in Line
        BY <1>3, <3>1
      <4> QED
        BY <4>1
    <3>2. CASE s.tasks[x].status \notin Terminal
      <4>1. TerminalLines(s, x) = <<>>
        BY <1>3, <3>2
      <4> QED
        BY <4>1
    <3> QED
      BY <3>1, <3>2
  <2> QED
    BY <2>1
<1>5. Classes(S, f, K)
  BY DEF Classes
<1>6. Leads(S, f, J, K)
  <2>1. ASSUME NEW D \in SUBSET S, NEW x \in S \ D, NEW p \in J[D] PROVE p \o f[x] \in J[D \cup K[x]]
    <3>1. p \in Seq(Line) /\ Rebuilt(rebuild_state(p), s, s.runs, S, s.alert_seq, Streams(s), Seen(s), D, {})
      BY <1>2 DEF Partly
    <3>2. K[x] = {u \in S : f[u] = f[x]} /\ D \cup K[x] \in SUBSET S
      OBVIOUS
    <3>3. CASE s.tasks[x].status \in Terminal
      <4> PICK rec : rec = TaskCompletedOrFailed(x, s.tasks[x].leased_to, s.tasks[x].status)
        OBVIOUS
      <4>1. rec \in Line /\ f[x] = <<rec>> /\ x \in Task /\ x \in S
        BY <1>1, <1>3, <1>4, <3>3
      <4>2. K[x] = {x}
        <5>1. ASSUME NEW u \in S, f[u] = f[x] PROVE u = x
          <6>1. s.tasks[u].status \in Terminal
            <7>1. f[u] # <<>>
              BY <4>1, <5>1
            <7> QED
              BY <1>3, <1>4, <7>1
          <6> PICK r : r = TaskCompletedOrFailed(u, s.tasks[u].leased_to, s.tasks[u].status)
            OBVIOUS
          <6>2. f[u] = <<r>>
            BY <1>3, <1>4, <6>1
          <6>3. r = rec
            BY <4>1, <5>1, <6>2
          <6> QED
            BY <6>3 DEF TaskCompletedOrFailed
        <5> QED
          BY <3>2, <5>1
      <4>3. Rebuilt(apply_record(rebuild_state(p), rec),
                    s, s.runs, S, s.alert_seq, Streams(s), Seen(s), D \cup {x}, {})
        BY <3>1, <3>3, <4>1, EndLine
      <4>4. Append(p, rec) \in Partly(s, s.runs, S, s.alert_seq, Streams(s), Seen(s), D \cup {x}, {})
        BY <3>1, <4>1, <4>3, PartlyAppend
      <4>5. p \o <<rec>> = Append(p, rec)
        BY <3>1, <4>1, AppendIsConcat
      <4> QED
        BY <1>2, <3>2, <4>1, <4>2, <4>4, <4>5
    <3>4. CASE s.tasks[x].status \notin Terminal
      <4>1. f[x] = <<>> /\ p \o <<>> = p
        <5>1. f[x] = <<>>
          BY <1>3, <1>4, <3>4
        <5> QED
          BY <3>1, <5>1, ConcatEmptySeq
      <4>2. \A u \in K[x] : s.tasks[u].status \notin Terminal
        <5>1. ASSUME NEW u \in S, f[u] = <<>>, s.tasks[u].status \in Terminal PROVE FALSE
          <6> PICK rec : rec = TaskCompletedOrFailed(u, s.tasks[u].leased_to, s.tasks[u].status)
            OBVIOUS
          <6>1. TerminalLines(s, u) = <<rec>>
            BY <1>3, <5>1
          <6>2. <<rec>> = <<>>
            BY <1>4, <5>1, <6>1
          <6> QED
            BY <6>2
        <5> QED
          BY <3>2, <4>1, <5>1
      <4> PICK G : G = K[x]
        OBVIOUS
      <4>3. Rebuilt(rebuild_state(p), s, s.runs, S, s.alert_seq, Streams(s), Seen(s), D \cup G, {})
        BY <3>1, <4>2, NotEnded
      <4>4. p \in Partly(s, s.runs, S, s.alert_seq, Streams(s), Seen(s), D \cup G, {})
        BY <3>1, <4>3 DEF Partly
      <4> QED
        BY <1>2, <3>2, <4>1, <4>4
    <3> QED
      BY <3>3, <3>4
  <2> QED
    BY <2>1 DEF Leads
<1>7. pre \in J[{}]
  BY <1>2
<1>8. pre \o Every(f) \in J[S]
  BY ONLY <1>1, <1>2, <1>4, <1>5, <1>6, <1>7, Sweep
<1> QED
  BY <1>2, <1>8 DEF EndPart

\* Nothing has been rebuilt of it yet.
LEMMA NothingYet == ASSUME NEW s, Sound(s) PROVE <<>> \in Partly(s, {}, {}, {}, {}, {}, {}, {})
<1> PICK x : x = EmptyState
  OBVIOUS
<1>1. /\ x.tasks = [t \in Task |-> [status |-> "Absent", leased_to |-> NoWorker, attempts |-> 0, lease_deadline |-> 0]]
      /\ x.latest_seq = [w \in Worker |-> [t \in Task |-> 0]]
      /\ x.heartbeats = [w \in Worker |-> 0] /\ x.receipts = [t \in Task |-> L!NoReceipt]
      /\ x.alerts = {} /\ x.runs = {}
      /\ x.latest_events = [w \in Worker |-> [t \in Task |-> NoEvent]]
  BY DEF EmptyState
<1>2. Good(x)
  BY EmptyGood
<1>3. EventsFrom(x, s)
  BY <1>1 DEF EventsFrom, NoEvent, Terminal, L!Terminal
<1>4. TasksAre(x, s, {}, {}) /\ AlertsAre(x, {}) /\ BeatsAre(x, s, {}) /\ ReceiptsAre(x, s, {})
  BY <1>1 DEF TasksAre, TaskIs, AlertsAre, BeatsAre, ReceiptsAre
<1>5. NumbersAre(x, s, {})
  <2>1. s.latest_seq \in Table(Nat)
    BY DEF Sound, Good, EventsGood
  <2> QED
    BY <1>1, <2>1 DEF NumbersAre, Table
<1>6. Rebuilt(x, s, {}, {}, {}, {}, {}, {}, {})
  BY <1>1, <1>2, <1>3, <1>4, <1>5 DEF Rebuilt
<1>7. <<>> \in Seq(Line)
  OBVIOUS
<1> QED
  BY <1>6, <1>7, RebuildEmpty DEF Partly

\* A checkpoint is its parts.
LEMMA CheckpointParts ==
  ASSUME NEW s
  PROVE  Checkpoint(s) = RunPart(s) \o TaskPart(s) \o AlertPart(s) \o EventPart(s) \o NumberPart(s)
                         \o BeatPart(s) \o EndPart(s) \o ReceiptPart(s)
<1>1. RunPart(s) = LinesFor(s.runs, LAMBDA r : <<RunCreated(r)>>)
  BY DEF RunPart, Every, Range, LinesFor
<1>2. TaskPart(s) = LinesFor(Known(s), LAMBDA t : TaskLines(s, t))
  BY DEF TaskPart, Every, Range, LinesFor
<1>3. AlertPart(s) = LinesFor(s.alert_seq, LAMBDA a : <<AlertSent(a[1][1], a[2], a[1][2], a[1][3], a[3])>>)
  BY DEF AlertPart, Every, Range, LinesFor
<1>4. EventPart(s) = LinesFor(Streams(s), LAMBDA p : EventLines(s, p[1], p[2]))
  BY DEF EventPart, Every, Range, LinesFor
<1>5. NumberPart(s) = LinesFor(Streams(s), LAMBDA p :
        <<EventSequenceCheckpoint(p[2], p[1], s.latest_seq[p[1]][p[2]])>>)
  BY DEF NumberPart, Every, Range, LinesFor
<1>6. BeatPart(s) = LinesFor(Seen(s), LAMBDA w : <<Heartbeat(w, s.heartbeats[w])>>)
  BY DEF BeatPart, Every, Range, LinesFor
<1>7. EndPart(s) = LinesFor(Known(s), LAMBDA t : TerminalLines(s, t))
  BY DEF EndPart, Every, Range, LinesFor
<1>8. ReceiptPart(s) = LinesFor(Receipted(s), LAMBDA t : <<ReceiptRecorded(t, s.receipts[t])>>)
  BY DEF ReceiptPart, Every, Range, LinesFor
<1> QED
  BY <1>1, <1>2, <1>3, <1>4, <1>5, <1>6, <1>7, <1>8 DEF Checkpoint, Known, Streams, Seen, Receipted, LinesFor

\* What all of it rebuilds.
LEMMA AllRebuilt ==
  ASSUME NEW s, Sound(s), NEW x, Rebuilt(x,
                                         s, s.runs, Known(s), s.alert_seq, Streams(s), Seen(s), Known(s), Receipted(s))
  PROVE  /\ x.tasks = s.tasks /\ x.latest_seq = s.latest_seq /\ x.heartbeats = s.heartbeats
         /\ x.receipts = s.receipts /\ x.alerts = s.alerts /\ x.runs = s.runs
         /\ Good(x) /\ Ends(x)
<1>0. Good(x) /\ Good(s)
  BY DEF Rebuilt, Sound
<1>1. x.tasks = s.tasks
  <2>1. x.tasks \in [Task -> L!TaskState] /\ s.tasks \in [Task -> L!TaskState]
    BY <1>0 DEF Good, TasksGood
  <2>2. ASSUME NEW t \in Task PROVE x.tasks[t] = s.tasks[t]
    <3> PICK v : v = x.tasks[t]
      OBVIOUS
    <3> PICK u : u = s.tasks[t]
      OBVIOUS
    <3>1. v \in L!TaskState /\ u \in L!TaskState
      BY <2>1
    <3>2. TaskIs(v, u, t \in Known(s), t \in Known(s))
      BY DEF Rebuilt, TasksAre
    <3>3. v.status = u.status /\ v.leased_to = u.leased_to /\ v.attempts = u.attempts /\ v.lease_deadline = u.lease_deadline
      <4>1. CASE t \in Known(s)
        BY <3>2, <4>1 DEF TaskIs
      <4>2. CASE t \notin Known(s)
        <5>1. u.status = "Absent" /\ v.status = "Absent" /\ v.leased_to = NoWorker /\ v.lease_deadline = 0
          BY <3>2, <4>2 DEF TaskIs, Known
        <5>2. u.leased_to = NoWorker /\ u.attempts = 0 /\ v.attempts = 0 /\ u.lease_deadline = 0
          BY <1>0, <5>1 DEF Good, TasksGood
        <5> QED
          BY <5>1, <5>2
      <4> QED
        BY <4>1, <4>2
    <3>4. v = u
      BY <3>1, <3>3 DEF L!TaskState
    <3> QED
      BY <3>4
  <2> QED
    BY <2>1, <2>2
<1>2. x.latest_seq = s.latest_seq
  <2>1. x.latest_seq \in Table(Nat) /\ s.latest_seq \in Table(Nat)
    BY <1>0 DEF Good, EventsGood
  <2>2. ASSUME NEW w \in Worker, NEW t \in Task PROVE x.latest_seq[w][t] = s.latest_seq[w][t]
    <3>1. x.latest_seq[w][t] \in Nat /\ s.latest_seq[w][t] \in Nat
      BY <2>1 DEF Table
    <3>2. /\ x.latest_seq[w][t] <= s.latest_seq[w][t]
          /\ <<w, t>> \in Streams(s) => x.latest_seq[w][t] = s.latest_seq[w][t]
      BY DEF Rebuilt, NumbersAre
    <3>3. <<w, t>> \notin Streams(s) => ~ (s.latest_seq[w][t] > 0)
      BY DEF Streams
    <3> QED
      BY <3>1, <3>2, <3>3
  <2> QED
    BY <2>1, <2>2 DEF Table
<1>3. x.heartbeats = s.heartbeats
  <2>1. x.heartbeats \in [Worker -> Nat] /\ s.heartbeats \in [Worker -> Nat]
    BY <1>0 DEF Good, RestGood
  <2>2. \A w \in Worker : x.heartbeats[w] = s.heartbeats[w]
    BY <2>1 DEF Rebuilt, BeatsAre, Seen
  <2> QED
    BY <2>1, <2>2
<1>4. x.receipts = s.receipts
  <2>1. x.receipts \in [Task -> L!Receipt] /\ s.receipts \in [Task -> L!Receipt]
    BY <1>0 DEF Good, RestGood
  <2>2. \A t \in Task : x.receipts[t] = s.receipts[t]
    BY <2>1 DEF Rebuilt, ReceiptsAre, Receipted
  <2> QED
    BY <2>1, <2>2
<1>5. x.alerts = s.alerts /\ x.runs = s.runs
  BY <1>0 DEF Rebuilt, AlertsAre, Good, AlertsGood
<1>6. Ends(x)
  BY <1>1 DEF Rebuilt, EventsFrom, Ends, EndsBut
<1> QED
  BY <1>0, <1>1, <1>2, <1>3, <1>4, <1>5, <1>6

\* The checkpoint of a sound state is a file that replays to it.
LEMMA CheckpointReplays ==
  ASSUME NEW s, Sound(s), NEW x, x = rebuild_state(Checkpoint(s))
  PROVE  /\ Checkpoint(s) \in Seq(Line)
         /\ x.tasks = s.tasks /\ x.latest_seq = s.latest_seq /\ x.heartbeats = s.heartbeats
         /\ x.receipts = s.receipts /\ x.alerts = s.alerts /\ x.runs = s.runs
         /\ Good(x) /\ Ends(x)
<1> PICK p1 : p1 = RunPart(s)
  OBVIOUS
<1> PICK p2 : p2 = p1 \o TaskPart(s)
  OBVIOUS
<1> PICK p3 : p3 = p2 \o AlertPart(s)
  OBVIOUS
<1> PICK p4 : p4 = p3 \o EventPart(s)
  OBVIOUS
<1> PICK p5 : p5 = p4 \o NumberPart(s)
  OBVIOUS
<1> PICK p6 : p6 = p5 \o BeatPart(s)
  OBVIOUS
<1> PICK p7 : p7 = p6 \o EndPart(s)
  OBVIOUS
<1> PICK p8 : p8 = p7 \o ReceiptPart(s)
  OBVIOUS
<1>1. p1 \in Partly(s, s.runs, {}, {}, {}, {}, {}, {})
  <2>1. <<>> \o RunPart(s) \in Partly(s, s.runs, {}, {}, {}, {}, {}, {})
    BY NothingYet, RunsWritten
  <2> PICK S : S = s.runs
    OBVIOUS
  <2> PICK f : f = [r \in S |-> <<RunCreated(r)>>]
    OBVIOUS
  <2>2. IsFiniteSet(S) /\ f \in [S -> Seq(Line)]
    <3>1. S \subseteq Run
      BY DEF Sound, Good, RestGood
    <3>2. \A r \in S : RunCreated(r) \in Line
      BY <3>1 DEF Line
    <3> QED
      BY <3>1, <3>2, FS_Subset, LogAssumption
  <2>3. FlattenSeq(SetToSeq(Range(f))) \in Seq(Line)
    BY <2>2, ImageFinite, JoinedTyped
  <2>4. RunPart(s) \in Seq(Line)
    BY <2>3 DEF RunPart, Every
  <2> QED
    BY <2>1, <2>4, ConcatEmptySeq
<1>2. p2 \in Partly(s, s.runs, Known(s), {}, {}, {}, {}, {})
  BY <1>1, TasksWritten
<1>3. p3 \in Partly(s, s.runs, Known(s), s.alert_seq, {}, {}, {}, {})
  BY <1>2, AlertsWritten
<1>4. p4 \in Partly(s, s.runs, Known(s), s.alert_seq, {}, {}, {}, {})
  BY <1>3, EventsWritten
<1>5. p5 \in Partly(s, s.runs, Known(s), s.alert_seq, Streams(s), {}, {}, {})
  BY <1>4, NumbersWritten
<1>6. p6 \in Partly(s, s.runs, Known(s), s.alert_seq, Streams(s), Seen(s), {}, {})
  BY <1>5, BeatsWritten
<1>7. p7 \in Partly(s, s.runs, Known(s), s.alert_seq, Streams(s), Seen(s), Known(s), {})
  BY <1>6, EndsWritten
<1>8. p8 \in Partly(s, s.runs, Known(s), s.alert_seq, Streams(s), Seen(s), Known(s), Receipted(s))
  BY <1>7, ReceiptsWritten
<1>9. Checkpoint(s) = p8
  BY CheckpointParts
<1>10. /\ Checkpoint(s) \in Seq(Line)
       /\ Rebuilt(x, s, s.runs, Known(s), s.alert_seq, Streams(s), Seen(s), Known(s), Receipted(s))
  BY <1>8, <1>9 DEF Partly
<1> QED
  BY <1>10, AllRebuilt

\* A behaviour keeps its mode.
LEMMA SameMode == ASSUME Next PROVE mode' = mode
<1>1. ASSUME NEW recs, append_records_unlocked(recs) PROVE mode' = mode
  BY <1>1 DEF append_records_unlocked, Appended, Torn, Written
<1>2. CASE Manage
  BY <1>1, <1>2 DEF Manage, create_run, enqueue, cancel_task_if_active
<1>3. ASSUME NEW t \in Task, NEW w \in Worker, Work(t, w) PROVE mode' = mode
  BY <1>1, <1>3 DEF Work, lease_task_if_enqueued_with_events, claim_next, append_event_if_leased,
     finalize_task_attempt_if_leased
<1>4. ASSUME NEW t \in Task, NEW w \in Worker, Recover(t, w) PROVE mode' = mode
  BY <1>1, <1>4 DEF Recover, append_event_if_lease_unchanged, append_terminal_event_if_lease_unchanged,
     restart_task_if_unchanged, record_failed_attempt_alert_once
<1>5. CASE \E w \in Worker, ts \in L!Timestamp : heartbeat(w, ts)
  BY <1>1, <1>5 DEF heartbeat
<1>6. CASE compact
  BY <1>6 DEF compact
<1> QED
  BY <1>2, <1>3, <1>4, <1>5, <1>6 DEF Next

\* A file that is compacted is one that no append to it was torn.
CompactedWhole == [][compact => "tearing" \notin mode]_logVars

\* The invariant of the file, with what whole appends keep besides.
FileInv == LogInv /\ ("tearing" \notin mode => Ends(state))

\* The state compact() finds is one its checkpoint keeps.
LEMMA InvSound == ASSUME FileInv, "tearing" \notin mode PROVE Sound(state) /\ Whole
<1>1. Typed /\ FileOK
  BY InvTyped DEF FileInv, LogInv
<1>2. Good(state)
  BY <1>1, FileGood DEF FileOK
<1>3. Ends(state)
  BY DEF FileInv
<1>4. ASSUME NEW t \in Task
      PROVE  IF state.tasks[t].leased_to = NoWorker THEN state.tasks[t].status # "Leased"
             ELSE state.tasks[t].attempts >= 1 /\ state.tasks[t].status \notin {"Absent", "Enqueued"}
  <2>1. CASE state.tasks[t].leased_to = NoWorker
    <3>1. state.tasks[t].attempts = 0 /\ (state.tasks[t].status = "Leased" => state.tasks[t].attempts > 0)
      BY <2>1 DEF FileInv, LogInv, P!IInv, P!LeaseShape
    <3> QED
      BY <2>1, <3>1
  <2>2. CASE state.tasks[t].leased_to # NoWorker
    <3>1. state.tasks[t].attempts \in 1 .. MaxLeases /\ state.tasks[t].status \notin {"Absent", "Enqueued"}
      BY <1>1, <2>2 DEF Typed
    <3> QED
      BY <2>2, <3>1, LogAssumption
  <2> QED
    BY <2>1, <2>2
<1> QED
  BY <1>1, <1>2, <1>3, <1>4 DEF Sound, Whole

\* A compaction changes no field the ledger speaks of.
LEMMA CompactSteps ==
  ASSUME FileInv, compact, "tearing" \notin mode
  PROVE  FileOK' /\ HasFields(state)' /\ Ends(state') /\ UNCHANGED L!ledgerVars
<1> PICK s : s = state
  OBVIOUS
<1> PICK x : x = rebuild_state(Checkpoint(s))
  OBVIOUS
<1>1. file' = Checkpoint(s) /\ state' = x
  BY DEF compact
<1>2. Sound(s)
  BY InvSound
<1>3. /\ Checkpoint(s) \in Seq(Line)
      /\ x.tasks = s.tasks /\ x.latest_seq = s.latest_seq /\ x.heartbeats = s.heartbeats
      /\ x.receipts = s.receipts /\ x.alerts = s.alerts /\ x.runs = s.runs
      /\ Good(x) /\ Ends(x)
  BY <1>2, CheckpointReplays
<1> QED
  BY <1>1, <1>3 DEF FileOK, Good, HasFields, L!ledgerVars

\* Every step keeps the invariant, and is one of the ledger's.
LEMMA StepFile ==
  ASSUME FileInv, [Next]_logVars, [compact => "tearing" \notin mode]_logVars
  PROVE  FileInv' /\ [L!Next]_(L!ledgerVars)
<1>1. CASE UNCHANGED logVars
  <2>1. LogInv' /\ [L!Next]_(L!ledgerVars)
    BY <1>1, StepLog DEF FileInv
  <2> QED
    BY <1>1, <2>1 DEF FileInv, logVars
<1>2. CASE Next /\ ~ compact
  <2>1. LogInv' /\ [L!Next]_(L!ledgerVars)
    BY <1>2, StepLog DEF FileInv
  <2>2. "tearing" \notin mode' => Ends(state')
    BY <1>2, SameMode, InvSound, OperationEnds
  <2> QED
    BY <2>1, <2>2 DEF FileInv
<1>3. CASE compact /\ "tearing" \notin mode
  <2>1. FileOK' /\ HasFields(state)' /\ Ends(state') /\ UNCHANGED L!ledgerVars
    BY <1>3, CompactSteps
  <2>2. UNCHANGED P!ledgerVars
    BY <2>1 DEF L!ledgerVars, P!ledgerVars
  <2>3. P!IInv' /\ P!Bounded'
    BY <2>2, SameAssumption, P!StepIInv, P!BoundedStep DEF FileInv, LogInv, P!IInv
  <2> QED
    BY <2>1, <2>3 DEF FileInv, LogInv
<1> QED
  BY <1>1, <1>2, <1>3

\* An empty file has ended nothing.
LEMMA InitFile == ASSUME Init PROVE FileInv /\ L!Init
<1>1. LogInv /\ L!Init
  BY InitLog
<1>2. \A w \in Worker, t \in Task : state.latest_events[w][t] = NoEvent
  BY DEF Init, EmptyState
<1>3. Ends(state)
  BY <1>2 DEF Ends, EndsBut, NoEvent, Terminal, L!Terminal
<1> QED
  BY <1>1, <1>3 DEF FileInv

\* As long as what is compacted was appended whole, every append to the file, every
\* prefix of one that a dying process leaves, and every compaction is a transaction of
\* the ledger on the state that rebuild_state finds, or changes nothing of it.
THEOREM LogImplementsLedger == Spec /\ CompactedWhole => ImplementsLedger
<1>1. Init => FileInv /\ L!Init
  BY InitFile
<1>2. FileInv /\ [Next]_logVars /\ [compact => "tearing" \notin mode]_logVars => FileInv' /\ [L!Next]_(L!ledgerVars)
  BY StepFile
<1> QED
  BY <1>1, <1>2, PTL DEF Spec, ImplementsLedger, L!Spec, CompactedWhole

\* compact() keeps the tasks, numbers, heartbeats, receipts, alerts and runs that
\* rebuild_state found in the file it replaces.
THEOREM CompactionKeepsState == Spec /\ CompactedWhole => CompactionPreservesState
<1>1. Init => FileInv
  BY InitFile
<1>2. FileInv /\ [Next]_logVars /\ [compact => "tearing" \notin mode]_logVars => FileInv'
  BY StepFile
<1>3. ASSUME FileInv, [Next]_logVars, [compact => "tearing" \notin mode]_logVars
      PROVE  [compact => \A f \in {"tasks", "latest_seq", "heartbeats", "receipts", "alerts", "runs"} :
                           state'[f] = state[f]]_logVars
  <2> SUFFICES ASSUME compact, ~ UNCHANGED logVars
               PROVE  \A f \in {"tasks", "latest_seq", "heartbeats", "receipts", "alerts", "runs"} : state'[f] = state[f]
    OBVIOUS
  <2>1. UNCHANGED L!ledgerVars
    BY <1>3, CompactSteps
  <2> QED
    BY <2>1 DEF L!ledgerVars
<1> QED
  BY <1>1, <1>2, <1>3, PTL DEF Spec, CompactionPreservesState, CompactedWhole

================================================================================
