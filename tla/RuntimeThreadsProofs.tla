-------------------------- MODULE RuntimeThreadsProofs --------------------------
(***************************************************************************)
(* Proofs about RuntimeThreads for all threads, calls, turns, engines and  *)
(* faults.                                                                 *)
(*                                                                         *)
(* The argument: a claim and its monitor come and go together (Claimed),   *)
(* and what the files say of a turn is what its monitor has done           *)
(* (Recorded).  That an engine runs no turn beside the claimed one needs   *)
(* more: an engine serves one thread (Separate), takes and runs only the   *)
(* turn whose monitor waits on it (Channels), and is safe, that is gone,   *)
(* told to shut down or empty, whenever a call may still send it a turn    *)
(* (Reached).  A call that reached an engine which was evicted meanwhile   *)
(* holds a safe one; a call that lost the race for the claim finds another *)
(* record than the one it has read.                                        *)
(***************************************************************************)
EXTENDS RuntimeThreads, SequenceTheorems, WellFoundedInduction, FiniteSetTheorems, TLAPS

Pc == {"idle", "load", "publish", "rebuild", "evict", "check", "claim"}
MonitorPc == {"none", "recv", "save", "release", "settle", "evict", "done"}
Handle == Engine \cup {NoEngine}
TurnOrNone == Turn \cup {NoTurn}
ThreadRecord == [latest : TurnOrNone, settings : Nat]
TurnRecord == [status : {"Absent", "InProgress", "Ended"}, thread : Thread \cup {NoThread}]
ActiveRecord == [engine : Handle, turn : TurnOrNone, interrupt : BOOLEAN]
CallRecord == [pc : Pc, thread : Thread \cup {NoThread}, snap : ThreadRecord,
               built : ThreadRecord, handle : Handle, victim : Handle]
EngineRecord == [state : {"none", "idle", "busy", "gone"}, ops : Seq(TurnOrNone),
                 running : TurnOrNone, cancelled : BOOLEAN, events : Seq(TurnOrNone)]
MonitorRecord == [pc : MonitorPc, engine : Handle, of : TurnOrNone]

TypeOK ==
  /\ threads \in [Thread -> ThreadRecord]
  /\ turns \in [Turn -> TurnRecord]
  /\ active \in [Thread -> ActiveRecord]
  /\ lru \in Seq(Thread)
  /\ engine_load \in Call \cup {NoCall}
  /\ call \in [Call -> CallRecord]
  /\ engine \in [Engine -> EngineRecord]
  /\ monitor \in [Turn -> MonitorRecord]
  /\ up \in BOOLEAN /\ faults \in Nat /\ lost \in BOOLEAN

(* Turns.                                                                  *)

\* A turn with a monitor has the claim of its thread and is the latest in the
\* record; a claim belongs to a turn with a monitor.
Claimed ==
  /\ \A t \in Turn : Live(t) =>
       /\ turns[t].status # "Absent" /\ turns[t].thread \in Thread
       /\ active[turns[t].thread].turn = t
       /\ threads[turns[t].thread].latest = t
       /\ monitor[t].engine \in Engine
  /\ \A th \in Thread, t \in Turn :
       active[th].turn = t => Live(t) /\ turns[t].thread = th /\ Loaded(th)
  /\ \A t \in Turn :
       /\ ~ Live(t) => monitor[t].engine = NoEngine
       /\ turns[t].status = "Absent" => monitor[t].pc = "none"

\* What is recorded at each place of the monitor.
Recorded ==
  /\ \A t \in Turn :
       /\ monitor[t].pc = "release" => turns[t].status = "Ended"
       /\ monitor[t].pc = "evict" /\ ~ lost => turns[t].status = "Ended"
       /\ up /\ ~ lost /\ turns[t].status = "InProgress" => Live(t)
  /\ \A th \in Thread, t \in Turn : threads[th].latest = t => turns[t].status # "Absent"

\* While the process is down nothing is in memory.
Down ==
  ~ up =>
    /\ active = [th \in Thread |-> Unloaded] /\ lru = <<>> /\ engine_load = NoCall
    /\ call = [c \in Call |-> IdleCall]
    /\ engine = [e \in Engine |-> Unspawned]
    /\ monitor = [t \in Turn |-> NoMonitor]

\* A call that builds or publishes an engine holds the build lock, and its thread
\* has no engine; what it read of the thread is not newer than the record.
CallHolds(c) ==
  /\ call[c].pc # "idle" => call[c].thread \in Thread
  /\ call[c].pc \in {"publish", "rebuild", "evict"} => engine_load = c
  /\ call[c].pc \in {"publish", "rebuild"} => ~ Loaded(call[c].thread)
  /\ call[c].pc \in {"publish", "evict", "check", "claim"} <=> call[c].handle # NoEngine
  /\ call[c].pc # "idle" =>
       /\ call[c].snap.settings <= threads[call[c].thread].settings
       /\ \A t \in Turn : call[c].snap.latest = t => turns[t].status # "Absent"

Calling == \A c \in Call : CallHolds(c)

Once(s) == \A i, j \in DOMAIN s : s[i] = s[j] => i = j
Lists(s, x) == \E i \in DOMAIN s : s[i] = x

\* The eviction order lists the loaded threads, each once.
Listed == Once(lru) /\ \A th \in Thread : Loaded(th) <=> Lists(lru, th)

(* Engines.                                                                *)

\* The engine e is held, and held for the thread th.
Held(e) ==
  \/ \E th \in Thread : active[th].engine = e
  \/ \E c \in Call : e \in {call[c].handle, call[c].victim}
  \/ \E t \in Turn : monitor[t].engine = e
HeldFor(e, th) ==
  \/ active[th].engine = e
  \/ \E c \in Call : call[c].handle = e /\ call[c].thread = th
  \/ \E t \in Turn : monitor[t].engine = e /\ turns[t].thread = th

\* Nobody holds an engine that does not exist; an engine serves one thread.
Separate ==
  \A e \in Engine :
    /\ engine[e].state = "none" => ~ Held(e)
    /\ \A th, thh \in Thread : HeldFor(e, th) /\ HeldFor(e, thh) => th = thh

\* A turn that is sent to an engine in the state g starts from nothing or never starts.
Shut(g) == \E i \in DOMAIN g.ops : g.ops[i] = Shutdown
Clean(g) == g.state = "idle" /\ g.ops = <<>> /\ g.events = <<>>
Safe(g) == g.state = "gone" \/ Shut(g) \/ Clean(g)

\* What engine e in the state g has to do with the monitors: the turn that it is
\* to take, or runs, is one that a monitor waits for there.
Channel(e, g) ==
  /\ g.state \in {"none", "gone"} => g.ops = <<>>
  /\ g.state # "busy" => ~ g.cancelled
  /\ g.state = "none" => g.events = <<>>
  /\ Len(g.events) <= 1
  /\ g.state = "busy" => g.events = <<>> /\ g.running \in Turn
  /\ g.state = "busy" /\ ~ g.cancelled =>
       monitor[g.running].pc \in {"recv", "settle"} /\ monitor[g.running].engine = e
  /\ g.ops # <<>> /\ g.ops[1] # Shutdown =>
       /\ g.state = "idle" /\ g.events = <<>>
       /\ monitor[g.ops[1]].pc = "recv" /\ monitor[g.ops[1]].engine = e
  /\ Len(g.ops) >= 2 => g.ops[1] = Shutdown \/ g.ops[2] = Shutdown

Channels == \A e \in Engine : Channel(e, engine[e])

\* The turn in progress on thread th runs on e.
RunsOn(th, e) == \E t \in Turn : active[th].turn = t /\ monitor[t].engine = e

\* The engines that a turn may be sent to are safe or run the thread's turn.
CallReached(c) ==
  LET th == call[c].thread  e == call[c].handle IN
  /\ call[c].pc = "publish" => Safe(engine[e])
  /\ call[c].pc \in {"evict", "check", "claim"} /\ threads[th] = call[c].snap =>
       Safe(engine[e]) \/ (RunsOn(th, e) /\ active[th].engine = e)

Reached ==
  /\ \A th \in Thread : Loaded(th) => Safe(engine[active[th].engine]) \/ RunsOn(th, active[th].engine)
  /\ \A c \in Call : CallReached(c)
  /\ \A t \in Turn : monitor[t].pc \in {"save", "release"} => Safe(engine[monitor[t].engine])

IInv ==
  /\ TypeOK /\ Claimed /\ Recorded /\ Down /\ Calling /\ Listed
  /\ Separate /\ Channels /\ Reached

--------------------------------------------------------------------------------
(* Operators: the list, the next turn, the eviction.                      *)

\* A nonempty set of numbers has a least one.
LEMMA Least ==
  ASSUME NEW S \in SUBSET Nat, S # {}
  PROVE  \E m \in S : \A k \in S : m <= k
<1> DEFINE T == {0..k : k \in S}
<1>1. T \subseteq FiniteSubsetsOf(Nat)
  <2>1. ASSUME NEW k \in S PROVE 0..k \in SUBSET Nat /\ IsFiniteSet(0..k)
    BY FS_Interval
  <2> QED
    BY <2>1 DEF FiniteSubsetsOf
<1>2. PICK I \in T : \A J \in T : ~ (<<J, I>> \in StrictSubsetOrdering(Nat))
  <2> T # {}
    OBVIOUS
  <2> HIDE DEF T
  <2> QED
    BY <1>1, FS_StrictSubsetOrderingWellFounded, WFMin
<1>3. PICK m \in S : I = 0..m
  OBVIOUS
<1>4. ASSUME NEW k \in S, k < m PROVE FALSE
  <2>1. 0..k \in T /\ 0..k \subseteq 0..m /\ 0..m \subseteq Nat
    BY <1>4
  <2>2. m \in 0..m /\ m \notin 0..k
    BY <1>4
  <2>3. <<0..k, 0..m>> \in StrictSubsetOrdering(Nat)
    <3> DEFINE A == 0..k  B == 0..m
    <3> A \subseteq B /\ A # B /\ <<A, B>> \in (SUBSET Nat) \X (SUBSET Nat)
      BY <2>1, <2>2
    <3> HIDE DEF A, B
    <3> <<A, B>> \in StrictSubsetOrdering(Nat)
      BY DEF StrictSubsetOrdering
    <3> QED
      BY DEF A, B
  <2> QED
    BY <1>2, <1>3, <2>1, <2>3
<1> QED
  BY <1>4

\* What RemoveAt leaves of a list in which every element occurs once: the other elements, each once.
LEMMA RemovedAt ==
  ASSUME NEW T, NEW s \in Seq(T), NEW k \in DOMAIN s
  PROVE  /\ RemoveAt(s, k) \in Seq(T) /\ Len(RemoveAt(s, k)) = Len(s) - 1
         /\ \A i \in 1..(Len(s) - 1) :
              RemoveAt(s, k)[i] = IF i < k THEN s[i] ELSE s[i + 1]
<1> DEFINE a == SubSeq(s, 1, k - 1)  b == SubSeq(s, k + 1, Len(s))
<1>1. Len(s) \in Nat /\ k \in 1..Len(s)
  OBVIOUS
<1>2. a \in Seq(T) /\ Len(a) = k - 1 /\ \A i \in 1..(k - 1) : a[i] = s[i]
  BY <1>1, SubSeqProperties
<1>3. b \in Seq(T) /\ Len(b) = Len(s) - k /\ \A i \in 1..(Len(s) - k) : b[i] = s[k + i]
  BY <1>1, SubSeqProperties
<1>4. RemoveAt(s, k) = a \o b
  BY DEF RemoveAt
<1> HIDE DEF a, b
<1>5. PICK r : /\ r = a \o b /\ r \in Seq(T) /\ Len(r) = Len(a) + Len(b)
               /\ \A i \in 1..(Len(a) + Len(b)) : r[i] = IF i <= Len(a) THEN a[i] ELSE b[i - Len(a)]
  <2>1. /\ a \o b \in Seq(T) /\ Len(a \o b) = Len(a) + Len(b)
        /\ \A i \in 1..(Len(a) + Len(b)) : (a \o b)[i] = IF i <= Len(a) THEN a[i] ELSE b[i - Len(a)]
    BY <1>2, <1>3, ConcatProperties
  <2> QED
    BY <2>1, Zenon
<1>6. ASSUME NEW i \in 1..(Len(s) - 1) PROVE r[i] = IF i < k THEN s[i] ELSE s[i + 1]
  <2>1. r[i] = IF i <= k - 1 THEN a[i] ELSE b[i - (k - 1)]
    <3>1. i \in 1..(Len(a) + Len(b))
      BY <1>1, <1>2, <1>3
    <3> QED
      BY <1>2, <1>5, <3>1
  <2>2. CASE i < k
    BY <1>1, <1>2, <2>1, <2>2
  <2>3. CASE i >= k
    <3>1. i - (k - 1) \in 1..(Len(s) - k) /\ k + (i - (k - 1)) = i + 1
      BY <1>1, <2>3
    <3>2. b[i - (k - 1)] = s[k + (i - (k - 1))]
      BY <1>3, <3>1
    <3> QED
      BY <1>1, <2>1, <2>3, <3>1, <3>2
  <2> QED
    BY <1>1, <2>2, <2>3
<1>7. RemoveAt(s, k) = r
  BY <1>4, <1>5
<1>8. r \in Seq(T) /\ Len(r) = Len(s) - 1
  BY <1>1, <1>2, <1>3, <1>5
<1> QED
  BY <1>6, <1>7, <1>8, Zenon

\* `retain` of touch_lru and of an unload takes exactly the thread out of the list.
LEMMA WithoutLists ==
  ASSUME NEW T, NEW s \in Seq(T), Once(s), NEW x
  PROVE  /\ Without(s, x) \in Seq(T) /\ Once(Without(s, x))
         /\ \A y : Lists(Without(s, x), y) <=> Lists(s, y) /\ y # x
<1> DEFINE at == {i \in DOMAIN s : s[i] = x}
<1>1. CASE at = {}
  BY <1>1 DEF Without, Once, Lists
<1>2. CASE at # {}
  <2>1. PICK k \in at : TRUE
    BY <1>2
  <2>2. (CHOOSE i \in at : \A j \in at : i <= j) = k
    BY <2>1 DEF Once
  <2> DEFINE u == Without(s, x)
  <2>3. k \in 1..Len(s) /\ Len(s) \in Nat
    BY <2>1
  <2>4. u = RemoveAt(s, k)
    BY <1>2, <2>2 DEF Without
  <2> HIDE DEF u
  <2>5. /\ u \in Seq(T) /\ DOMAIN u = 1..(Len(s) - 1)
        /\ \A i \in DOMAIN u : u[i] = IF i < k THEN s[i] ELSE s[i + 1]
    <3>1. /\ u \in Seq(T) /\ Len(u) = Len(s) - 1
          /\ \A i \in 1..(Len(s) - 1) : u[i] = IF i < k THEN s[i] ELSE s[i + 1]
      BY <2>1, <2>4, RemovedAt
    <3>2. DOMAIN u = 1..(Len(s) - 1)
      BY <3>1
    <3> QED
      BY <3>1, <3>2
  <2>6. ASSUME NEW y PROVE Lists(u, y) <=> Lists(s, y) /\ y # x
    <3>1. ASSUME NEW i \in DOMAIN u, u[i] = y PROVE Lists(s, y) /\ y # x
      BY <2>1, <2>3, <2>5, <3>1 DEF Once, Lists
    <3>2. ASSUME NEW i \in DOMAIN s, s[i] = y, y # x PROVE Lists(u, y)
      <4>1. CASE i < k
        <5>1. i \in DOMAIN u /\ u[i] = y
          BY <2>3, <2>5, <3>2, <4>1
        <5> QED
          BY <5>1 DEF Lists
      <4>2. CASE i > k
        <5>1. i - 1 \in DOMAIN u /\ u[i - 1] = y
          BY <2>3, <2>5, <3>2, <4>2
        <5> QED
          BY <5>1 DEF Lists
      <4> QED
        BY <2>1, <2>3, <3>2, <4>1, <4>2
    <3> QED
      BY <3>1, <3>2 DEF Lists
  <2>7. Once(u)
    BY <2>3, <2>5 DEF Once
  <2> QED
    BY <2>5, <2>6, <2>7 DEF u
<1> QED
  BY <1>1, <1>2

\* touch_lru lists the thread and keeps the others, each once.
LEMMA TouchLists ==
  ASSUME NEW T, NEW s \in Seq(T), Once(s), NEW x \in T
  PROVE  /\ touch_lru(s, x) \in Seq(T) /\ Once(touch_lru(s, x))
         /\ \A y : Lists(touch_lru(s, x), y) <=> Lists(s, y) \/ y = x
<1> DEFINE u == Without(s, x)
<1>1. u \in Seq(T) /\ Once(u) /\ \A y : Lists(u, y) <=> Lists(s, y) /\ y # x
  BY WithoutLists
<1> HIDE DEF u
<1>2. PICK v : /\ v = Append(u, x) /\ v \in Seq(T) /\ Len(v) = Len(u) + 1
               /\ v[Len(v)] = x /\ \A i \in DOMAIN u : v[i] = u[i]
  <2>1. /\ Append(u, x) \in Seq(T) /\ Len(Append(u, x)) = Len(u) + 1
        /\ Append(u, x)[Len(Append(u, x))] = x /\ \A i \in DOMAIN u : Append(u, x)[i] = u[i]
    BY <1>1, AppendProperties
  <2> QED
    BY <2>1, Zenon
<1>3. Once(v)
  BY <1>1, <1>2 DEF Once, Lists
<1>4. ASSUME NEW y PROVE Lists(v, y) <=> Lists(u, y) \/ y = x
  <2>1. DOMAIN v = DOMAIN u \cup {Len(v)}
    BY <1>1, <1>2
  <2> QED
    BY <1>2, <2>1 DEF Lists
<1> QED
  BY <1>1, <1>2, <1>3, <1>4 DEF touch_lru, u

\* The turn that a claim creates is a turn that no file has recorded yet.
LEMMA NextTurnIs ==
  ASSUME Unused # {} PROVE NextTurn \in Turn /\ turns[NextTurn].status = "Absent"
<1>1. Unused \in SUBSET Nat
  BY DEF Unused, Turn
<1>2. \E m \in Unused : \A k \in Unused : m <= k
  BY <1>1, Least
<1>3. NextTurn \in Unused
  BY <1>2 DEF NextTurn
<1> QED
  BY <1>3 DEF Unused

\* enforce_lru_capacity evicts a listed thread that has no claimed turn, or none.
LEMMA EvictIndexIs ==
  ASSUME lru \in Seq(Thread), NEW i, i = enforce_lru_capacity
  PROVE  i \in 0..Len(lru) /\ (i # 0 => i \in DOMAIN lru /\ active[lru[i]].turn = NoTurn)
<1> DEFINE idle == {j \in DOMAIN lru : active[lru[j]].turn = NoTurn}
<1>1. CASE i = 0
  BY <1>1
<1>2. CASE i # 0
  <2>1. i = EvictIndex(lru)
    BY <1>2 DEF enforce_lru_capacity
  <2>2. idle # {} /\ i = CHOOSE j \in idle : \A k \in idle : j <= k
    BY <1>2, <2>1 DEF EvictIndex
  <2>3. idle \in SUBSET Nat
    OBVIOUS
  <2>4. \E j \in idle : \A k \in idle : j <= k
    BY <2>2, <2>3, Least
  <2>5. i \in idle
    BY <2>2, <2>4
  <2> QED
    BY <2>5
<1> QED
  BY <1>1, <1>2

\* The scan of enforce_lru_capacity loses at most the thread it evicts.
LEMMA ScannedLists ==
  ASSUME lru \in Seq(Thread), Once(lru), NEW k \in 0..Len(lru)
  PROVE  /\ Scanned(k) \in Seq(Thread) /\ Once(Scanned(k))
         /\ \A y : Lists(Scanned(k), y) <=> Lists(lru, y) /\ (k # 0 => y # lru[k])
<1>1. CASE k = 0
  BY <1>1 DEF Scanned
<1>2. CASE k # 0
  <2> DEFINE n == Len(lru)  a == SubSeq(lru, k + 1, n)  b == SubSeq(lru, 1, k - 1)
  <2>1. n \in Nat /\ k \in 1..n /\ DOMAIN lru = 1..n /\ \A j \in 1..n : lru[j] \in Thread
    BY <1>2
  <2>2. a \in Seq(Thread) /\ Len(a) = n - k /\ \A j \in 1..(n - k) : a[j] = lru[k + j]
    <3>1. \A j \in (k + 1)..n : lru[j] \in Thread
      BY <2>1
    <3>2. /\ a \in Seq(Thread) /\ Len(a) = IF k + 1 <= n THEN n - (k + 1) + 1 ELSE 0
          /\ \A j \in 1..(n - (k + 1) + 1) : a[j] = lru[(k + 1) + j - 1]
      BY <2>1, <3>1, SubSeqProperties
    <3>3. \A j \in 1..(n - k) : (k + 1) + j - 1 = k + j
      BY <2>1
    <3> HIDE DEF n, a
    <3> QED
      BY <2>1, <3>2, <3>3
  <2>3. b \in Seq(Thread) /\ Len(b) = k - 1 /\ \A j \in 1..(k - 1) : b[j] = lru[j]
    BY <2>1, SubSeqProperties
  <2>4. Scanned(k) = a \o b
    BY <1>2 DEF Scanned
  <2> HIDE DEF n, a, b
  <2>5. PICK r : /\ r = a \o b /\ r \in Seq(Thread) /\ Len(r) = Len(a) + Len(b)
                 /\ \A j \in 1..(Len(a) + Len(b)) : r[j] = IF j <= Len(a) THEN a[j] ELSE b[j - Len(a)]
    <3>1. /\ a \o b \in Seq(Thread) /\ Len(a \o b) = Len(a) + Len(b)
          /\ \A j \in 1..(Len(a) + Len(b)) : (a \o b)[j] = IF j <= Len(a) THEN a[j] ELSE b[j - Len(a)]
      BY <2>2, <2>3, ConcatProperties
    <3> QED
      BY <3>1, Zenon
  <2>6. DOMAIN r = 1..(n - 1)
    BY <2>1, <2>2, <2>3, <2>5
  <2>7. \A j \in 1..(n - 1) : r[j] = IF j <= n - k THEN lru[k + j] ELSE lru[j - (n - k)]
    <3> TAKE j \in 1..(n - 1)
    <3>1. r[j] = IF j <= n - k THEN a[j] ELSE b[j - (n - k)]
      BY <2>1, <2>2, <2>3, <2>5
    <3>2. CASE j <= n - k
      BY <2>1, <2>2, <3>1, <3>2
    <3>3. CASE j > n - k
      <4>1. j - (n - k) \in 1..(k - 1)
        BY <2>1, <3>3
      <4> QED
        BY <2>1, <2>3, <3>1, <3>3, <4>1
    <3> QED
      BY <2>1, <3>2, <3>3
  <2> DEFINE at(j) == IF j <= n - k THEN k + j ELSE j - (n - k)
  <2>m. \A j \in 1..(n - 1) : r[j] = lru[at(j)] /\ at(j) \in 1..n /\ at(j) # k
    BY <2>1, <2>7
  <2>i. \A j, l \in 1..(n - 1) : at(j) = at(l) => j = l
    BY <2>1
  <2> HIDE DEF at
  <2>8. Once(r)
    BY <2>1, <2>6, <2>m, <2>i DEF Once
  <2>9. ASSUME NEW y PROVE Lists(r, y) <=> Lists(lru, y) /\ y # lru[k]
    <3>1. ASSUME NEW j \in DOMAIN r, r[j] = y PROVE Lists(lru, y) /\ y # lru[k]
      BY <2>1, <2>6, <2>m, <3>1 DEF Once, Lists
    <3>2. ASSUME NEW j \in DOMAIN lru, lru[j] = y, y # lru[k] PROVE Lists(r, y)
      <4>1. CASE j > k
        <5>1. j - k \in 1..(n - 1) /\ j - k <= n - k /\ k + (j - k) = j
          BY <2>1, <4>1
        <5> QED
          BY <2>6, <2>7, <3>2, <5>1 DEF Lists
      <4>2. CASE j < k
        <5>1. /\ j + (n - k) \in 1..(n - 1) /\ ~ (j + (n - k) <= n - k)
              /\ (j + (n - k)) - (n - k) = j
          BY <2>1, <4>2
        <5> QED
          BY <2>6, <2>7, <3>2, <5>1 DEF Lists
      <4> QED
        BY <2>1, <3>2, <4>1, <4>2
    <3> QED
      BY <3>1, <3>2 DEF Lists
  <2> QED
    BY <1>2, <2>4, <2>5, <2>8, <2>9
<1> QED
  BY <1>1, <1>2

--------------------------------------------------------------------------------
(* Types.                                                                 *)

\* A send leaves engines engines.
LEMMA SentType ==
  ASSUME NEW eng \in [Engine -> EngineRecord], NEW e, NEW op \in TurnOrNone
  PROVE  Sent(eng, e, op) \in [Engine -> EngineRecord]
<1> Append(eng[e].ops, op) \in Seq(TurnOrNone) \/ e \notin Engine
  BY DEF EngineRecord
<1> QED
  BY DEF Sent, EngineRecord

\* So does a cancellation,
LEMMA CancelType ==
  ASSUME NEW eng \in [Engine -> EngineRecord], NEW e
  PROVE  Cancel(eng, e) \in [Engine -> EngineRecord]
BY DEF Cancel, EngineRecord

\* and a cancellation with a shutdown.
LEMMA StoppedType ==
  ASSUME NEW eng \in [Engine -> EngineRecord], NEW e
  PROVE  Stopped(eng, e) \in [Engine -> EngineRecord]
BY SentType, CancelType DEF Stopped, Shutdown, TurnOrNone, NoTurn

\* The values that stand for nothing are of their types.
LEMMA IdleType == IdleCall \in CallRecord /\ Unspawned \in EngineRecord
                  /\ NoMonitor \in MonitorRecord
                  /\ Unloaded \in ActiveRecord
BY DEF IdleCall, CallRecord, Unspawned, EngineRecord, NoMonitor, Unloaded, Pc, MonitorPc, Handle, TurnOrNone, ThreadRecord, MonitorRecord, ActiveRecord

\* The updates of a call that are not a whole record.
LEMMA PutCall ==
  ASSUME call \in [Call -> CallRecord], NEW c \in Call, NEW p \in Pc, NEW h \in Handle,
         NEW v \in Handle, NEW b \in ThreadRecord
  PROVE  /\ [call EXCEPT ![c].pc = p, ![c].handle = h] \in [Call -> CallRecord]
         /\ [call EXCEPT ![c].pc = p, ![c].victim = v] \in [Call -> CallRecord]
         /\ [call EXCEPT ![c].pc = p, ![c].handle = h, ![c].built = b] \in [Call -> CallRecord]
         /\ [call EXCEPT ![c].pc = p, ![c].victim = v, ![c].built = b] \in [Call -> CallRecord]
BY DEF CallRecord

\* The update of an engine that takes an operation.
LEMMA PutEngine ==
  ASSUME engine \in [Engine -> EngineRecord], NEW e \in Engine, NEW ops \in Seq(TurnOrNone),
         NEW s \in {"none", "idle", "busy", "gone"}
  PROVE  [engine EXCEPT ![e].state = s, ![e].ops = ops] \in [Engine -> EngineRecord]
BY DEF EngineRecord

\* The places of calls and monitors, and the values they are reset to.
LEMMA Places ==
  /\ {"idle", "load", "publish", "rebuild", "evict", "check", "claim"} \subseteq Pc
  /\ {"none", "recv", "save", "release", "settle", "evict", "done"} \subseteq MonitorPc
  /\ NoEngine \in Handle /\ IdleCall.built \in ThreadRecord
BY DEF Pc, MonitorPc, Handle, IdleCall, ThreadRecord, TurnOrNone

\* The end of the process leaves well-typed memory and files.
LEMMA DiesType ==
  ASSUME TypeOK, Dies, threads' = threads, turns' \in [Turn -> TurnRecord]
  PROVE  TypeOK'
<1>1. active' \in [Thread -> ActiveRecord] /\ lru' \in Seq(Thread) /\ engine_load' \in Call \cup {NoCall}
  BY IdleType DEF Dies
<1>2. call' \in [Call -> CallRecord] /\ engine' \in [Engine -> EngineRecord]
  BY IdleType DEF Dies
<1>3. monitor' \in [Turn -> MonitorRecord]
  BY IdleType DEF Dies
<1>4. faults' \in Nat
  BY DEF Dies, Fault, TypeOK
<1>5. up' \in BOOLEAN /\ lost' \in BOOLEAN
  BY Zenon DEF Dies, TypeOK
<1> QED
  BY <1>1, <1>2, <1>3, <1>4, <1>5 DEF TypeOK

\* Types: the steps of a call.
LEMMA CallsType ==
  ASSUME TypeOK, Calling, Listed, NEW c \in Call, CallNext(c) PROVE TypeOK'
<1> USE RuntimeAssumption DEF TypeOK
<1>1. ASSUME NEW th \in Thread, begin(c, th) PROVE TypeOK'
  BY <1>1, IdleType DEF begin, files, memory, CallRecord, Pc
<1>2. CASE engine_hit(c)
  <2>1. call[c].thread \in Thread
    BY <1>2 DEF engine_hit, Calling, CallHolds
  <2>2. lru' \in Seq(Thread)
    BY <1>2, <2>1, TouchLists DEF engine_hit, Listed
  <2>3. call' \in [Call -> CallRecord]
    <3>1. active[call[c].thread].engine \in Handle
      BY <2>1 DEF ActiveRecord
    <3> QED
      BY <1>2, <3>1, PutCall, Places DEF engine_hit
  <2> QED
    BY <1>2, <2>2, <2>3 DEF engine_hit, files
<1>3. CASE engine_stale(c)
  <2>1. engine' \in [Engine -> EngineRecord]
    BY <1>3, StoppedType DEF engine_stale
  <2>2. call' \in [Call -> CallRecord]
    BY <1>3, PutCall, Places DEF engine_stale
  <2> QED
    BY <1>3, <2>1, <2>2 DEF engine_stale, files, memory
<1>4. CASE engine_publish(c)
  <2> DEFINE i == enforce_lru_capacity
  <2>1. call[c].thread \in Thread
    BY <1>4 DEF engine_publish, Calling, CallHolds
  <2>2. i \in 0..Len(lru) /\ (i # 0 => i \in DOMAIN lru /\ lru[i] \in Thread)
    BY EvictIndexIs
  <2>3. lru' \in Seq(Thread)
    BY <1>4, <2>1, <2>2, ScannedLists, TouchLists DEF engine_publish, Listed
  <2> HIDE DEF i
  <2>4. active' \in [Thread -> ActiveRecord]
    <3>1. [Unloaded EXCEPT !.engine = call[c].handle] \in ActiveRecord
      BY IdleType DEF CallRecord, ActiveRecord
    <3> QED
      BY <1>4, <3>1, IdleType DEF engine_publish
  <2>5. call' \in [Call -> CallRecord]
    <3> DEFINE v == IF i = 0 THEN NoEngine ELSE active[lru[i]].engine
    <3>1. v \in Handle
      BY <2>2 DEF Handle, ActiveRecord
    <3>2. call' = [call EXCEPT ![c].pc = IF i = 0 THEN "check" ELSE "evict", ![c].victim = v,
                           ![c].built = IdleCall.built]
      BY <1>4 DEF engine_publish, i
    <3> DEFINE p == IF i = 0 THEN "check" ELSE "evict"
    <3>3. p \in Pc
      BY Places
    <3> HIDE DEF v, p
    <3>4. call' = [call EXCEPT ![c].pc = p, ![c].victim = v, ![c].built = IdleCall.built]
      BY <3>2 DEF p
    <3> QED
      BY <3>1, <3>3, <3>4, PutCall, Places
  <2>6. engine_load' \in Call \cup {NoCall}
    BY <1>4 DEF engine_publish
  <2> QED
    BY <1>4, <2>3, <2>4, <2>5, <2>6 DEF engine_publish, files
<1>5. CASE engine_evict(c)
  <2>1. engine' \in [Engine -> EngineRecord]
    BY <1>5, SentType DEF engine_evict, Shutdown, TurnOrNone, NoTurn
  <2>2. call' \in [Call -> CallRecord]
    BY <1>5, PutCall, Places DEF engine_evict
  <2> QED
    BY <1>5, <2>1, <2>2 DEF engine_evict, files
<1>6. ASSUME NEW e \in Engine, engine_build(c, e) PROVE TypeOK'
  <2>1. call[c].thread \in Thread
    BY <1>6 DEF engine_build, Calling, CallHolds
  <2>2. engine' \in [Engine -> EngineRecord]
    <3>1. [Unspawned EXCEPT !.state = "idle"] \in EngineRecord
      BY IdleType DEF EngineRecord
    <3> QED
      BY <1>6, <3>1 DEF engine_build, Spawned
  <2> QED
    <3>1. call' \in [Call -> CallRecord]
      <4>1. e \in Handle /\ threads[call[c].thread] \in ThreadRecord
        BY <2>1 DEF Handle
      <4> QED
        BY <1>6, <4>1, PutCall, Places DEF engine_build
    <3> QED
      BY <1>6, <2>2, <3>1 DEF engine_build, files
<1>7. CASE reserve_owned(c)
  <2>1. [call EXCEPT ![c].pc = "claim"] \in [Call -> CallRecord]
    BY DEF CallRecord, Pc
  <2>2. [call EXCEPT ![c] = IdleCall] \in [Call -> CallRecord]
    BY IdleType
  <2> QED
    BY <1>7, <2>1, <2>2 DEF reserve_owned, Return, files, memory
<1>8. CASE claim_refused(c)
  BY <1>8, IdleType DEF claim_refused, Return, files, memory
<1>9. CASE claim_turn(c)
  <2>1. call[c].thread \in Thread
    BY <1>9 DEF claim_turn, Calling, CallHolds
  <2>2. lru' \in Seq(Thread)
    BY <1>9, <2>1, TouchLists DEF claim_turn, Listed
  <2>3. NextTurn \in Turn
    BY <1>9, NextTurnIs DEF claim_turn
  <2>4. engine' \in [Engine -> EngineRecord]
    BY <1>9, <2>3, SentType DEF claim_turn, TurnOrNone
  <2>5. threads' \in [Thread -> ThreadRecord]
    BY <1>9, <2>1, <2>3 DEF claim_turn, ThreadRecord, TurnOrNone
  <2>6. turns' \in [Turn -> TurnRecord]
    BY <1>9, <2>1, <2>3 DEF claim_turn, TurnRecord
  <2>7. active' \in [Thread -> ActiveRecord]
    BY <1>9, <2>1, <2>3 DEF claim_turn, ActiveRecord, TurnOrNone
  <2>8. monitor' \in [Turn -> MonitorRecord]
    <3>1. [NoMonitor EXCEPT !.pc = "recv", !.engine = call[c].handle] \in MonitorRecord
      BY IdleType DEF MonitorRecord, MonitorPc, CallRecord
    <3> QED
      BY <1>9, <2>3, <3>1 DEF claim_turn
  <2>9. call' \in [Call -> CallRecord]
    BY <1>9, IdleType DEF claim_turn, Return
  <2> QED
    BY <1>9, <2>2, <2>4, <2>5, <2>6, <2>7, <2>8, <2>9 DEF claim_turn
<1>10. CASE persist_failed(c)
  <2>1. call' \in [Call -> CallRecord]
    BY <1>10, IdleType DEF persist_failed, Return
  <2>2. turns' \in [Turn -> TurnRecord]
    <3>1. [status |-> "InProgress", thread |-> call[c].thread] \in TurnRecord
      BY DEF TurnRecord, CallRecord
    <3> QED
      BY <1>10, <3>1, NextTurnIs DEF persist_failed
  <2>3. faults' \in Nat
    BY <1>10 DEF persist_failed, Fault
  <2>4. lost' \in BOOLEAN /\ up' \in BOOLEAN
    BY <1>10, Zenon DEF persist_failed
  <2> QED
    BY <1>10, <2>1, <2>2, <2>3, <2>4 DEF persist_failed, memory
<1>11. CASE dropped(c)
  BY <1>11, IdleType DEF dropped, Return, files
<1>12. CASE crash_in_claim(c)
  <2>1. turns' \in [Turn -> TurnRecord]
    <3>1. [status |-> "InProgress", thread |-> call[c].thread] \in TurnRecord
      BY DEF TurnRecord, CallRecord
    <3> QED
      BY <1>12, <3>1, NextTurnIs DEF crash_in_claim
  <2> QED
    BY <1>12, <2>1, DiesType DEF crash_in_claim
<1> QED
  BY <1>1, <1>2, <1>3, <1>4, <1>5, <1>6, <1>7, <1>8, <1>9, <1>10, <1>11, <1>12 DEF CallNext

\* Types: the engine task.
LEMMA EnginesType ==
  ASSUME TypeOK, Listed, NEW e \in Engine, EngineNext(e) \/ engine_dies(e) PROVE TypeOK'
<1> USE DEF TypeOK
<1>1. ASSUME engine' \in [Engine -> EngineRecord] PROVE TypeOK'
  BY <1>1 DEF EngineNext, engine_next, engine_finish, engine_dies, Fault, files, memory
<1>2. CASE engine_next(e)
  <2> DEFINE ops == engine[e].ops
  <2>0. ops \in Seq(TurnOrNone)
    BY DEF EngineRecord
  <2>1. [engine EXCEPT ![e].state = "gone", ![e].ops = <<>>] \in [Engine -> EngineRecord]
    <3>1. "gone" \in {"none", "idle", "busy", "gone"} /\ <<>> \in Seq(TurnOrNone)
      OBVIOUS
    <3> QED
      BY <3>1, PutEngine
  <2>2. [engine EXCEPT ![e].state = "gone"] \in [Engine -> EngineRecord]
    BY DEF EngineRecord
  <2>3. ASSUME ops # <<>>, engine' = [engine EXCEPT ![e].state = "busy", ![e].running = Head(ops),
                                    ![e].ops = Tail(@)]
        PROVE  engine' \in [Engine -> EngineRecord]
    <3>1. Head(ops) \in TurnOrNone /\ Tail(ops) \in Seq(TurnOrNone)
      BY <2>0, <2>3
    <3>2. [engine EXCEPT ![e].state = "busy", ![e].running = Head(ops)] \in [Engine -> EngineRecord]
      BY <3>1 DEF EngineRecord
    <3>3. \A f \in [Engine -> EngineRecord], x \in Seq(TurnOrNone) :
            [f EXCEPT ![e].ops = x] \in [Engine -> EngineRecord]
      BY DEF EngineRecord
    <3>4. engine' = [[engine EXCEPT ![e].state = "busy", ![e].running = Head(ops)] EXCEPT ![e].ops = Tail(ops)]
      BY <2>3
    <3> QED
      BY <3>1, <3>2, <3>3, <3>4
  <2> QED
    BY <1>1, <1>2, <2>1, <2>2, <2>3 DEF engine_next
<1>3. CASE engine_finish(e)
  <2> DEFINE g == [Unspawned EXCEPT !.state = "idle", !.ops = engine[e].ops,
                                    !.events = Append(engine[e].events, engine[e].running)]
  <2>1. engine[e].ops \in Seq(TurnOrNone) /\ Append(engine[e].events, engine[e].running) \in Seq(TurnOrNone)
    BY DEF EngineRecord
  <2>2. g \in EngineRecord
    BY <2>1, IdleType DEF EngineRecord
  <2> HIDE DEF g
  <2>3. [engine EXCEPT ![e] = g] \in [Engine -> EngineRecord]
    BY <2>2
  <2> QED
    BY <1>1, <1>3, <2>3 DEF engine_finish, g
<1>4. CASE engine_dies(e)
  <2>1. [Unspawned EXCEPT !.state = "gone"] \in EngineRecord
    BY IdleType DEF EngineRecord
  <2> QED
    BY <1>1, <1>4, <2>1 DEF engine_dies
<1> QED
  BY <1>2, <1>3, <1>4 DEF EngineNext

\* Types: the monitor of a turn, and its failures.
LEMMA MonitorsType ==
  ASSUME TypeOK, Claimed, Listed, NEW t \in Turn, MonitorNext(t) \/ monitor_fails(t) PROVE TypeOK'
<1> USE DEF TypeOK
<1> DEFINE th == turns[t].thread
<1>1. ASSUME Live(t) PROVE th \in Thread /\ monitor[t].engine \in Engine /\ Owns(t)
  BY <1>1 DEF Claimed, Owns
<1>2. \A p \in MonitorPc :
        /\ [monitor EXCEPT ![t].pc = p] \in [Turn -> MonitorRecord]
        /\ \A o \in TurnOrNone :
             [monitor EXCEPT ![t].pc = p, ![t].of = o] \in [Turn -> MonitorRecord]
  BY DEF MonitorRecord
<1>3. [monitor EXCEPT ![t] = [NoMonitor EXCEPT !.pc = "done"]] \in [Turn -> MonitorRecord]
  <2>1. [NoMonitor EXCEPT !.pc = "done"] \in MonitorRecord
    BY IdleType, Places DEF MonitorRecord
  <2> QED
    BY <2>1
<1>4. [turns EXCEPT ![t].status = "Ended"] \in [Turn -> TurnRecord]
  BY DEF TurnRecord
<1>5. CASE on_turn_complete(t)
  <2> DEFINE e == monitor[t].engine
  <2>1. e \in Engine
    BY <1>1, <1>5 DEF on_turn_complete, At, Live
  <2>2. Head(engine[e].events) \in TurnOrNone /\ Tail(engine[e].events) \in Seq(TurnOrNone)
    BY <1>5, <2>1 DEF on_turn_complete, EngineRecord
  <2>3. engine' \in [Engine -> EngineRecord]
    BY <1>5, <2>1, <2>2 DEF on_turn_complete, EngineRecord
  <2>4. monitor' \in [Turn -> MonitorRecord]
    BY <1>2, <1>5, <2>2, Places DEF on_turn_complete
  <2> QED
    BY <1>5, <2>3, <2>4 DEF on_turn_complete, files, memory
<1>6. CASE on_closed(t)
  <2>1. PICK p \in {"save", "settle"} : monitor' = [monitor EXCEPT ![t].pc = p]
    BY <1>6 DEF on_closed, Step
  <2>2. monitor' \in [Turn -> MonitorRecord]
    <3>1. p \in MonitorPc
      BY Places
    <3> QED
      BY <1>2, <2>1, <3>1
  <2> QED
    BY <1>6, <2>2 DEF on_closed, files, memory
<1>7. CASE save_turn(t)
  BY <1>2, <1>4, <1>7, Places DEF save_turn, Step, memory
<1>8. CASE release_claim(t)
  <2>1. th \in Thread
    BY <1>1, <1>8 DEF release_claim, At, Live
  <2>2. lru' \in Seq(Thread)
    BY <1>8, <2>1, TouchLists DEF release_claim, Listed
  <2>3. threads' \in [Thread -> ThreadRecord]
    BY <1>8, <2>1 DEF release_claim, ThreadRecord, TurnOrNone
  <2>4. [active EXCEPT ![th].turn = NoTurn, ![th].interrupt = FALSE] \in [Thread -> ActiveRecord]
    BY <2>1 DEF ActiveRecord, TurnOrNone
  <2> QED
    BY <1>3, <1>8, <2>2, <2>3, <2>4 DEF release_claim, Finish
<1>9. CASE settle(t)
  <2>1. engine' \in [Engine -> EngineRecord]
    BY <1>9, CancelType DEF settle
  <2>2. th \in Thread
    BY <1>1, <1>9 DEF settle, At, Live
  <2>3. [active EXCEPT ![th].interrupt = TRUE] \in [Thread -> ActiveRecord]
    BY <2>2 DEF ActiveRecord
  <2>4. turns' \in [Turn -> TurnRecord]
    BY <1>4, <1>9 DEF settle
  <2>5. lost' \in BOOLEAN
    BY <1>9, Zenon DEF settle
  <2>6. monitor' \in [Turn -> MonitorRecord]
    BY <1>2, <1>9, Places DEF settle, Step
  <2> QED
    BY <1>9, <2>1, <2>3, <2>4, <2>5, <2>6 DEF settle
<1>10. CASE settle_evict(t)
  <2>1. th \in Thread /\ Owns(t)
    BY <1>1, <1>10 DEF settle_evict, At, Live
  <2>2. engine' \in [Engine -> EngineRecord]
    BY <1>10, <2>1, StoppedType DEF settle_evict
  <2>3. lru' \in Seq(Thread)
    BY <1>10, <2>1, WithoutLists DEF settle_evict, Listed
  <2>4. active' \in [Thread -> ActiveRecord]
    BY <1>10, <2>1, IdleType DEF settle_evict
  <2> QED
    BY <1>3, <1>10, <2>2, <2>3, <2>4 DEF settle_evict, files, Finish
<1>11. CASE monitor_fails(t)
  <2>1. monitor' \in [Turn -> MonitorRecord]
    BY <1>2, <1>11, Places DEF monitor_fails, Step
  <2>2. faults' \in Nat
    BY <1>11 DEF monitor_fails, Fault
  <2> QED
    BY <1>11, <2>1, <2>2 DEF monitor_fails, files, memory
<1> QED
  BY <1>5, <1>6, <1>7, <1>8, <1>9, <1>10, <1>11 DEF MonitorNext

\* Types: interrupts, updates, the crash and the recovery.
LEMMA OthersType ==
  ASSUME TypeOK, Claimed, Listed,
         \/ \E th \in Thread : interrupt_turn(th) \/ update_thread(th)
         \/ crash \/ recover_interrupted_state
  PROVE  TypeOK'
<1> USE DEF TypeOK
<1>1. ASSUME NEW th \in Thread, interrupt_turn(th) PROVE TypeOK'
  <2>1. engine' \in [Engine -> EngineRecord]
    BY <1>1, CancelType DEF interrupt_turn
  <2>2. lru' \in Seq(Thread)
    BY <1>1, TouchLists DEF interrupt_turn, Listed
  <2>3. active' \in [Thread -> ActiveRecord]
    BY <1>1 DEF interrupt_turn, ActiveRecord
  <2> QED
    BY <1>1, <2>1, <2>2, <2>3 DEF interrupt_turn, files
<1>2. ASSUME NEW th \in Thread, update_thread(th) PROVE TypeOK'
  <2>1. Shutdown \in TurnOrNone
    BY DEF Shutdown, TurnOrNone, NoTurn
  <2>2. engine' \in [Engine -> EngineRecord]
    BY <1>2, <2>1, SentType DEF update_thread
  <2>3. Without(lru, th) \in Seq(Thread)
    BY WithoutLists DEF Listed
  <2>4. active' \in [Thread -> ActiveRecord]
    BY <1>2, IdleType DEF update_thread
  <2>5. threads' \in [Thread -> ThreadRecord]
    <3>1. threads[th].settings + 1 \in Nat
      BY DEF ThreadRecord
    <3> QED
      BY <1>2, <3>1 DEF update_thread, ThreadRecord
  <2>6. lru' \in Seq(Thread)
    BY <1>2, <2>3 DEF update_thread
  <2>7. faults' \in Nat
    BY <1>2 DEF update_thread, Fault
  <2> QED
    BY <1>2, <2>2, <2>4, <2>5, <2>6, <2>7 DEF update_thread
<1>3. CASE crash
  BY <1>3, DiesType DEF crash, files
<1>4. CASE recover_interrupted_state
  <2>1. turns' \in [Turn -> TurnRecord]
    BY <1>4 DEF recover_interrupted_state, InterruptedTurns, TurnRecord
  <2>2. up' \in BOOLEAN
    BY <1>4, Zenon DEF recover_interrupted_state
  <2> QED
    BY <1>4, <2>1, <2>2 DEF recover_interrupted_state, memory
<1> QED
  BY <1>1, <1>2, <1>3, <1>4

IA == TypeOK /\ Claimed /\ Recorded /\ Down /\ Calling /\ Listed

\* Facts that the steps of a call share.
LEMMA CallFacts ==
  ASSUME IA, NEW c \in Call
  PROVE  /\ call[c].pc # "idle" => call[c].thread \in Thread
         /\ \A d \in Call : d # c /\ engine_load = c => call[d].pc \notin {"publish", "rebuild", "evict"}
BY RuntimeAssumption DEF IA, Calling, CallHolds, TypeOK

\* The claim of a turn and its monitor.
LEMMA ClaimFacts ==
  ASSUME TypeOK, Claimed
  PROVE  /\ \A t \in Turn : Live(t) =>
              turns[t].thread \in Thread /\ Owns(t) /\ monitor[t].engine \in Engine
         /\ \A t \in Turn : turns[t].status = "Absent" =>
              ~ Live(t) /\ \A th \in Thread : active[th].turn # t
BY DEF Claimed, TypeOK, Live, Owns, Turn, NoTurn

\* What a step may do to the turns without touching a claim.
LEMMA ClaimedFrame ==
  ASSUME TypeOK, Claimed,
         \A th \in Thread : /\ active'[th].turn = active[th].turn
                            /\ threads'[th].latest = threads[th].latest
                            /\ active[th].turn # NoTurn => active'[th].engine # NoEngine,
         \A t \in Turn : /\ monitor'[t].engine = monitor[t].engine
                         /\ Live(t)' <=> Live(t)
                         /\ turns'[t].status = "Absent" => turns[t].status = "Absent" /\ monitor'[t] = monitor[t]
                         /\ Live(t) => turns'[t].thread = turns[t].thread
  PROVE  Claimed'
<1>1. ASSUME NEW t \in Turn, Live(t)'
      PROVE  /\ turns'[t].status # "Absent" /\ turns'[t].thread \in Thread
             /\ active'[turns'[t].thread].turn = t
             /\ threads'[turns'[t].thread].latest = t
             /\ monitor'[t].engine \in Engine
  BY <1>1 DEF Claimed
<1>2. ASSUME NEW th \in Thread, NEW t \in Turn, active'[th].turn = t
      PROVE  Live(t)' /\ turns'[t].thread = th /\ Loaded(th)'
  BY <1>2 DEF Claimed, Loaded, Turn, NoTurn
<1>3. ASSUME NEW t \in Turn
      PROVE  /\ ~ Live(t)' => monitor'[t].engine = NoEngine
             /\ turns'[t].status = "Absent" => monitor'[t].pc = "none"
  BY DEF Claimed
<1> QED
  BY <1>1, <1>2, <1>3 DEF Claimed

--------------------------------------------------------------------------------
(* Claims.                                                                *)

\* A crash leaves no claim.
LEMMA ClaimedDies ==
  ASSUME TypeOK, Dies PROVE Claimed'
<1>1. \A t \in Turn : ~ Live(t)' /\ monitor'[t].engine = NoEngine /\ monitor'[t].pc = "none"
  BY DEF Dies, Live, NoMonitor
<1>2. \A th \in Thread, t \in Turn : active'[th].turn # t
  BY DEF Dies, Unloaded, Turn, NoTurn
<1> QED
  BY <1>1, <1>2 DEF Claimed

\* Claims depend on the records, the map and the monitors alone.
LEMMA ClaimedUnchanged ==
  ASSUME Claimed, UNCHANGED <<active, threads, turns, monitor>> PROVE Claimed'
BY DEF Claimed, Live, Loaded

\* Claims: claim_turn makes one with its monitor; publications and evictions touch none.
LEMMA ClaimedCalls ==
  ASSUME IA, NEW c \in Call, CallNext(c) PROVE Claimed'
<1> DEFINE th == call[c].thread
<1> USE DEF IA
<1>1. CASE UNCHANGED <<active, threads, turns, monitor>>
  BY <1>1, ClaimedUnchanged
<1>2. CASE engine_publish(c)
  <2> DEFINE i == enforce_lru_capacity
  <2>1. /\ UNCHANGED <<threads, turns, monitor>>
        /\ call[c].handle # NoEngine
    BY <1>2 DEF engine_publish, files, Calling, CallHolds
  <2>2. i # 0 => lru[i] \in Thread /\ active[lru[i]].turn = NoTurn
    BY EvictIndexIs DEF TypeOK
  <2>3. active' = [x \in Thread |->
       IF x = th THEN [Unloaded EXCEPT !.engine = call[c].handle]
       ELSE IF i > 0 /\ x = lru[i] THEN Unloaded ELSE active[x]]
    BY <1>2 DEF engine_publish
  <2>4. th \in Thread /\ ~ Loaded(th) /\ active[th].turn = NoTurn
    BY <1>2, CallFacts DEF engine_publish, Calling, CallHolds, Claimed, TypeOK, ActiveRecord, TurnOrNone
  <2>5. i \in Nat
    BY EvictIndexIs DEF TypeOK
  <2> HIDE DEF i, th
  <2>6. ASSUME NEW x \in Thread
        PROVE  active'[x].turn = active[x].turn /\ (active[x].turn # NoTurn => active'[x].engine # NoEngine)
    <3>1. CASE x = th
      BY <2>3, <2>4, <3>1 DEF Unloaded
    <3>2. CASE x # th /\ i > 0 /\ x = lru[i]
      BY <2>2, <2>3, <2>5, <3>2 DEF Unloaded
    <3>3. CASE x # th /\ ~ (i > 0 /\ x = lru[i])
      <4>1. active[x].turn # NoTurn => Loaded(x)
        BY DEF Claimed, TypeOK, ActiveRecord, TurnOrNone
      <4> QED
        BY <2>3, <3>3, <4>1 DEF Loaded
    <3> QED
      BY <3>1, <3>2, <3>3
  <2> QED
    BY <2>1, <2>6, ClaimedFrame DEF Live
<1>3. CASE claim_turn(c)
  <2> DEFINE t == NextTurn
  <2>1. t \in Turn /\ turns[t].status = "Absent" /\ ~ Live(t) /\ \A x \in Thread : active[x].turn # t
    BY <1>3, NextTurnIs, ClaimFacts DEF claim_turn
  <2>2. th \in Thread /\ active[th].turn = NoTurn /\ Loaded(th) /\ call[c].handle \in Engine
    BY <1>3, CallFacts DEF claim_turn, claimable, Calling, CallHolds, TypeOK, CallRecord, Handle
  <2>3. /\ active' = [active EXCEPT ![th].turn = t, ![th].interrupt = FALSE]
        /\ turns' = [turns EXCEPT ![t] = [status |-> "InProgress", thread |-> th]]
        /\ threads' = [threads EXCEPT ![th].latest = t]
        /\ monitor' = [monitor EXCEPT ![t] = [NoMonitor EXCEPT !.pc = "recv", !.engine = call[c].handle]]
    BY <1>3 DEF claim_turn
  <2> HIDE DEF t, th
  <2>4. /\ active'[th].turn = t /\ active'[th].engine = active[th].engine
        /\ turns'[t] = [status |-> "InProgress", thread |-> th] /\ threads'[th].latest = t
        /\ monitor'[t].pc = "recv" /\ monitor'[t].engine = call[c].handle
        /\ \A x \in Thread : x # th => active'[x] = active[x] /\ threads'[x] = threads[x]
        /\ \A u \in Turn : u # t => monitor'[u] = monitor[u] /\ turns'[u] = turns[u]
    BY <2>1, <2>2, <2>3 DEF TypeOK, ActiveRecord, NoMonitor, ThreadRecord
  <2>5. ASSUME NEW u \in Turn, Live(u), u # t PROVE turns[u].thread # th
    BY <2>2, <2>5 DEF Claimed, Turn, NoTurn
  <2>6. ASSUME NEW u \in Turn, Live(u)'
        PROVE  /\ turns'[u].status # "Absent" /\ turns'[u].thread \in Thread
               /\ active'[turns'[u].thread].turn = u
               /\ threads'[turns'[u].thread].latest = u
               /\ monitor'[u].engine \in Engine
    <3>1. CASE u = t
      BY <2>2, <2>4, <3>1
    <3>2. CASE u # t
      BY <2>4, <2>5, <2>6, <3>2 DEF Live, Claimed
    <3> QED
      BY <3>1, <3>2
  <2>7. ASSUME NEW x \in Thread, NEW u \in Turn, active'[x].turn = u
        PROVE  Live(u)' /\ turns'[u].thread = x /\ Loaded(x)'
    <3>1. CASE x = th
      BY <2>2, <2>4, <2>7, <3>1 DEF Live, Loaded
    <3>2. CASE x # th
      <4>1. active[x].turn = u /\ u # t
        BY <2>1, <2>4, <2>7, <3>2
      <4> QED
        BY <2>4, <3>2, <4>1 DEF Claimed, Live, Loaded
    <3> QED
      BY <3>1, <3>2
  <2>8. ASSUME NEW u \in Turn
        PROVE  /\ ~ Live(u)' => monitor'[u].engine = NoEngine
               /\ turns'[u].status = "Absent" => monitor'[u].pc = "none"
    <3>1. CASE u = t
      BY <2>4, <3>1 DEF Live
    <3>2. CASE u # t
      BY <2>4, <3>2 DEF Claimed, Live
    <3> QED
      BY <3>1, <3>2
  <2> QED
    BY <2>6, <2>7, <2>8 DEF Claimed
<1>4. CASE persist_failed(c)
  <2>1. NextTurn \in Turn /\ turns[NextTurn].status = "Absent" /\ ~ Live(NextTurn)
    BY <1>4, NextTurnIs, ClaimFacts DEF persist_failed
  <2>2. UNCHANGED <<active, threads, monitor>>
    BY <1>4 DEF persist_failed, memory
  <2>3. \A u \in Turn : turns'[u] = turns[u] \/ (u = NextTurn /\ turns'[u].status = "InProgress")
    BY <1>4 DEF persist_failed, TypeOK
  <2>4. \A x \in Thread : active[x].turn # NoTurn => active'[x].engine # NoEngine
    BY <2>2 DEF Claimed, TypeOK, ActiveRecord, TurnOrNone, Loaded
  <2> QED
    BY <2>1, <2>2, <2>3, <2>4, ClaimedFrame DEF Live
<1>5. CASE crash_in_claim(c)
  BY <1>5, ClaimedDies DEF crash_in_claim
<1>6. QED
  BY <1>1, <1>2, <1>3, <1>4, <1>5 DEF CallNext, begin, engine_hit, engine_stale, engine_evict, engine_build,
     reserve_owned, claim_refused, dropped, files, memory

\* Claims: a monitor that ends gives its own claim back, and only that.
LEMMA ClaimedMonitors ==
  ASSUME IA, NEW t \in Turn, MonitorNext(t) \/ monitor_fails(t) PROVE Claimed'
<1> DEFINE th == turns[t].thread
<1> USE DEF IA
<1>0. \A x \in Thread : active[x].turn # NoTurn => active[x].engine # NoEngine
  BY DEF Claimed, TypeOK, ActiveRecord, TurnOrNone, Loaded
<1>1. ASSUME Live(t) PROVE th \in Thread /\ active[th].turn = t /\ threads[th].latest = t /\ Owns(t)
  BY <1>1 DEF Claimed, Owns
<1>2. CASE on_turn_complete(t) \/ on_closed(t) \/ save_turn(t) \/ monitor_fails(t)
  <2>1. UNCHANGED <<active, threads>>
    BY <1>2 DEF on_turn_complete, on_closed, save_turn, monitor_fails, files, memory
  <2>2. \A u \in Turn : /\ monitor'[u].engine = monitor[u].engine /\ (Live(u)' <=> Live(u))
                        /\ u # t => monitor'[u] = monitor[u]
    BY <1>2 DEF on_turn_complete, on_closed, save_turn, monitor_fails, Live, At, Step, TypeOK, MonitorRecord
  <2>3. \A u \in Turn : /\ u # t => turns'[u] = turns[u]
                        /\ turns'[u].thread = turns[u].thread
                        /\ turns'[t].status \in {turns[t].status, "Ended"}
    BY <1>2 DEF on_turn_complete, on_closed, save_turn, monitor_fails, TypeOK, TurnRecord, files
  <2>4. Live(t) /\ turns[t].status # "Absent"
    BY <1>2 DEF on_turn_complete, on_closed, save_turn, monitor_fails, Live, At, Claimed
  <2> QED
    BY <1>0, <2>1, <2>2, <2>3, <2>4, ClaimedFrame
<1>3. CASE settle(t)
  <2>1. Live(t) /\ turns[t].status # "Absent"
    BY <1>3 DEF settle, Live, At, Claimed
  <2>2. \A u \in Turn : /\ monitor'[u].engine = monitor[u].engine /\ (Live(u)' <=> Live(u))
                        /\ u # t => monitor'[u] = monitor[u]
    BY <1>3 DEF settle, Live, At, Step, TypeOK, MonitorRecord
  <2>3. \A u \in Turn : /\ u # t => turns'[u] = turns[u]
                        /\ turns'[u].thread = turns[u].thread
                        /\ turns'[t].status \in {turns[t].status, "Ended"}
    BY <1>3 DEF settle, TypeOK, TurnRecord
  <2>4. active' = [active EXCEPT ![th].interrupt = TRUE] /\ UNCHANGED threads
    BY <1>1, <1>3, <2>1 DEF settle
  <2>5. \A x \in Thread : active'[x].turn = active[x].turn /\ active'[x].engine = active[x].engine
    BY <2>4 DEF TypeOK, ActiveRecord
  <2> QED
    BY <1>0, <2>1, <2>2, <2>3, <2>4, <2>5, ClaimedFrame
<1>4. ASSUME At(t, "release") \/ At(t, "evict"),
             UNCHANGED turns, Finish(t),
             active'[th].turn = NoTurn,
             \A x \in Thread : /\ threads'[x].latest = threads[x].latest
                               /\ x # th => active'[x] = active[x]
      PROVE  Claimed'
  <2>1. th \in Thread /\ active[th].turn = t
    BY <1>1, <1>4 DEF Live, At
  <2>2. monitor'[t].pc = "done" /\ monitor'[t].engine = NoEngine /\ \A u \in Turn : u # t => monitor'[u] = monitor[u]
    BY <1>4 DEF Finish, NoMonitor, TypeOK
  <2>3. ASSUME NEW u \in Turn, Live(u)'
        PROVE  /\ turns'[u].status # "Absent" /\ turns'[u].thread \in Thread
               /\ active'[turns'[u].thread].turn = u
               /\ threads'[turns'[u].thread].latest = u
               /\ monitor'[u].engine \in Engine
    <3>1. u # t /\ Live(u)
      BY <2>2, <2>3 DEF Live
    <3>2. turns[u].thread # th
      BY <2>1, <3>1 DEF Claimed
    <3> QED
      BY <1>4, <2>2, <3>1, <3>2 DEF Claimed
  <2>4. ASSUME NEW x \in Thread, NEW u \in Turn, active'[x].turn = u
        PROVE  Live(u)' /\ turns'[u].thread = x /\ Loaded(x)'
    <3>1. x # th /\ active[x].turn = u
      BY <1>4, <2>4 DEF Turn, NoTurn
    <3>2. Live(u) /\ turns[u].thread = x /\ Loaded(x) /\ u # t
      BY <3>1 DEF Claimed
    <3> QED
      BY <1>4, <2>2, <3>1, <3>2 DEF Live, Loaded
  <2>5. ASSUME NEW u \in Turn
        PROVE  /\ ~ Live(u)' => monitor'[u].engine = NoEngine
               /\ turns'[u].status = "Absent" => monitor'[u].pc = "none"
    <3>1. turns[t].status # "Absent"
      BY <1>4 DEF Claimed, At
    <3> QED
      BY <1>4, <2>2, <3>1 DEF Claimed, Live
  <2> QED
    BY <2>3, <2>4, <2>5 DEF Claimed
<1>5. CASE release_claim(t)
  <2>1. th \in Thread /\ Owns(t) /\ threads[th].latest = t
    BY <1>1, <1>5 DEF release_claim, Live, At
  <2>2. /\ active' = [active EXCEPT ![th].turn = NoTurn, ![th].interrupt = FALSE]
        /\ threads' = [threads EXCEPT ![th].latest = t] /\ UNCHANGED turns
        /\ At(t, "release") /\ Finish(t)
    BY <1>5, <2>1 DEF release_claim
  <2>3. /\ active'[th].turn = NoTurn
        /\ \A x \in Thread : /\ threads'[x].latest = threads[x].latest
                             /\ x # th => active'[x] = active[x]
    BY <2>1, <2>2 DEF TypeOK, ActiveRecord, ThreadRecord
  <2> QED
    BY <1>4, <2>2, <2>3
<1>6. CASE settle_evict(t)
  <2>1. th \in Thread /\ Owns(t)
    BY <1>1, <1>6 DEF settle_evict, Live, At
  <2>2. /\ active' = [active EXCEPT ![th] = Unloaded] /\ UNCHANGED <<threads, turns>>
        /\ At(t, "evict") /\ Finish(t)
    BY <1>6, <2>1 DEF settle_evict, files
  <2>3. active'[th].turn = NoTurn /\ \A x \in Thread : x # th => active'[x] = active[x]
    BY <2>1, <2>2 DEF TypeOK, Unloaded
  <2> QED
    BY <1>4, <2>2, <2>3
<1> QED
  BY <1>2, <1>3, <1>5, <1>6 DEF MonitorNext

\* Claims: engines, interrupts and updates leave them alone; a crash ends them all.
LEMMA ClaimedOthers ==
  ASSUME IA,
         \/ \E e \in Engine : EngineNext(e) \/ engine_dies(e)
         \/ \E th \in Thread : interrupt_turn(th) \/ update_thread(th)
         \/ crash \/ recover_interrupted_state
  PROVE  Claimed'
<1> USE DEF IA
<1>0. \A x \in Thread : active[x].turn # NoTurn => active[x].engine # NoEngine
  BY DEF Claimed, TypeOK, ActiveRecord, TurnOrNone, Loaded
<1>1. ASSUME NEW e \in Engine, EngineNext(e) \/ engine_dies(e) PROVE Claimed'
  BY <1>1, ClaimedUnchanged DEF EngineNext, engine_next, engine_finish, engine_dies, files, memory
<1>2. ASSUME NEW th \in Thread, interrupt_turn(th) PROVE Claimed'
  <2>1. \A x \in Thread : active'[x].turn = active[x].turn /\ active'[x].engine = active[x].engine
    BY <1>2 DEF interrupt_turn, TypeOK, ActiveRecord
  <2>2. UNCHANGED <<threads, turns, monitor>>
    BY <1>2 DEF interrupt_turn, files
  <2> QED
    BY <1>0, <2>1, <2>2, ClaimedFrame DEF Live
<1>3. ASSUME NEW th \in Thread, update_thread(th) PROVE Claimed'
  <2>1. \A x \in Thread : /\ active'[x].turn = active[x].turn
                          /\ active[x].turn # NoTurn => active'[x].engine # NoEngine
    BY <1>0, <1>3 DEF update_thread, TypeOK, ActiveRecord, Unloaded
  <2>2. \A x \in Thread : threads'[x].latest = threads[x].latest
    BY <1>3 DEF update_thread, TypeOK, ThreadRecord
  <2>3. UNCHANGED <<turns, monitor>>
    BY <1>3 DEF update_thread
  <2> QED
    BY <2>1, <2>2, <2>3, ClaimedFrame DEF Live
<1>4. CASE crash
  BY <1>4, ClaimedDies DEF crash
<1>5. CASE recover_interrupted_state
  <2>1. UNCHANGED <<active, threads, monitor>>
    BY <1>5 DEF recover_interrupted_state, memory
  <2>2. \A u \in Turn : /\ turns'[u].thread = turns[u].thread
                        /\ turns'[u].status = "Absent" => turns[u].status = "Absent"
    BY <1>5 DEF recover_interrupted_state, InterruptedTurns, TypeOK, TurnRecord
  <2> QED
    BY <1>0, <2>1, <2>2, ClaimedFrame DEF Live
<1> QED
  BY <1>1, <1>2, <1>3, <1>4, <1>5

--------------------------------------------------------------------------------
(* Calls.                                                                 *)

\* The calls stay where they are when the build lock does, and no thread is loaded.
LEMMA CallingFrame ==
  ASSUME TypeOK, Calling, UNCHANGED <<call, engine_load>>,
         \A x \in Thread : /\ threads[x].settings <= threads'[x].settings
                           /\ ~ Loaded(x) => ~ Loaded(x)',
         \A t \in Turn : turns'[t].status = "Absent" => turns[t].status = "Absent",
         \A x \in Thread : threads'[x].settings \in Nat
  PROVE  Calling'
<1>1. ASSUME NEW c \in Call PROVE CallHolds(c)'
  <2>1. CASE call[c].pc = "idle"
    BY <2>1 DEF Calling, CallHolds
  <2>2. CASE call[c].pc # "idle"
    <3>1. /\ call[c].thread \in Thread /\ threads[call[c].thread].settings \in Nat
          /\ call[c].snap.settings \in Nat
      BY <2>2 DEF Calling, CallHolds, TypeOK, ThreadRecord, CallRecord
    <3> QED
      BY <2>2, <3>1 DEF Calling, CallHolds
  <2> QED
    BY <2>1, <2>2
<1> QED
  BY <1>1 DEF Calling

\* A step of one call keeps what holds of the others: none of them is about to
\* publish when the step takes the build lock or holds it.
LEMMA CallingStep ==
  ASSUME TypeOK, Calling, NEW c \in Call, CallHolds(c)',
         \A d \in Call : d # c => call'[d] = call[d],
         \A x \in Thread : threads'[x].settings = threads[x].settings,
         \A t \in Turn : turns'[t].status = "Absent" => turns[t].status = "Absent",
         \/ engine_load = c \/ engine_load = NoCall
         \/ engine_load' = engine_load /\ \A x \in Thread : ~ Loaded(x) => ~ Loaded(x)'
  PROVE  Calling'
<1>1. ASSUME NEW d \in Call, d # c PROVE CallHolds(d)'
  <2>1. CallHolds(d) /\ call'[d] = call[d]
    BY <1>1 DEF Calling
  <2>2. call[d].pc \in {"publish", "rebuild", "evict"} => engine_load = d
    BY <2>1 DEF CallHolds
  <2>3. CASE engine_load = c \/ engine_load = NoCall
    BY <1>1, <2>1, <2>2, <2>3, RuntimeAssumption DEF CallHolds
  <2>4. CASE engine_load' = engine_load /\ \A x \in Thread : ~ Loaded(x) => ~ Loaded(x)'
    BY <2>1, <2>4 DEF CallHolds
  <2> QED
    BY <2>3, <2>4
<1> QED
  BY <1>1 DEF Calling

\* Calls: ensure_engine_loaded keeps the build lock over its awaits, dropped or not.
LEMMA CallingCalls ==
  ASSUME IA, NEW c \in Call, CallNext(c) PROVE Calling'
<1> USE DEF IA
<1> DEFINE th == call[c].thread
<1>0. CallHolds(c)
  BY DEF Calling
<1>1. ASSUME call' = [call EXCEPT ![c] = IdleCall],
             \A x \in Thread : threads'[x].settings = threads[x].settings,
             \A t \in Turn : turns'[t].status = "Absent" => turns[t].status = "Absent",
             \/ engine_load = c
             \/ engine_load' = engine_load /\ \A x \in Thread : ~ Loaded(x) => ~ Loaded(x)'
      PROVE  Calling'
  <2>1. CallHolds(c)'
    BY <1>1 DEF CallHolds, IdleCall, TypeOK
  <2>2. \A d \in Call : d # c => call'[d] = call[d]
    BY <1>1 DEF TypeOK
  <2> QED
    BY <1>1, <2>1, <2>2, CallingStep
<1>2. ASSUME \A d \in Call : d # c => call'[d] = call[d],
             call'[c].thread = th, call'[c].snap = call[c].snap, call[c].pc # "idle",
             UNCHANGED <<threads, turns>>,
             \/ engine_load = c \/ engine_load = NoCall
             \/ engine_load' = engine_load /\ \A x \in Thread : ~ Loaded(x) => ~ Loaded(x)',
             call'[c].pc \in {"publish", "rebuild", "evict"} => engine_load' = c,
             call'[c].pc \in {"publish", "rebuild"} => ~ Loaded(th)',
             call'[c].pc \in {"publish", "evict", "check", "claim"} <=> call'[c].handle # NoEngine
      PROVE  Calling'
  <2>1. CallHolds(c)'
    BY <1>0, <1>2 DEF CallHolds
  <2> QED
    BY <1>2, <2>1, CallingStep
<1>3. ASSUME NEW x \in Thread, begin(c, x) PROVE Calling'
  <2>1. /\ call'[c] = [IdleCall EXCEPT !.pc = "load", !.thread = x, !.snap = threads[x]]
        /\ \A d \in Call : d # c => call'[d] = call[d]
        /\ UNCHANGED <<threads, turns, active, engine_load>>
    BY <1>3 DEF begin, files, memory, TypeOK
  <2>2. CallHolds(c)'
    BY <2>1 DEF CallHolds, IdleCall, Recorded, TypeOK, ThreadRecord
  <2> QED
    BY <2>1, <2>2, CallingStep DEF Loaded
<1>4. CASE engine_hit(c)
  <2>1. /\ call'[c] = [call[c] EXCEPT !.pc = "check", !.handle = active[th].engine]
        /\ \A d \in Call : d # c => call'[d] = call[d]
        /\ UNCHANGED <<threads, turns, active, engine_load>>
        /\ Loaded(th) /\ call[c].pc = "load"
    BY <1>4 DEF engine_hit, files, TypeOK
  <2>2. call'[c].pc = "check" /\ call'[c].handle # NoEngine /\ call'[c].thread = th /\ call'[c].snap = call[c].snap
    BY <2>1 DEF TypeOK, CallRecord, Loaded
  <2> QED
    BY <1>2, <2>1, <2>2 DEF Loaded
<1>5. CASE engine_stale(c)
  <2>1. /\ call'[c] = [call[c] EXCEPT !.pc = "rebuild", !.handle = NoEngine, !.built = IdleCall.built]
        /\ \A d \in Call : d # c => call'[d] = call[d]
        /\ UNCHANGED <<threads, turns, active, engine_load>> /\ call[c].pc = "publish"
    BY <1>5 DEF engine_stale, files, memory, TypeOK
  <2>2. call'[c].pc = "rebuild" /\ call'[c].handle = NoEngine /\ call'[c].thread = th /\ call'[c].snap = call[c].snap
    BY <2>1 DEF TypeOK, CallRecord
  <2> QED
    BY <1>0, <1>2, <2>1, <2>2 DEF CallHolds, Loaded
<1>6. CASE engine_publish(c)
  <2> DEFINE i == enforce_lru_capacity
             v == IF i = 0 THEN NoEngine ELSE active[lru[i]].engine
  <2>1. /\ call'[c] = [call[c] EXCEPT !.pc = IF i = 0 THEN "check" ELSE "evict", !.victim = v, !.built = IdleCall.built]
        /\ \A d \in Call : d # c => call'[d] = call[d]
        /\ engine_load' = IF i = 0 THEN NoCall ELSE c
        /\ UNCHANGED <<threads, turns>> /\ call[c].pc = "publish"
    BY <1>6 DEF engine_publish, files, TypeOK
  <2> HIDE DEF i, v
  <2>2. /\ call'[c].pc = (IF i = 0 THEN "check" ELSE "evict") /\ call'[c].thread = th /\ call'[c].snap = call[c].snap
        /\ call'[c].handle = call[c].handle
    BY <2>1 DEF TypeOK, CallRecord
  <2>3. engine_load = c /\ call[c].handle # NoEngine
    BY <1>0, <2>1 DEF CallHolds
  <2> QED
    BY <1>2, <2>1, <2>2, <2>3
<1>7. CASE engine_evict(c)
  <2>1. /\ call'[c] = [call[c] EXCEPT !.pc = "check", !.victim = NoEngine]
        /\ \A d \in Call : d # c => call'[d] = call[d]
        /\ UNCHANGED <<threads, turns>> /\ call[c].pc = "evict"
    BY <1>7 DEF engine_evict, files, TypeOK
  <2>2. call'[c].pc = "check" /\ call'[c].handle = call[c].handle /\ call'[c].thread = th /\ call'[c].snap = call[c].snap
    BY <2>1 DEF TypeOK, CallRecord
  <2> QED
    BY <1>0, <1>2, <2>1, <2>2 DEF CallHolds
<1>8. ASSUME NEW e \in Engine, engine_build(c, e) PROVE Calling'
  <2>1. /\ call'[c] = [call[c] EXCEPT !.pc = "publish", !.handle = e, !.built = threads[th]]
        /\ \A d \in Call : d # c => call'[d] = call[d]
        /\ UNCHANGED <<threads, turns, active>> /\ engine_load' = c
        /\ \/ call[c].pc = "load" /\ engine_load = NoCall /\ ~ Loaded(th)
           \/ call[c].pc = "rebuild"
    BY <1>8 DEF engine_build, files, TypeOK
  <2>2. call'[c].pc = "publish" /\ call'[c].handle = e /\ call'[c].thread = th /\ call'[c].snap = call[c].snap
    BY <2>1 DEF TypeOK, CallRecord
  <2>3. e # NoEngine
    BY DEF Engine, NoEngine
  <2> QED
    BY <1>0, <1>2, <2>1, <2>2, <2>3 DEF CallHolds, Loaded
<1>9. CASE reserve_owned(c)
  <2>1. CASE Return(c)
    BY <1>1, <1>9, <2>1 DEF reserve_owned, Return, files, memory, Loaded
  <2>2. CASE call' = [call EXCEPT ![c].pc = "claim"]
    <3>1. /\ call'[c] = [call[c] EXCEPT !.pc = "claim"]
          /\ \A d \in Call : d # c => call'[d] = call[d]
          /\ UNCHANGED <<threads, turns, active, engine_load>> /\ call[c].pc = "check"
      BY <1>9, <2>2 DEF reserve_owned, files, memory, TypeOK
    <3>2. call'[c].pc = "claim" /\ call'[c].handle = call[c].handle /\ call'[c].thread = th /\ call'[c].snap = call[c].snap
      BY <3>1 DEF TypeOK, CallRecord
    <3> QED
      BY <1>0, <1>2, <3>1, <3>2 DEF CallHolds, Loaded
  <2> QED
    BY <1>9, <2>1, <2>2 DEF reserve_owned
<1>10. CASE claim_refused(c)
  BY <1>1, <1>10 DEF claim_refused, Return, files, memory, Loaded
<1>11. CASE claim_turn(c)
  <2>1. th \in Thread /\ NextTurn \in Turn
    BY <1>11, CallFacts, NextTurnIs DEF claim_turn
  <2>2. \A x \in Thread : threads'[x].settings = threads[x].settings /\ (~ Loaded(x) => ~ Loaded(x)')
    BY <1>11, <2>1 DEF claim_turn, Loaded, TypeOK, ThreadRecord, ActiveRecord
  <2>3. \A t \in Turn : turns'[t].status = "Absent" => turns[t].status = "Absent"
    BY <1>11, <2>1 DEF claim_turn, TypeOK, TurnRecord
  <2> QED
    BY <1>1, <1>11, <2>2, <2>3 DEF claim_turn, Return
<1>12. CASE persist_failed(c)
  <2>1. \A t \in Turn : turns'[t].status = "Absent" => turns[t].status = "Absent"
    BY <1>12 DEF persist_failed, TypeOK, TurnRecord
  <2> QED
    BY <1>1, <1>12, <2>1 DEF persist_failed, Return, memory, Loaded
<1>13. CASE dropped(c)
  BY <1>1, <1>13 DEF dropped, Return, files, Loaded
<1>14. CASE crash_in_claim(c)
  <2>1. \A d \in Call : call'[d] = IdleCall
    BY <1>14 DEF crash_in_claim, Dies
  <2> QED
    BY <2>1 DEF Calling, CallHolds, IdleCall
<1> QED
  BY <1>3, <1>4, <1>5, <1>6, <1>7, <1>8, <1>9, <1>10, <1>11, <1>12, <1>13, <1>14 DEF CallNext

\* Calls: the other steps do not load a thread, and records only grow.
LEMMA CallingOthers ==
  ASSUME IA,
         \/ \E e \in Engine : EngineNext(e) \/ engine_dies(e)
         \/ \E t \in Turn : MonitorNext(t) \/ monitor_fails(t)
         \/ \E th \in Thread : interrupt_turn(th) \/ update_thread(th)
         \/ crash \/ recover_interrupted_state
  PROVE  Calling'
<1> USE DEF IA
<1>0. \A x \in Thread : threads[x].settings \in Nat
  BY DEF TypeOK, ThreadRecord
<1>1. ASSUME UNCHANGED <<call, engine_load>>,
             \A x \in Thread : threads'[x].settings \in {threads[x].settings, threads[x].settings + 1},
             \A x \in Thread : ~ Loaded(x) => ~ Loaded(x)',
             \A t \in Turn : turns'[t].status = "Absent" => turns[t].status = "Absent"
      PROVE  Calling'
  BY <1>0, <1>1, CallingFrame
<1>2. ASSUME NEW e \in Engine, EngineNext(e) \/ engine_dies(e) PROVE Calling'
  BY <1>1, <1>2 DEF EngineNext, engine_next, engine_finish, engine_dies, files, memory, Loaded
<1>3. ASSUME NEW t \in Turn, MonitorNext(t) \/ monitor_fails(t) PROVE Calling'
  <2>1. UNCHANGED <<call, engine_load>>
    BY <1>3 DEF MonitorNext, on_turn_complete, on_closed, save_turn, release_claim, settle, settle_evict,
                monitor_fails, memory
  <2>2. \A x \in Thread : threads'[x].settings = threads[x].settings
    <3>1. CASE release_claim(t)
      BY <3>1 DEF release_claim, TypeOK, ThreadRecord
    <3>2. CASE ~ release_claim(t)
      BY <1>3, <3>2 DEF MonitorNext, on_turn_complete, on_closed, save_turn, settle, settle_evict,
                monitor_fails, files
    <3> QED
      BY <3>1, <3>2
  <2>3. \A x \in Thread : ~ Loaded(x) => ~ Loaded(x)'
    <3>1. CASE release_claim(t)
      BY <3>1 DEF release_claim, Loaded, TypeOK, ActiveRecord
    <3>2. CASE settle(t)
      BY <3>2 DEF settle, Loaded, TypeOK, ActiveRecord
    <3>3. CASE settle_evict(t)
      BY <3>3 DEF settle_evict, Loaded, TypeOK, Unloaded
    <3>4. CASE ~ (release_claim(t) \/ settle(t) \/ settle_evict(t))
      BY <1>3, <3>4 DEF MonitorNext, on_turn_complete, on_closed, save_turn, monitor_fails, memory, Loaded
    <3> QED
      BY <3>1, <3>2, <3>3, <3>4
  <2>4. \A u \in Turn : turns'[u].status = "Absent" => turns[u].status = "Absent"
    BY <1>3 DEF MonitorNext, on_turn_complete, on_closed, save_turn, release_claim, settle, settle_evict,
                monitor_fails, files, TypeOK, TurnRecord
  <2> QED
    BY <1>1, <2>1, <2>2, <2>3, <2>4
<1>4. ASSUME NEW th \in Thread, interrupt_turn(th) PROVE Calling'
  <2>1. \A x \in Thread : ~ Loaded(x) => ~ Loaded(x)'
    BY <1>4 DEF interrupt_turn, Loaded, TypeOK, ActiveRecord
  <2> QED
    BY <1>1, <1>4, <2>1 DEF interrupt_turn, files
<1>5. ASSUME NEW th \in Thread, update_thread(th) PROVE Calling'
  <2>1. \A x \in Thread : ~ Loaded(x) => ~ Loaded(x)'
    BY <1>5 DEF update_thread, Loaded, TypeOK, Unloaded
  <2>2. \A x \in Thread : threads'[x].settings \in {threads[x].settings, threads[x].settings + 1}
    BY <1>5 DEF update_thread, TypeOK, ThreadRecord
  <2> QED
    BY <1>1, <1>5, <2>1, <2>2 DEF update_thread
<1>6. CASE crash
  <2>1. \A d \in Call : call'[d] = IdleCall
    BY <1>6 DEF crash, Dies
  <2> QED
    BY <2>1 DEF Calling, CallHolds, IdleCall
<1>7. CASE recover_interrupted_state
  <2>1. \A u \in Turn : turns'[u].status = "Absent" => turns[u].status = "Absent"
    BY <1>7 DEF recover_interrupted_state, InterruptedTurns, TypeOK, TurnRecord
  <2> QED
    BY <1>1, <1>7, <2>1 DEF recover_interrupted_state, memory, Loaded
<1> QED
  BY <1>2, <1>3, <1>4, <1>5, <1>6, <1>7

--------------------------------------------------------------------------------
(* Records, the process, the list.                                        *)

\* The records stay right while no monitor comes to a place that asserts something of them.
LEMMA RecordedFrame ==
  ASSUME TypeOK, Claimed, Recorded,
         \A t \in Turn : /\ monitor'[t] = monitor[t] \/ monitor'[t].pc \notin {"release", "evict"}
                         /\ Live(t) => Live(t)'
                         /\ \/ turns'[t] = turns[t]
                            \/ turns[t].status # "Ended" /\ (turns'[t].status = "Ended" \/ lost'),
         \A t \in Turn : turns'[t].status = "Absent" => turns[t].status = "Absent",
         lost => lost', up' => up,
         \A x \in Thread : threads'[x].latest = threads[x].latest
  PROVE  Recorded'
<1>1. ASSUME NEW t \in Turn
      PROVE  /\ monitor'[t].pc = "release" => turns'[t].status = "Ended"
             /\ monitor'[t].pc = "evict" /\ ~ lost' => turns'[t].status = "Ended"
             /\ up' /\ ~ lost' /\ turns'[t].status = "InProgress" => Live(t)'
  BY DEF Recorded
<1>2. ASSUME NEW x \in Thread, NEW t \in Turn, threads'[x].latest = t PROVE turns'[t].status # "Absent"
  BY <1>2 DEF Recorded
<1> QED
  BY <1>1, <1>2 DEF Recorded

\* They depend on the files, the monitors and the process alone.
LEMMA RecordedUnchanged ==
  ASSUME Recorded, UNCHANGED <<threads, turns, monitor, up, lost>> PROVE Recorded'
BY DEF Recorded, Live

\* The end of the process keeps what is recorded; the rest is not claimed while it is down.
LEMMA RecordedDies ==
  ASSUME Recorded, Dies, UNCHANGED threads,
         \A t \in Turn : turns'[t].status = "Absent" => turns[t].status = "Absent"
  PROVE  Recorded'
<1>1. \A t \in Turn : monitor'[t].pc = "none"
  BY DEF Dies, NoMonitor
<1>2. ~ up'
  BY DEF Dies
<1> QED
  BY <1>1, <1>2 DEF Recorded

\* Records: a turn in progress gets its monitor in the claim, or its clean-up failed.
LEMMA RecordedCalls ==
  ASSUME IA, NEW c \in Call, CallNext(c) PROVE Recorded'
<1> USE DEF IA
<1>1. CASE UNCHANGED <<threads, turns, monitor, up, lost>>
  BY <1>1, RecordedUnchanged
<1>2. CASE claim_turn(c)
  <2> DEFINE t == NextTurn  th == call[c].thread
  <2>1. t \in Turn /\ turns[t].status = "Absent" /\ th \in Thread
    BY <1>2, CallFacts, NextTurnIs DEF claim_turn
  <2>2. /\ turns' = [turns EXCEPT ![t] = [status |-> "InProgress", thread |-> th]]
        /\ threads' = [threads EXCEPT ![th].latest = t]
        /\ monitor' = [monitor EXCEPT ![t] = [NoMonitor EXCEPT !.pc = "recv", !.engine = call[c].handle]]
        /\ UNCHANGED <<up, lost>>
    BY <1>2 DEF claim_turn
  <2> HIDE DEF t, th
  <2>3. /\ turns'[t].status = "InProgress" /\ monitor'[t].pc = "recv"
        /\ \A u \in Turn : u # t => turns'[u] = turns[u] /\ monitor'[u] = monitor[u]
        /\ \A x \in Thread : threads'[x].latest \in {t, threads[x].latest}
    BY <2>1, <2>2 DEF TypeOK, ThreadRecord, NoMonitor
  <2>4. ASSUME NEW u \in Turn
        PROVE  /\ monitor'[u].pc = "release" => turns'[u].status = "Ended"
               /\ monitor'[u].pc = "evict" /\ ~ lost' => turns'[u].status = "Ended"
               /\ up' /\ ~ lost' /\ turns'[u].status = "InProgress" => Live(u)'
    BY <2>1, <2>2, <2>3 DEF Recorded, Live
  <2>5. ASSUME NEW x \in Thread, NEW u \in Turn, threads'[x].latest = u PROVE turns'[u].status # "Absent"
    BY <2>1, <2>3, <2>5 DEF Recorded
  <2> QED
    BY <2>4, <2>5 DEF Recorded
<1>3. CASE persist_failed(c)
  <2>1. NextTurn \in Turn /\ turns[NextTurn].status = "Absent"
    BY <1>3, NextTurnIs DEF persist_failed
  <2>2. UNCHANGED <<threads, monitor, up>>
    BY <1>3 DEF persist_failed
  <2>3. (lost => lost') /\ \A t \in Turn : turns'[t] = turns[t] \/ (t = NextTurn /\ lost')
    BY <1>3 DEF persist_failed, TypeOK
  <2>4. \A t \in Turn : turns'[t].status = "Absent" => turns[t].status = "Absent"
    BY <1>3 DEF persist_failed, TypeOK, TurnRecord
  <2>5. \A t \in Turn : /\ monitor'[t] = monitor[t]
                        /\ Live(t) => Live(t)'
                        /\ turns'[t] = turns[t] \/ (turns[t].status # "Ended" /\ lost')
    BY <2>1, <2>2, <2>3 DEF Live
  <2>6. (up' => up) /\ \A x \in Thread : threads'[x].latest = threads[x].latest
    BY <2>2
  <2>7. lost => lost'
    BY <2>3
  <2> QED
    BY <2>4, <2>5, <2>6, <2>7, RecordedFrame
<1>4. CASE crash_in_claim(c)
  <2>1. \A t \in Turn : turns'[t].status = "Absent" => turns[t].status = "Absent"
    BY <1>4 DEF crash_in_claim, TypeOK, TurnRecord
  <2> QED
    BY <1>4, <2>1, RecordedDies DEF crash_in_claim
<1> QED
  BY <1>1, <1>2, <1>3, <1>4 DEF CallNext, begin, engine_hit, engine_stale, engine_evict, engine_build,
     engine_publish, reserve_owned, claim_refused, dropped, files, memory

\* Records: a monitor ends the turn before it gives the claim back.
LEMMA RecordedMonitors ==
  ASSUME IA, NEW t \in Turn, MonitorNext(t) \/ monitor_fails(t) PROVE Recorded'
<1> USE DEF IA
<1>0. ASSUME NEW p \in {"save", "release", "settle", "evict"},
             monitor'[t].pc = p \/ (p = "evict" /\ monitor'[t].pc = "done"),
             \A u \in Turn : u # t => monitor'[u] = monitor[u] /\ turns'[u] = turns[u],
             turns'[t].status # "Absent",
             p = "release" => turns'[t].status = "Ended",
             p = "evict" => turns'[t].status = "Ended" \/ lost',
             lost => lost', up' => up,
             \A x \in Thread : threads'[x].latest \in {threads[x].latest, t}
      PROVE  Recorded'
  <2>1. ASSUME NEW u \in Turn
        PROVE  /\ monitor'[u].pc = "release" => turns'[u].status = "Ended"
               /\ monitor'[u].pc = "evict" /\ ~ lost' => turns'[u].status = "Ended"
               /\ up' /\ ~ lost' /\ turns'[u].status = "InProgress" => Live(u)'
    <3>1. CASE u = t
      BY <1>0, <3>1 DEF Live
    <3>2. CASE u # t
      BY <1>0, <3>2 DEF Live, Recorded
    <3> QED
      BY <3>1, <3>2
  <2>2. ASSUME NEW x \in Thread, NEW u \in Turn, threads'[x].latest = u PROVE turns'[u].status # "Absent"
    BY <1>0, <2>2 DEF Recorded
  <2> QED
    BY <2>1, <2>2 DEF Recorded
<1>1. Live(t) => turns[t].status # "Absent"
  BY DEF Claimed
<1>2. CASE on_turn_complete(t)
  <2>1. monitor'[t].pc = "save" /\ (\A u \in Turn : u # t => monitor'[u] = monitor[u]) /\ Live(t)
    BY <1>2 DEF on_turn_complete, At, Live, TypeOK, MonitorRecord
  <2> QED
    BY <1>0, <1>1, <1>2, <2>1 DEF on_turn_complete, files
<1>3. CASE on_closed(t)
  <2>1. monitor'[t].pc \in {"save", "settle"} /\ (\A u \in Turn : u # t => monitor'[u] = monitor[u]) /\ Live(t)
    BY <1>3 DEF on_closed, Step, At, Live, TypeOK, MonitorRecord
  <2> QED
    BY <1>0, <1>1, <1>3, <2>1 DEF on_closed, files
<1>4. CASE save_turn(t)
  <2>1. monitor'[t].pc = "release" /\ (\A u \in Turn : u # t => monitor'[u] = monitor[u]) /\ Live(t)
    BY <1>4 DEF save_turn, Step, At, Live, TypeOK, MonitorRecord
  <2>2. turns'[t].status = "Ended" /\ \A u \in Turn : u # t => turns'[u] = turns[u]
    BY <1>4 DEF save_turn, TypeOK, TurnRecord
  <2> QED
    BY <1>0, <1>4, <2>1, <2>2 DEF save_turn
<1>5. CASE release_claim(t)
  <2>1. monitor'[t].pc = "done" /\ (\A u \in Turn : u # t => monitor'[u] = monitor[u]) /\ turns[t].status = "Ended"
    BY <1>5 DEF release_claim, Finish, At, TypeOK, Recorded, NoMonitor
  <2>2. \A x \in Thread : threads'[x].latest \in {threads[x].latest, t}
    BY <1>5 DEF release_claim, TypeOK, ThreadRecord
  <2> QED
    BY <1>0, <1>5, <2>1, <2>2 DEF release_claim
<1>6. CASE settle(t)
  <2>1. monitor'[t].pc = "evict" /\ (\A u \in Turn : u # t => monitor'[u] = monitor[u]) /\ Live(t)
    BY <1>6 DEF settle, Step, At, Live, TypeOK, MonitorRecord
  <2>2. /\ turns'[t].status = "Ended" \/ (lost' /\ turns'[t].status = turns[t].status)
        /\ \A u \in Turn : u # t => turns'[u] = turns[u]
    BY <1>1, <1>6, <2>1 DEF settle, TypeOK, TurnRecord
  <2>3. lost => lost'
    BY <1>6 DEF settle
  <2> QED
    BY <1>0, <1>1, <1>6, <2>1, <2>2, <2>3 DEF settle
<1>7. CASE settle_evict(t)
  <2>1. monitor'[t].pc = "done" /\ (\A u \in Turn : u # t => monitor'[u] = monitor[u]) /\ Live(t)
    BY <1>7 DEF settle_evict, Finish, At, Live, TypeOK, NoMonitor
  <2>2. turns[t].status = "Ended" \/ lost
    BY <1>7 DEF settle_evict, At, Recorded
  <2> QED
    BY <1>0, <1>1, <1>7, <2>1, <2>2 DEF settle_evict, files
<1>8. CASE monitor_fails(t)
  <2>1. monitor'[t].pc = "settle" /\ (\A u \in Turn : u # t => monitor'[u] = monitor[u]) /\ Live(t)
    BY <1>8 DEF monitor_fails, Step, At, Live, TypeOK, MonitorRecord
  <2> QED
    BY <1>0, <1>1, <1>8, <2>1 DEF monitor_fails, files
<1> QED
  BY <1>2, <1>3, <1>4, <1>5, <1>6, <1>7, <1>8 DEF MonitorNext

\* Records: recover_interrupted_state ends what is in progress before the runtime serves.
LEMMA RecordedOthers ==
  ASSUME IA,
         \/ \E e \in Engine : EngineNext(e) \/ engine_dies(e)
         \/ \E th \in Thread : interrupt_turn(th) \/ update_thread(th)
         \/ crash \/ recover_interrupted_state
  PROVE  Recorded'
<1> USE DEF IA
<1>1. CASE UNCHANGED <<threads, turns, monitor, up, lost>>
  BY <1>1, RecordedUnchanged
<1>2. ASSUME NEW th \in Thread, update_thread(th) PROVE Recorded'
  <2>1. \A x \in Thread : threads'[x].latest = threads[x].latest
    BY <1>2 DEF update_thread, TypeOK, ThreadRecord
  <2>2. UNCHANGED <<turns, monitor, up, lost>>
    BY <1>2 DEF update_thread
  <2> QED
    BY <2>1, <2>2 DEF Recorded, Live
<1>3. CASE crash
  BY <1>3, RecordedDies DEF crash, files
<1>4. CASE recover_interrupted_state
  <2>1. UNCHANGED <<threads, monitor, lost>>
    BY <1>4 DEF recover_interrupted_state
  <2>2. \A t \in Turn : turns'[t] = turns[t] \/ turns'[t].status = "Ended"
    BY <1>4 DEF recover_interrupted_state, InterruptedTurns, TypeOK, TurnRecord
  <2>3. up' => up \/ \A t \in Turn : turns'[t].status # "InProgress"
    BY <1>4 DEF recover_interrupted_state, InterruptedTurns
  <2>4. ASSUME NEW u \in Turn
        PROVE  /\ monitor'[u].pc = "release" => turns'[u].status = "Ended"
               /\ monitor'[u].pc = "evict" /\ ~ lost' => turns'[u].status = "Ended"
               /\ up' /\ ~ lost' /\ turns'[u].status = "InProgress" => Live(u)'
    BY <2>1, <2>2, <2>3 DEF Recorded, Live
  <2>5. ASSUME NEW x \in Thread, NEW u \in Turn, threads'[x].latest = u PROVE turns'[u].status # "Absent"
    BY <2>1, <2>2, <2>5 DEF Recorded
  <2> QED
    BY <2>4, <2>5 DEF Recorded
<1> QED
  BY <1>1, <1>2, <1>3, <1>4 DEF EngineNext, engine_next, engine_finish, engine_dies, interrupt_turn, files, memory

\* While the process is down nothing comes into memory before recovery is complete.
LEMMA DownStep ==
  ASSUME IA, Next PROVE Down'
<1> USE DEF IA
<1>1. CASE up'
  BY <1>1 DEF Down
<1>2. CASE Dies
  BY <1>2 DEF Dies, Down
<1>3. ASSUME ~ up', ~ Dies PROVE ~ up
  BY <1>3 DEF Next, CallNext, begin, engine_hit, engine_stale, engine_evict, engine_build,
     engine_publish, reserve_owned, claim_refused, claim_turn, persist_failed, dropped, crash_in_claim,
     EngineNext, engine_next, engine_finish, engine_dies, MonitorNext, on_turn_complete, on_closed, save_turn,
     release_claim, settle, settle_evict, monitor_fails, interrupt_turn, update_thread, crash,
     recover_interrupted_state
<1>4. CASE ~ up /\ ~ up' /\ ~ Dies
  <2>1. /\ \A c \in Call : call[c].pc = "idle"
        /\ \A t \in Turn : monitor[t].pc = "none"
        /\ \A e \in Engine : engine[e].state = "none"
    BY <1>4 DEF Down, IdleCall, NoMonitor, Unspawned
  <2>2. recover_interrupted_state
    BY <1>4, <2>1 DEF Next, CallNext, begin, engine_hit, engine_stale, engine_evict, engine_build,
     engine_publish, reserve_owned, claim_refused, claim_turn, persist_failed, dropped, crash_in_claim,
     EngineNext, engine_next, engine_finish, engine_dies, MonitorNext, on_turn_complete, on_closed, save_turn,
     release_claim, settle, settle_evict, monitor_fails, interrupt_turn, update_thread, crash, At
  <2> QED
    BY <1>4, <2>2 DEF recover_interrupted_state, memory, Down
<1> QED
  BY <1>1, <1>2, <1>3, <1>4

\* Every step that loads or unloads a thread, or scans the list, keeps it exact.
LEMMA ListedStep ==
  ASSUME IA, Next PROVE Listed'
<1> USE DEF IA
<1>0. Once(lru) /\ (\A x \in Thread : Loaded(x) <=> Lists(lru, x)) /\ lru \in Seq(Thread)
  BY DEF Listed, TypeOK
<1>1. ASSUME UNCHANGED lru, \A x \in Thread : Loaded(x)' <=> Loaded(x) PROVE Listed'
  BY <1>0, <1>1 DEF Listed, Once, Lists
<1>2. ASSUME NEW th \in Thread, Loaded(th), lru' = touch_lru(lru, th), \A x \in Thread : Loaded(x)' <=> Loaded(x)
      PROVE Listed'
  <2>1. Once(touch_lru(lru, th)) /\ \A y : Lists(touch_lru(lru, th), y) <=> Lists(lru, y) \/ y = th
    BY <1>0, TouchLists
  <2> QED
    BY <1>0, <1>2, <2>1 DEF Listed
<1>3. ASSUME NEW th \in Thread, lru' = Without(lru, th), active' = [active EXCEPT ![th] = Unloaded] PROVE Listed'
  <2>1. Once(Without(lru, th)) /\ \A y : Lists(Without(lru, th), y) <=> Lists(lru, y) /\ y # th
    BY <1>0, WithoutLists
  <2>2. \A x \in Thread : Loaded(x)' <=> Loaded(x) /\ x # th
    BY <1>3 DEF Loaded, TypeOK, Unloaded
  <2> QED
    BY <1>0, <1>3, <2>1, <2>2 DEF Listed
<1>4. CASE Dies
  <2>1. lru' = <<>> /\ \A x \in Thread : ~ Loaded(x)'
    BY <1>4 DEF Dies, Loaded, Unloaded
  <2> QED
    BY <2>1 DEF Listed, Once, Lists
<1>5. ASSUME NEW c \in Call, CallNext(c) PROVE Listed'
  <2> DEFINE th == call[c].thread
  <2>1. CASE engine_hit(c)
    BY <1>2, <2>1, CallFacts DEF engine_hit, Loaded
  <2>2. CASE claim_turn(c)
    <3>1. \A x \in Thread : Loaded(x)' <=> Loaded(x)
      BY <2>2 DEF claim_turn, Loaded, TypeOK, ActiveRecord
    <3> QED
      BY <1>2, <2>2, <3>1, CallFacts DEF claim_turn, claimable
  <2>3. CASE engine_publish(c)
    <3> DEFINE i == enforce_lru_capacity
    <3>1. i \in 0..Len(lru) /\ (i # 0 => lru[i] \in Thread)
      BY <1>0, EvictIndexIs
    <3>2. th \in Thread /\ call[c].handle # NoEngine
      BY <2>3, CallFacts DEF engine_publish, Calling, CallHolds
    <3>3. /\ Scanned(i) \in Seq(Thread) /\ Once(Scanned(i))
          /\ \A y : Lists(Scanned(i), y) <=> Lists(lru, y) /\ (i # 0 => y # lru[i])
      BY <1>0, <3>1, ScannedLists
    <3>4. active' = [x \in Thread |->
       IF x = th THEN [Unloaded EXCEPT !.engine = call[c].handle]
       ELSE IF i > 0 /\ x = lru[i] THEN Unloaded ELSE active[x]]
      BY <2>3 DEF engine_publish
    <3>5. lru' = touch_lru(Scanned(i), th)
      BY <2>3 DEF engine_publish
    <3> HIDE DEF i, th
    <3>6. Once(lru') /\ \A y : Lists(lru', y) <=> Lists(Scanned(i), y) \/ y = th
      BY <3>2, <3>3, <3>5, TouchLists
    <3>7. \A x \in Thread : Loaded(x)' <=> x = th \/ (Loaded(x) /\ (i # 0 => x # lru[i]))
      BY <3>1, <3>2, <3>4 DEF Loaded, Unloaded
    <3> QED
      BY <1>0, <3>3, <3>6, <3>7 DEF Listed
  <2>4. CASE crash_in_claim(c)
    BY <1>4, <2>4 DEF crash_in_claim
  <2> QED
    BY <1>1, <1>5, <2>1, <2>2, <2>3, <2>4 DEF CallNext, begin, engine_stale, engine_evict, engine_build,
       reserve_owned, claim_refused, persist_failed, dropped, files, memory, Loaded
<1>6. ASSUME NEW t \in Turn, MonitorNext(t) \/ monitor_fails(t) PROVE Listed'
  <2> DEFINE th == turns[t].thread
  <2>1. Live(t) => th \in Thread /\ Owns(t) /\ Loaded(th)
    BY DEF Claimed, Owns
  <2>2. CASE release_claim(t)
    <3>1. \A x \in Thread : Loaded(x)' <=> Loaded(x)
      BY <2>2 DEF release_claim, Loaded, TypeOK, ActiveRecord
    <3> QED
      BY <1>2, <2>1, <2>2, <3>1 DEF release_claim, At, Live
  <2>3. CASE settle(t)
    <3>1. \A x \in Thread : Loaded(x)' <=> Loaded(x)
      BY <2>3 DEF settle, Loaded, TypeOK, ActiveRecord
    <3> QED
      BY <1>1, <2>3, <3>1 DEF settle
  <2>4. CASE settle_evict(t)
    BY <1>3, <2>1, <2>4 DEF settle_evict, At, Live
  <2> QED
    BY <1>1, <1>6, <2>2, <2>3, <2>4 DEF MonitorNext, on_turn_complete, on_closed, save_turn, monitor_fails,
       files, memory, Loaded
<1>7. ASSUME NEW th \in Thread, interrupt_turn(th) PROVE Listed'
  <2>1. Loaded(th)
    BY <1>7 DEF interrupt_turn, Claimed, TypeOK, ActiveRecord, TurnOrNone
  <2>2. \A x \in Thread : Loaded(x)' <=> Loaded(x)
    BY <1>7 DEF interrupt_turn, Loaded, TypeOK, ActiveRecord
  <2> QED
    BY <1>2, <1>7, <2>1, <2>2 DEF interrupt_turn
<1>8. ASSUME NEW th \in Thread, update_thread(th) PROVE Listed'
  BY <1>1, <1>3, <1>8 DEF update_thread, Loaded
<1>9. ASSUME NEW e \in Engine, EngineNext(e) \/ engine_dies(e) PROVE Listed'
  BY <1>1, <1>9 DEF EngineNext, engine_next, engine_finish, engine_dies, files, memory, Loaded
<1>10. CASE recover_interrupted_state
  BY <1>1, <1>10 DEF recover_interrupted_state, memory, Loaded
<1> QED
  BY <1>4, <1>5, <1>6, <1>7, <1>8, <1>9, <1>10 DEF Next, crash

--------------------------------------------------------------------------------
(* An engine by itself.                                                   *)

\* Cancel and Sent, for the engine alone.
Cancelled(g) == [g EXCEPT !.cancelled = (g.state = "busy")]
Told(g, op) == IF g.state = "gone" THEN g ELSE [g EXCEPT !.ops = Append(@, op)]

\* The operators on the table of engines change one engine: a cancellation,
LEMMA CancelIs ==
  ASSUME NEW eng \in [Engine -> EngineRecord], NEW e \in Engine
  PROVE  Cancel(eng, e) = [eng EXCEPT ![e] = Cancelled(eng[e])]
BY DEF Cancel, Cancelled, EngineRecord

\* a send,
LEMMA SentIs ==
  ASSUME NEW eng \in [Engine -> EngineRecord], NEW e \in Engine, NEW op
  PROVE  Sent(eng, e, op) = [eng EXCEPT ![e] = Told(eng[e], op)]
BY DEF Sent, Told, EngineRecord

\* a cancellation with a shutdown.
LEMMA StoppedIs ==
  ASSUME NEW eng \in [Engine -> EngineRecord], NEW e \in Engine
  PROVE  Stopped(eng, e) = [eng EXCEPT ![e] = Told(Cancelled(eng[e]), Shutdown)]
<1>1. Cancel(eng, e) \in [Engine -> EngineRecord] /\ Cancel(eng, e) = [eng EXCEPT ![e] = Cancelled(eng[e])]
  BY CancelIs, CancelType
<1> DEFINE f == Cancel(eng, e)
<1>2. Stopped(eng, e) = Sent(f, e, Shutdown) /\ f \in [Engine -> EngineRecord]
  BY <1>1 DEF Stopped
<1> HIDE DEF f
<1>3. Sent(f, e, Shutdown) = [f EXCEPT ![e] = Told(f[e], Shutdown)]
  BY <1>2, SentIs
<1>4. f = [eng EXCEPT ![e] = Cancelled(eng[e])]
  BY <1>1 DEF f
<1>5. f[e] = Cancelled(eng[e])
  BY <1>4
<1> QED
  BY <1>2, <1>3, <1>4, <1>5

\* A cancelled engine is as safe as before, and refers to no turn it did not refer to.
LEMMA Cancelling ==
  ASSUME NEW e \in Engine, NEW g \in EngineRecord
  PROVE  /\ Cancelled(g) \in EngineRecord /\ Cancelled(g).state = g.state
         /\ Channel(e, g) => Channel(e, Cancelled(g))
         /\ Safe(g) => Safe(Cancelled(g))
<1>1. /\ Cancelled(g) \in EngineRecord /\ Cancelled(g).state = g.state
      /\ Cancelled(g).ops = g.ops /\ Cancelled(g).events = g.events /\ Cancelled(g).running = g.running
      /\ Cancelled(g).cancelled = (g.state = "busy")
  BY DEF Cancelled, EngineRecord
<1> QED
  BY <1>1 DEF Channel, Safe, Shut, Clean

\* A shutdown makes any engine safe: what is sent after it is never taken.
LEMMA Telling ==
  ASSUME NEW e \in Engine, NEW g \in EngineRecord, Channel(e, g)
  PROVE  /\ Told(g, Shutdown) \in EngineRecord
         /\ g.state # "none" => Told(g, Shutdown).state = g.state /\ Channel(e, Told(g, Shutdown))
         /\ Safe(Told(g, Shutdown))
<1>1. CASE g.state = "gone"
  BY <1>1 DEF Told, Safe
<1>2. CASE g.state # "gone"
  <2> DEFINE h == [g EXCEPT !.ops = Append(g.ops, Shutdown)]
  <2>1. /\ g.ops \in Seq(TurnOrNone) /\ Shutdown \in TurnOrNone
        /\ Append(g.ops, Shutdown) \in Seq(TurnOrNone)
    BY DEF EngineRecord, Shutdown, TurnOrNone, NoTurn
  <2>2. /\ h \in EngineRecord /\ h.state = g.state /\ h.events = g.events /\ h.running = g.running
        /\ h.cancelled = g.cancelled /\ h.ops = Append(g.ops, Shutdown)
    BY <2>1 DEF EngineRecord
  <2>3. Told(g, Shutdown) = h
    BY <1>2 DEF Told
  <2> HIDE DEF h
  <2>4. /\ Len(h.ops) = Len(g.ops) + 1 /\ h.ops[Len(g.ops) + 1] = Shutdown
        /\ \A i \in 1..Len(g.ops) : h.ops[i] = g.ops[i]
        /\ Len(g.ops) \in Nat /\ DOMAIN h.ops = 1..(Len(g.ops) + 1)
    BY <2>1, <2>2
  <2>5. Safe(h)
    BY <2>4 DEF Safe, Shut
  <2>6. g.ops = <<>> <=> Len(g.ops) = 0
    BY <2>1
  <2>7. ASSUME g.state # "none" PROVE Channel(e, h)
    <3>1. h.ops # <<>> /\ h.ops[1] # Shutdown => g.ops # <<>> /\ g.ops[1] = h.ops[1] /\ g.ops[1] # Shutdown
      BY <2>4, <2>6
    <3>2. Len(h.ops) >= 2 => h.ops[1] = Shutdown \/ h.ops[2] = Shutdown
      <4>1. CASE Len(g.ops) = 0
        BY <2>4, <4>1
      <4>2. CASE Len(g.ops) = 1
        BY <2>4, <4>2
      <4>3. CASE Len(g.ops) >= 2
        BY <2>4, <4>3 DEF Channel
      <4> QED
        BY <2>4, <4>1, <4>2, <4>3
    <3> QED
      BY <1>2, <2>2, <2>7, <3>1, <3>2 DEF Channel
  <2> QED
    BY <2>2, <2>3, <2>5, <2>7
<1> QED
  BY <1>1, <1>2

\* The claim: a turn t is sent to an engine in a safe state.
LEMMA Claiming ==
  ASSUME NEW e \in Engine, NEW g \in EngineRecord, Channel(e, g), Safe(g), g.state # "none",
         NEW t \in Turn, monitor[t].pc = "none", monitor'[t].pc = "recv", monitor'[t].engine = e,
         \A u \in Turn : u # t => monitor'[u] = monitor[u]
  PROVE  /\ Told(g, t) \in EngineRecord /\ Told(g, t).state = g.state
         /\ Channel(e, Told(g, t))'
<1>0. Channel(e, g)'
  <2>1. /\ g.state = "busy" /\ ~ g.cancelled => g.running # t
        /\ g.ops # <<>> /\ g.ops[1] # Shutdown => g.ops[1] # t /\ g.ops[1] \in Turn
    BY DEF Channel, EngineRecord, TurnOrNone, Shutdown, NoTurn
  <2> QED
    BY <2>1 DEF Channel
<1>1. CASE g.state = "gone"
  BY <1>0, <1>1 DEF Told
<1>2. CASE g.state # "gone"
  <2> DEFINE h == [g EXCEPT !.ops = Append(g.ops, t)]
  <2>1. /\ g.ops \in Seq(TurnOrNone) /\ t \in TurnOrNone /\ Append(g.ops, t) \in Seq(TurnOrNone)
    BY DEF EngineRecord, TurnOrNone
  <2>2. /\ h \in EngineRecord /\ h.state = g.state /\ h.events = g.events /\ h.running = g.running
        /\ h.cancelled = g.cancelled /\ h.ops = Append(g.ops, t)
    BY <2>1 DEF EngineRecord
  <2>3. Told(g, t) = h
    BY <1>2 DEF Told
  <2> HIDE DEF h
  <2>4. /\ Len(h.ops) = Len(g.ops) + 1 /\ h.ops[Len(g.ops) + 1] = t
        /\ \A i \in 1..Len(g.ops) : h.ops[i] = g.ops[i]
        /\ Len(g.ops) \in Nat /\ DOMAIN h.ops = 1..(Len(g.ops) + 1)
    BY <2>1, <2>2
  <2>6. g.ops = <<>> <=> Len(g.ops) = 0
    BY <2>1
  <2>7. CASE Clean(g)
    <3>1. h.ops[1] = t /\ Len(h.ops) = 1
      BY <2>4, <2>6, <2>7 DEF Clean
    <3> QED
      BY <1>0, <2>2, <2>3, <2>7, <3>1 DEF Channel, Clean
  <2>8. CASE Shut(g)
    <3>1. PICK i \in 1..Len(g.ops) : g.ops[i] = Shutdown
      BY <2>1, <2>8 DEF Shut
    <3>2. Len(g.ops) >= 1 /\ g.ops # <<>>
      BY <2>4, <2>6, <3>1
    <3>3. h.ops[1] = g.ops[1] /\ h.ops # <<>>
      BY <2>4, <3>2
    <3>4. g.ops[1] = Shutdown \/ (Len(g.ops) >= 2 /\ g.ops[2] = Shutdown)
      BY <2>4, <3>1, <3>2 DEF Channel
    <3>5. Len(h.ops) >= 2 => h.ops[1] = Shutdown \/ h.ops[2] = Shutdown
      BY <2>4, <3>2, <3>3, <3>4
    <3> QED
      BY <1>0, <1>2, <2>2, <2>3, <3>2, <3>3, <3>5 DEF Channel
  <2> QED
    BY <1>2, <2>7, <2>8 DEF Safe
<1> QED
  BY <1>1, <1>2

\* The next operation is taken.
LEMMA Taking ==
  ASSUME NEW e \in Engine, NEW g \in EngineRecord, Channel(e, g), g.state = "idle", g.ops # <<>>,
         Head(g.ops) # Shutdown,
         NEW h \in EngineRecord, h = [g EXCEPT !.state = "busy", !.running = Head(g.ops), !.ops = Tail(g.ops)]
  PROVE  Channel(e, h) /\ (Safe(g) => Safe(h))
<1>1. /\ g.ops \in Seq(TurnOrNone) /\ Head(g.ops) = g.ops[1] /\ g.ops[1] \in Turn /\ Len(g.ops) >= 1
  BY DEF EngineRecord, TurnOrNone, Shutdown, NoTurn
<1>2. /\ h.state = "busy" /\ h.running = g.ops[1] /\ h.ops = Tail(g.ops) /\ h.events = g.events
      /\ h.cancelled = g.cancelled
  BY <1>1 DEF EngineRecord
<1>3. /\ Len(h.ops) = Len(g.ops) - 1 /\ \A i \in 1..(Len(g.ops) - 1) : h.ops[i] = g.ops[i + 1]
      /\ DOMAIN h.ops = 1..(Len(g.ops) - 1) /\ Len(g.ops) \in Nat /\ (h.ops = <<>> <=> Len(h.ops) = 0)
  <2> DEFINE a == g.ops  b == h.ops
  <2>1. a \in Seq(TurnOrNone) /\ a # <<>> /\ b = Tail(a) /\ Len(a) \in Nat
    BY <1>1, <1>2
  <2> HIDE DEF a, b
  <2>2. /\ b \in Seq(TurnOrNone) /\ Len(b) = Len(a) - 1
        /\ \A i \in 1..Len(b) : b[i] = a[i + 1]
    BY <2>1, HeadTailProperties
  <2>3. DOMAIN b = 1..Len(b) /\ (b = <<>> <=> Len(b) = 0)
    BY <2>2
  <2> QED
    BY <2>1, <2>2, <2>3 DEF a, b
<1>4. g.events = <<>> /\ ~ g.cancelled /\ monitor[g.ops[1]].pc = "recv" /\ monitor[g.ops[1]].engine = e
  BY <1>1 DEF Channel
<1>5. h.ops # <<>> => h.ops[1] = Shutdown
  BY <1>1, <1>3 DEF Channel
<1>6. Channel(e, h)
  <2>1. Len(h.ops) >= 2 => h.ops[1] = Shutdown
    BY <1>3, <1>5
  <2> QED
    BY <1>1, <1>2, <1>4, <1>5, <2>1 DEF Channel
<1>7. ASSUME Safe(g) PROVE Safe(h)
  <2>1. PICK i \in 1..Len(g.ops) : g.ops[i] = Shutdown
    BY <1>1, <1>7 DEF Safe, Shut, Clean
  <2>2. i # 1 /\ i - 1 \in 1..(Len(g.ops) - 1) /\ h.ops[i - 1] = g.ops[i]
    BY <1>1, <1>3, <2>1
  <2> QED
    BY <1>3, <2>1, <2>2 DEF Safe, Shut
<1> QED
  BY <1>6, <1>7

\* The turn that runs is reported.
LEMMA Finishing ==
  ASSUME NEW e \in Engine, NEW g \in EngineRecord, Channel(e, g), g.state = "busy",
         NEW h \in EngineRecord,
         h = [Unspawned EXCEPT !.state = "idle", !.ops = g.ops, !.events = Append(g.events, g.running)]
  PROVE  Channel(e, h) /\ (Safe(g) => Safe(h))
<1>1. /\ h.state = "idle" /\ h.ops = g.ops /\ ~ h.cancelled /\ h.events = <<g.running>>
  <2>1. g.events = <<>> /\ Append(<<>>, g.running) = <<g.running>>
    BY DEF Channel
  <2> QED
    BY <2>1 DEF Unspawned
<1>2. g.ops # <<>> => g.ops[1] = Shutdown
  BY DEF Channel
<1>3. Channel(e, h)
  <2>1. Len(h.events) <= 1
    BY <1>1
  <2> QED
    BY <1>1, <1>2, <2>1 DEF Channel
<1> QED
  BY <1>1, <1>3 DEF Safe, Shut, Clean

\* The report is read.
LEMMA Reading ==
  ASSUME NEW e \in Engine, NEW g \in EngineRecord, Channel(e, g), g.events # <<>>,
         NEW h \in EngineRecord, h = [g EXCEPT !.events = Tail(g.events)]
  PROVE  Channel(e, h) /\ Safe(h) /\ h.state = g.state /\ g.state \in {"idle", "gone"}
         /\ (g.ops # <<>> => g.ops[1] = Shutdown)
<1>1. g.events \in Seq(TurnOrNone) /\ Len(g.events) = 1
  <2>1. g.events \in Seq(TurnOrNone)
    BY DEF EngineRecord
  <2>2. Len(g.events) <= 1
    BY DEF Channel
  <2>3. Len(g.events) \in Nat \ {0}
    BY <2>1, EmptySeq
  <2> DEFINE n == Len(g.events)
  <2>4. n <= 1 /\ n \in Nat \ {0}
    BY <2>2, <2>3
  <2> HIDE DEF n
  <2>5. n = 1
    BY <2>4
  <2> QED
    BY <2>1, <2>5 DEF n
<1>2. /\ h.state = g.state /\ h.ops = g.ops /\ h.cancelled = g.cancelled /\ h.running = g.running
      /\ h.events = <<>>
  <2>1. Tail(g.events) = <<>>
    <3> DEFINE a == g.events
    <3>1. a \in Seq(TurnOrNone) /\ Len(a) = 1
      BY <1>1
    <3> HIDE DEF a
    <3>2. Tail(a) \in Seq(TurnOrNone) /\ Len(Tail(a)) = 0
      BY <3>1, HeadTailProperties
    <3> QED
      BY <3>2, EmptySeq DEF a
  <2> QED
    BY <2>1 DEF EngineRecord
<1>3. (g.ops # <<>> => g.ops[1] = Shutdown) /\ g.state \in {"idle", "gone"}
  BY DEF Channel, EngineRecord
<1>4. Channel(e, h)
  BY <1>2, <1>3 DEF Channel
<1>5. Safe(h)
  <2>1. CASE g.ops = <<>>
    BY <1>2, <1>3, <2>1 DEF Safe, Clean
  <2>2. CASE g.ops # <<>>
    <3>1. 1 \in DOMAIN g.ops
      BY <2>2 DEF EngineRecord
    <3> QED
      BY <1>2, <1>3, <2>2, <3>1 DEF Safe, Shut
  <2> QED
    BY <2>1, <2>2
<1> QED
  BY <1>2, <1>3, <1>4, <1>5

--------------------------------------------------------------------------------
(* Engines serve one thread.                                              *)

\* Handles, the set that decides when a channel closes, is who holds an engine.
LEMMA HeldHandles ==
  ASSUME NEW e PROVE e \in Handles <=> Held(e)
BY DEF Handles, Held

\* A step that takes no handle to an engine keeps the engines apart.
LEMMA SeparateFrame ==
  ASSUME Separate,
         \A e \in Engine : engine'[e].state = "none" => engine[e].state = "none",
         \A th \in Thread : active'[th].engine \in {active[th].engine, NoEngine},
         \A c \in Call : /\ \/ call'[c].handle = call[c].handle /\ call'[c].thread = call[c].thread
                            \/ call'[c].handle = NoEngine
                         /\ call'[c].victim \in {call[c].victim, NoEngine},
         \A t \in Turn : \/ monitor'[t].engine = monitor[t].engine /\ turns'[t].thread = turns[t].thread
                         \/ monitor'[t].engine = NoEngine
  PROVE  Separate'
<1> SUFFICES ASSUME NEW e \in Engine
             PROVE  /\ engine'[e].state = "none" => ~ Held(e)'
                    /\ \A th, thh \in Thread : HeldFor(e, th)' /\ HeldFor(e, thh)' => th = thh
  BY DEF Separate
<1>0. e # NoEngine
  BY DEF Engine, NoEngine
<1>1. Held(e)' => Held(e)
  BY <1>0 DEF Held
<1>2. ASSUME NEW th \in Thread, HeldFor(e, th)' PROVE HeldFor(e, th)
  BY <1>0, <1>2 DEF HeldFor
<1> QED
  BY <1>1, <1>2 DEF Separate

\* So does a step that takes one for a thread that holds it already.
LEMMA SeparateStep ==
  ASSUME Separate, NEW x \in Thread, NEW h, HeldFor(h, x),
         \A e \in Engine : engine'[e].state = "none" => engine[e].state = "none",
         \A e \in Engine : Held(e)' => Held(e),
         \A e \in Engine, th \in Thread : HeldFor(e, th)' => HeldFor(e, th) \/ (e = h /\ th = x)
  PROVE  Separate'
BY DEF Separate

\* After the end of the process nobody holds an engine.
LEMMA SeparateDies ==
  ASSUME Dies PROVE Separate'
<1> SUFFICES ASSUME NEW e \in Engine PROVE ~ Held(e)' /\ \A th \in Thread : ~ HeldFor(e, th)'
  BY DEF Separate
<1>1. e # NoEngine
  BY DEF Engine, NoEngine
<1> QED
  BY <1>1 DEF Dies, Held, HeldFor, Unloaded, IdleCall, NoMonitor

\* No step but a crash takes an engine out of existence.
LEMMA EngineExists ==
  ASSUME TypeOK, TypeOK', Next, ~ Dies, NEW e \in Engine, engine'[e].state = "none"
  PROVE  engine[e].state = "none"
<1> DEFINE g == engine[e]  h == engine'[e]
<1>0. g \in EngineRecord /\ h \in EngineRecord
  BY DEF TypeOK
<1>1. ASSUME NEW f, NEW op \in TurnOrNone, h = Sent(engine, f, op)[e] PROVE h.state = g.state
  BY <1>1 DEF Sent, TypeOK, EngineRecord
<1>2. ASSUME NEW f, h = Cancel(engine, f)[e] PROVE h.state = g.state
  BY <1>2 DEF Cancel, TypeOK, EngineRecord
<1>3. ASSUME NEW f, h = Stopped(engine, f)[e] PROVE h.state = g.state
  BY <1>3 DEF Stopped, Sent, Cancel, TypeOK, EngineRecord
<1>4. Shutdown \in TurnOrNone
  BY DEF Shutdown, TurnOrNone, NoTurn
<1>5. ASSUME NEW c \in Call, CallNext(c) PROVE g.state = "none"
  <2>1. CASE engine_stale(c)
    BY <1>3, <2>1 DEF engine_stale
  <2>2. CASE engine_evict(c)
    BY <1>1, <1>4, <2>2 DEF engine_evict
  <2>3. CASE claim_turn(c)
    <3>1. NextTurn \in TurnOrNone
      BY <2>3, NextTurnIs DEF claim_turn, TurnOrNone
    <3> QED
      BY <1>1, <2>3, <3>1 DEF claim_turn
  <2>4. ASSUME NEW f \in Engine, engine_build(c, f) PROVE g.state = "none"
    BY <2>4 DEF engine_build, Spawned, TypeOK, EngineRecord, Unspawned
  <2>5. CASE UNCHANGED engine
    BY <2>5
  <2> QED
    BY <1>5, <2>1, <2>2, <2>3, <2>4, <2>5 DEF CallNext, begin, engine_hit, engine_publish, reserve_owned,
       claim_refused, persist_failed, dropped, crash_in_claim
<1>6. ASSUME NEW f \in Engine, EngineNext(f) \/ engine_dies(f) PROVE g.state = "none"
  <2>1. CASE e # f
    BY <1>6, <2>1 DEF EngineNext, engine_next, engine_finish, engine_dies, TypeOK
  <2>2. CASE e = f /\ engine_next(f)
    BY <2>2 DEF engine_next, TypeOK, EngineRecord
  <2>3. CASE e = f /\ (engine_finish(f) \/ engine_dies(f))
    BY <2>3 DEF engine_finish, engine_dies, TypeOK, Unspawned
  <2> QED
    BY <1>6, <2>1, <2>2, <2>3 DEF EngineNext
<1>7. ASSUME NEW t \in Turn, MonitorNext(t) \/ monitor_fails(t) PROVE g.state = "none"
  <2>1. CASE on_turn_complete(t)
    BY <2>1 DEF on_turn_complete, TypeOK, EngineRecord
  <2>2. CASE settle(t)
    BY <1>2, <2>2 DEF settle
  <2>3. CASE settle_evict(t)
    BY <1>3, <2>3 DEF settle_evict
  <2>4. CASE UNCHANGED engine
    BY <2>4
  <2> QED
    BY <1>7, <2>1, <2>2, <2>3, <2>4 DEF MonitorNext, on_closed, save_turn, release_claim, monitor_fails
<1>8. ASSUME NEW th \in Thread, interrupt_turn(th) \/ update_thread(th) PROVE g.state = "none"
  BY <1>1, <1>2, <1>4, <1>8 DEF interrupt_turn, update_thread
<1>9. CASE recover_interrupted_state
  BY <1>9 DEF recover_interrupted_state
<1> QED
  BY <1>5, <1>6, <1>7, <1>8, <1>9 DEF Next, crash

\* An engine serves one thread: a call passes on only the engine it has for its thread.
LEMMA SeparateCalls ==
  ASSUME IInv, TypeOK', NEW c \in Call, CallNext(c) PROVE Separate'
<1> USE DEF IInv
<1> DEFINE th == call[c].thread
<1>0. CASE Dies
  BY <1>0, SeparateDies
<1>a. ASSUME ~ Dies PROVE \A e \in Engine : engine'[e].state = "none" => engine[e].state = "none"
  BY <1>a, EngineExists DEF Next
<1>b. IA
  BY DEF IA
<1>1. CASE engine_hit(c)
  <2> DEFINE h == active[th].engine
  <2>1. /\ call' = [call EXCEPT ![c].pc = "check", ![c].handle = h] /\ UNCHANGED <<active, monitor, turns, engine>>
        /\ th \in Thread
    BY <1>1, <1>b, CallFacts DEF engine_hit, files
  <2>2. /\ call'[c].handle = h /\ call'[c].thread = th /\ call'[c].victim = call[c].victim
        /\ \A d \in Call : d # c => call'[d] = call[d]
    BY <2>1 DEF TypeOK, CallRecord
  <2>3. ASSUME NEW e \in Engine, Held(e)' PROVE Held(e)
    BY <2>1, <2>2, <2>3 DEF Held
  <2>4. ASSUME NEW e \in Engine, NEW x \in Thread, HeldFor(e, x)' PROVE HeldFor(e, x) \/ (e = h /\ x = th)
    BY <2>1, <2>2, <2>4 DEF HeldFor
  <2>5. HeldFor(h, th)
    BY DEF HeldFor
  <2> QED
    BY <2>1, <2>3, <2>4, <2>5, SeparateStep
<1>2. CASE engine_publish(c)
  <2> DEFINE h == call[c].handle  i == enforce_lru_capacity
             v == IF i = 0 THEN NoEngine ELSE active[lru[i]].engine
  <2>1. /\ active' = [x \in Thread |->
              IF x = th THEN [Unloaded EXCEPT !.engine = h]
              ELSE IF i > 0 /\ x = lru[i] THEN Unloaded ELSE active[x]]
        /\ call' = [call EXCEPT ![c].pc = IF i = 0 THEN "check" ELSE "evict", ![c].victim = v,
                           ![c].built = IdleCall.built]
        /\ UNCHANGED <<monitor, turns, engine>> /\ th \in Thread
    BY <1>2, <1>b, CallFacts DEF engine_publish, files
  <2>2. v = NoEngine \/ \E x \in Thread : active[x].engine = v
    BY EvictIndexIs DEF TypeOK
  <2> HIDE DEF i, v
  <2>3. /\ call'[c].handle = h /\ call'[c].thread = th /\ call'[c].victim = v
        /\ \A d \in Call : d # c => call'[d] = call[d]
        /\ active'[th].engine = h
        /\ \A x \in Thread : x # th => active'[x].engine \in {NoEngine, active[x].engine}
    BY <2>1 DEF TypeOK, CallRecord, Unloaded
  <2>4. ASSUME NEW e \in Engine, Held(e)' PROVE Held(e)
    <3>1. e # NoEngine
      BY DEF Engine, NoEngine
    <3>2. Held(h)
      BY DEF Held
    <3>3. CASE \E x \in Thread : active'[x].engine = e
      BY <2>3, <3>1, <3>2, <3>3 DEF Held
    <3>4. CASE \E d \in Call : e \in {call'[d].handle, call'[d].victim}
      BY <2>2, <2>3, <3>1, <3>2, <3>4 DEF Held
    <3>5. CASE \E t \in Turn : monitor'[t].engine = e
      BY <2>1, <3>5 DEF Held
    <3> QED
      BY <2>4, <3>3, <3>4, <3>5 DEF Held
  <2>5. ASSUME NEW e \in Engine, NEW x \in Thread, HeldFor(e, x)' PROVE HeldFor(e, x) \/ (e = h /\ x = th)
    <3>1. e # NoEngine
      BY DEF Engine, NoEngine
    <3> QED
      BY <2>1, <2>3, <2>5, <3>1 DEF HeldFor
  <2>6. HeldFor(h, th)
    BY DEF HeldFor
  <2> QED
    BY <2>1, <2>4, <2>5, <2>6, SeparateStep
<1>3. CASE claim_turn(c)
  <2> DEFINE h == call[c].handle  t == NextTurn
  <2>1. /\ active' = [active EXCEPT ![th].turn = t, ![th].interrupt = FALSE]
        /\ turns' = [turns EXCEPT ![t] = [status |-> "InProgress", thread |-> th]]
        /\ monitor' = [monitor EXCEPT ![t] = [NoMonitor EXCEPT !.pc = "recv", !.engine = h]]
        /\ call' = [call EXCEPT ![c] = IdleCall]
        /\ th \in Thread /\ t \in Turn
    BY <1>3, <1>b, CallFacts, NextTurnIs DEF claim_turn, Return
  <2> HIDE DEF t
  <2>2. /\ \A x \in Thread : active'[x].engine = active[x].engine
        /\ \A u \in Turn : u # t => turns'[u] = turns[u] /\ monitor'[u] = monitor[u]
        /\ turns'[t].thread = th /\ monitor'[t].engine = h
        /\ call'[c].handle = NoEngine /\ call'[c].victim = NoEngine
        /\ \A d \in Call : d # c => call'[d] = call[d]
    BY <2>1 DEF TypeOK, ActiveRecord, NoMonitor, IdleCall
  <2>3. ASSUME NEW e \in Engine, Held(e)' PROVE Held(e)
    <3>1. e # NoEngine
      BY DEF Engine, NoEngine
    <3>2. Held(h)
      BY DEF Held
    <3>3. CASE \E x \in Thread : active'[x].engine = e
      BY <2>2, <3>3 DEF Held
    <3>4. CASE \E d \in Call : e \in {call'[d].handle, call'[d].victim}
      BY <2>2, <3>1, <3>4 DEF Held
    <3>5. CASE \E u \in Turn : monitor'[u].engine = e
      BY <2>2, <3>2, <3>5 DEF Held
    <3> QED
      BY <2>3, <3>3, <3>4, <3>5 DEF Held
  <2>4. ASSUME NEW e \in Engine, NEW x \in Thread, HeldFor(e, x)' PROVE HeldFor(e, x) \/ (e = h /\ x = th)
    <3>1. e # NoEngine
      BY DEF Engine, NoEngine
    <3> QED
      BY <2>1, <2>2, <2>4, <3>1 DEF HeldFor
  <2>5. HeldFor(h, th)
    BY DEF HeldFor
  <2>6. ~ Dies
    BY <1>3 DEF claim_turn, Dies, Fault, TypeOK
  <2> QED
    BY <1>a, <2>1, <2>3, <2>4, <2>5, <2>6, SeparateStep
<1>4. ASSUME NEW h \in Engine, engine_build(c, h) PROVE Separate'
  <2>1. /\ call'[c].handle = h /\ call'[c].thread = th /\ call'[c].victim = call[c].victim
        /\ \A d \in Call : d # c => call'[d] = call[d]
        /\ UNCHANGED <<active, monitor, turns>>
    BY <1>4 DEF engine_build, files, TypeOK, CallRecord
  <2>2. engine'[h].state = "idle" /\ \A e \in Engine : e # h => engine'[e] = engine[e]
    BY <1>4 DEF engine_build, Spawned, Unspawned, TypeOK
  <2>3. ~ Held(h)
    BY <1>4, HeldHandles DEF engine_build, Spawnable, Separate
  <2>4. ASSUME NEW e \in Engine, e # h PROVE (Held(e)' => Held(e)) /\ \A x \in Thread : HeldFor(e, x)' => HeldFor(e, x)
    BY <2>1, <2>4 DEF Held, HeldFor
  <2>5. ASSUME NEW x \in Thread, HeldFor(h, x)' PROVE x = th
    BY <2>1, <2>3, <2>5 DEF Held, HeldFor
  <2> QED
    BY <2>2, <2>4, <2>5 DEF Separate
<1>5. ASSUME UNCHANGED <<active, monitor>>,
             \A t \in Turn : turns'[t].thread = turns[t].thread \/ monitor[t].engine = NoEngine,
             \A d \in Call : d # c => call'[d] = call[d],
             \/ call'[c].handle = call[c].handle /\ call'[c].thread = th
             \/ call'[c].handle = NoEngine,
             call'[c].victim \in {call[c].victim, NoEngine}, ~ Dies
      PROVE  Separate'
  BY <1>5, <1>a, SeparateFrame
<1>6. ASSUME call' = [call EXCEPT ![c] = IdleCall] PROVE call'[c].handle = NoEngine /\ call'[c].victim = NoEngine /\ \A d \in Call : d # c => call'[d] = call[d]
  BY <1>6 DEF TypeOK, IdleCall
<1>7. CASE persist_failed(c)
  <2>1. NextTurn \in Turn /\ monitor[NextTurn].engine = NoEngine
    BY <1>7, NextTurnIs, ClaimFacts DEF persist_failed, Claimed
  <2>2. \A t \in Turn : turns'[t].thread = turns[t].thread \/ monitor[t].engine = NoEngine
    BY <1>7, <2>1 DEF persist_failed, TypeOK
  <2> QED
    BY <1>0, <1>5, <1>6, <1>7, <2>2 DEF persist_failed, memory, Return
<1>8. CASE engine_stale(c)
  <2>1. /\ call'[c].handle = NoEngine /\ call'[c].victim = call[c].victim
        /\ \A d \in Call : d # c => call'[d] = call[d]
        /\ UNCHANGED <<active, monitor, turns>>
    BY <1>8 DEF engine_stale, files, memory, TypeOK, CallRecord
  <2> QED
    BY <1>0, <1>5, <2>1
<1>9. CASE engine_evict(c)
  <2>1. /\ call'[c].handle = call[c].handle /\ call'[c].thread = th /\ call'[c].victim = NoEngine
        /\ \A d \in Call : d # c => call'[d] = call[d]
        /\ UNCHANGED <<active, monitor, turns>>
    BY <1>9 DEF engine_evict, files, TypeOK, CallRecord
  <2> QED
    BY <1>0, <1>5, <2>1
<1>10. CASE reserve_owned(c)
  <2>1. CASE Return(c)
    BY <1>0, <1>5, <1>6, <1>10, <2>1 DEF reserve_owned, Return, files, memory
  <2>2. CASE call' = [call EXCEPT ![c].pc = "claim"]
    <3>1. /\ call'[c].handle = call[c].handle /\ call'[c].thread = th /\ call'[c].victim = call[c].victim
          /\ \A d \in Call : d # c => call'[d] = call[d]
      BY <2>2 DEF TypeOK, CallRecord
    <3> QED
      BY <1>0, <1>5, <1>10, <3>1 DEF reserve_owned, files, memory
  <2> QED
    BY <1>10, <2>1, <2>2 DEF reserve_owned
<1>11. CASE claim_refused(c) \/ dropped(c)
  BY <1>0, <1>5, <1>6, <1>11 DEF claim_refused, dropped, Return, files, memory
<1>12. ASSUME NEW x \in Thread, begin(c, x) PROVE Separate'
  <2>1. call'[c].handle = NoEngine /\ call'[c].victim = NoEngine /\ \A d \in Call : d # c => call'[d] = call[d]
    BY <1>12 DEF begin, TypeOK, IdleCall
  <2> QED
    BY <1>0, <1>5, <1>12, <2>1 DEF begin, files, memory
<1> QED
  BY <1>0, <1>1, <1>2, <1>3, <1>4, <1>7, <1>8, <1>9, <1>10, <1>11, <1>12 DEF CallNext, crash_in_claim

\* The other steps take no handle to an engine.
LEMMA SeparateOthers ==
  ASSUME IInv, TypeOK', Next, ~ \E c \in Call : CallNext(c) PROVE Separate'
<1> USE DEF IInv
<1>0. CASE Dies
  BY <1>0, SeparateDies
<1>a. ASSUME ~ Dies PROVE \A e \in Engine : engine'[e].state = "none" => engine[e].state = "none"
  BY <1>a, EngineExists
<1>1. ASSUME ~ Dies, UNCHANGED call,
             \A th \in Thread : active'[th].engine \in {active[th].engine, NoEngine},
             \A t \in Turn : \/ monitor'[t].engine = monitor[t].engine /\ turns'[t].thread = turns[t].thread
                             \/ monitor'[t].engine = NoEngine
      PROVE  Separate'
  <2>1. \A c \in Call : call'[c].handle = call[c].handle /\ call'[c].thread = call[c].thread /\ call'[c].victim = call[c].victim
    BY <1>1
  <2> QED
    BY <1>1, <1>a, <2>1, SeparateFrame
<1>2. ASSUME NEW e \in Engine, EngineNext(e) \/ engine_dies(e) PROVE Separate'
  BY <1>0, <1>1, <1>2 DEF EngineNext, engine_next, engine_finish, engine_dies, files, memory
<1>3. ASSUME NEW t \in Turn, MonitorNext(t) \/ monitor_fails(t) PROVE Separate'
  <2>1. UNCHANGED call
    BY <1>3 DEF MonitorNext, on_turn_complete, on_closed, save_turn, release_claim, settle, settle_evict, monitor_fails
  <2>2. ASSUME NEW x \in Thread PROVE active'[x].engine \in {active[x].engine, NoEngine}
    <3>1. CASE release_claim(t)
      BY <3>1 DEF release_claim, TypeOK, ActiveRecord
    <3>2. CASE settle(t)
      BY <3>2 DEF settle, TypeOK, ActiveRecord
    <3>3. CASE settle_evict(t)
      <4>1. CASE Owns(t)
        <5>1. active' = [active EXCEPT ![turns[t].thread] = Unloaded]
          BY <3>3, <4>1 DEF settle_evict
        <5> QED
          BY <5>1 DEF TypeOK, Unloaded
      <4>2. CASE ~ Owns(t)
        BY <3>3, <4>2 DEF settle_evict
      <4> QED
        BY <4>1, <4>2
    <3> QED
      BY <1>3, <3>1, <3>2, <3>3 DEF MonitorNext, on_turn_complete, on_closed, save_turn, monitor_fails, memory
  <2>3. ASSUME NEW u \in Turn PROVE monitor'[u].engine \in {monitor[u].engine, NoEngine}
    <3>1. CASE release_claim(t) \/ settle_evict(t)
      BY <3>1 DEF release_claim, settle_evict, Finish, TypeOK, NoMonitor
    <3> QED
      BY <1>3, <3>1 DEF MonitorNext, on_turn_complete, on_closed, save_turn, settle, monitor_fails, Step, TypeOK, MonitorRecord
  <2>4. ASSUME NEW u \in Turn PROVE turns'[u].thread = turns[u].thread
    BY <1>3 DEF MonitorNext, on_turn_complete, on_closed, save_turn, release_claim, settle, settle_evict, monitor_fails, files, TypeOK, TurnRecord
  <2> QED
    BY <1>0, <1>1, <2>1, <2>2, <2>3, <2>4
<1>4. ASSUME NEW th \in Thread, interrupt_turn(th) \/ update_thread(th) PROVE Separate'
  <2>1. \A x \in Thread : active'[x].engine \in {active[x].engine, NoEngine}
    BY <1>4 DEF interrupt_turn, update_thread, TypeOK, ActiveRecord, Unloaded
  <2> QED
    BY <1>0, <1>1, <1>4, <2>1 DEF interrupt_turn, update_thread, files
<1>5. CASE recover_interrupted_state
  <2>1. \A t \in Turn : turns'[t].thread = turns[t].thread
    BY <1>5 DEF recover_interrupted_state, InterruptedTurns, TypeOK, TurnRecord
  <2> QED
    BY <1>0, <1>1, <1>5, <2>1 DEF recover_interrupted_state, memory
<1> QED
  BY <1>0, <1>2, <1>3, <1>4, <1>5 DEF Next, crash

\* What the claim of call c finds and does: its engine e is safe, and the turn t is new.
Claims(c, t, e, th) ==
  /\ e = call[c].handle /\ th = call[c].thread
  /\ threads[th] = call[c].snap /\ call[c].pc = "claim"
  /\ turns[t].status = "Absent" /\ monitor[t].pc = "none"
  /\ Safe(engine[e]) /\ engine[e].state # "none"
  /\ Loaded(th) /\ active[th].turn = NoTurn
  /\ engine' = [engine EXCEPT ![e] = Told(engine[e], t)]
  /\ monitor'[t].pc = "recv" /\ monitor'[t].engine = e
  /\ \A u \in Turn : u # t => monitor'[u] = monitor[u]
  /\ active' = [active EXCEPT ![th].turn = t, ![th].interrupt = FALSE]
  /\ threads' = [threads EXCEPT ![th].latest = t]
  /\ call' = [call EXCEPT ![c] = IdleCall]

\* The claim, in the words above.
LEMMA ClaimFinds ==
  ASSUME IInv, NEW c \in Call, claim_turn(c)
  PROVE  \E t \in Turn, e \in Engine, th \in Thread : Claims(c, t, e, th)
<1> DEFINE t == NextTurn  e == call[c].handle  th == call[c].thread
<1> USE DEF IInv
<1>1. t \in Turn /\ turns[t].status = "Absent" /\ monitor[t].pc = "none"
  BY NextTurnIs DEF claim_turn, Claimed
<1>2. th \in Thread /\ Loaded(th) /\ active[th].turn = NoTurn /\ threads[th] = call[c].snap /\ call[c].pc = "claim"
  BY CallFacts DEF IA, claim_turn, claimable
<1>3. e \in Engine
  BY <1>2 DEF Calling, CallHolds, TypeOK, CallRecord, Handle
<1>4. ~ RunsOn(th, e)
  BY <1>2 DEF RunsOn, Turn, NoTurn
<1>5. Safe(engine[e])
  BY <1>2, <1>4 DEF Reached, CallReached
<1>6. engine[e].state # "none"
  BY <1>3 DEF Separate, Held
<1>7. engine' = [engine EXCEPT ![e] = Told(engine[e], t)]
  <2>1. engine' = Sent(engine, e, t)
    BY DEF claim_turn
  <2>2. engine \in [Engine -> EngineRecord]
    BY DEF TypeOK
  <2>3. Sent(engine, e, t) = [engine EXCEPT ![e] = Told(engine[e], t)]
    BY <1>3, <2>2 DEF Sent, Told, EngineRecord
  <2> QED
    BY <2>1, <2>3
<1>8. monitor'[t].pc = "recv" /\ monitor'[t].engine = e /\ \A u \in Turn : u # t => monitor'[u] = monitor[u]
  <2> DEFINE m == [NoMonitor EXCEPT !.pc = "recv", !.engine = e]
  <2>1. monitor' = [monitor EXCEPT ![t] = m]
    BY DEF claim_turn
  <2>2. m.pc = "recv" /\ m.engine = e
    BY DEF NoMonitor
  <2>3. DOMAIN monitor = Turn
    BY DEF TypeOK
  <2> HIDE DEF m
  <2> QED
    BY <1>1, <2>1, <2>2, <2>3
<1>9. /\ active' = [active EXCEPT ![th].turn = t, ![th].interrupt = FALSE]
      /\ threads' = [threads EXCEPT ![th].latest = t]
      /\ call' = [call EXCEPT ![c] = IdleCall]
  BY DEF claim_turn, Return
<1>10. e = call[c].handle /\ th = call[c].thread
  OBVIOUS
<1> HIDE DEF t, e, th
<1> QED
  BY <1>1, <1>2, <1>3, <1>5, <1>6, <1>7, <1>8, <1>9, <1>10, Zenon DEF Claims

\* Cancellation and a shutdown leave the channel as it should be, and a safe engine safe.
LEMMA OneMove ==
  ASSUME NEW e \in Engine, NEW g \in EngineRecord, Channel(e, g), NEW h,
         \/ h = g \/ h = Cancelled(g)
         \/ h = Told(g, Shutdown) /\ g.state # "none"
         \/ h = Told(Cancelled(g), Shutdown) /\ g.state # "none"
  PROVE  Channel(e, h) /\ (Safe(g) => Safe(h))
<1>1. CASE h = g
  BY <1>1
<1>2. CASE h = Cancelled(g)
  BY <1>2, Cancelling
<1>3. CASE h = Told(g, Shutdown) /\ g.state # "none"
  BY <1>3, Telling
<1>4. CASE h = Told(Cancelled(g), Shutdown) /\ g.state # "none"
  <2>1. Cancelled(g) \in EngineRecord /\ Channel(e, Cancelled(g)) /\ Cancelled(g).state # "none"
    BY <1>4, Cancelling
  <2> QED
    BY <1>4, <2>1, Telling
<1> QED
  BY <1>1, <1>2, <1>3, <1>4

\* A step may make an engine safe, and leaves a safe one safe unless it sends a turn to it.
LEMMA Moves ==
  ASSUME IInv, TypeOK', Next, ~ Dies, NEW e \in Engine,
         ~ \E c \in Call : claim_turn(c) /\ call[c].handle = e
  PROVE  Channel(e, engine'[e]) /\ (Safe(engine[e]) => Safe(engine'[e]))
<1> USE DEF IInv
<1> DEFINE g == engine[e]  h == engine'[e]
           Good == Channel(e, h) /\ (Safe(g) => Safe(h))
<1>0. g \in EngineRecord /\ h \in EngineRecord /\ Channel(e, g) /\ engine \in [Engine -> EngineRecord]
  BY DEF TypeOK, Channels
<1>a. Held(e) => g.state # "none"
  BY DEF Separate
<1> HIDE DEF Good
<1>5. ASSUME NEW f \in Handle, engine' = Cancel(engine, f) PROVE h = g \/ h = Cancelled(g)
  <2>1. CASE f = e
    BY <1>0, <1>5, <2>1, CancelIs DEF h
  <2>2. CASE f # e
    BY <1>0, <1>5, <2>2 DEF Cancel, h
  <2> QED
    BY <2>1, <2>2
<1>6. ASSUME NEW f \in Handle, engine' = Sent(engine, f, Shutdown) PROVE h = g \/ (h = Told(g, Shutdown) /\ f = e)
  <2>1. CASE f = e
    <3>1. engine' = [engine EXCEPT ![e] = Told(engine[e], Shutdown)]
      BY <1>0, <1>6, <2>1, SentIs
    <3> QED
      BY <1>0, <2>1, <3>1 DEF h
  <2>2. CASE f # e
    BY <1>0, <1>6, <2>2 DEF Sent, h
  <2> QED
    BY <2>1, <2>2
<1>7. ASSUME NEW f \in Handle, engine' = Stopped(engine, f) PROVE h = g \/ (h = Told(Cancelled(g), Shutdown) /\ f = e)
  <2>1. CASE f = e
    BY <1>0, <1>7, <2>1, StoppedIs DEF h
  <2>2. CASE f # e
    BY <1>0, <1>7, <2>2 DEF Stopped, Cancel, Sent, h
  <2> QED
    BY <2>1, <2>2
<1> HIDE DEF g, h
<1>q. \/ h = g \/ h = Cancelled(g)
      \/ (h = Told(g, Shutdown) /\ Held(e)) \/ (h = Told(Cancelled(g), Shutdown) /\ Held(e))
      => Good
  BY <1>0, <1>a, OneMove DEF Good
<1>8. ASSUME NEW c \in Call, CallNext(c) PROVE Good
  <2>0. /\ call[c].handle \in Handle /\ call[c].victim \in Handle
        /\ call[c].handle = e \/ call[c].victim = e => Held(e)
    BY DEF TypeOK, CallRecord, Held
  <2>1. CASE engine_stale(c)
    BY <1>7, <1>q, <2>0, <2>1 DEF engine_stale
  <2>2. CASE engine_evict(c)
    BY <1>6, <1>q, <2>0, <2>2 DEF engine_evict
  <2>3. CASE claim_turn(c)
    <3>1. call[c].handle # e
      BY <2>3
    <3>2. h = g
      BY <1>0, <2>3, <3>1 DEF claim_turn, Sent, g, h
    <3> QED
      BY <1>q, <3>2
  <2>4. ASSUME NEW f \in Engine, engine_build(c, f) PROVE Good
    <3>1. CASE f = e
      <4>1. h = [Unspawned EXCEPT !.state = "idle"]
        BY <1>0, <2>4, <3>1 DEF engine_build, Spawned, h
      <4> QED
        BY <4>1 DEF Good, Channel, Safe, Clean, Unspawned
    <3>2. CASE f # e
      BY <1>0, <1>q, <2>4, <3>2 DEF engine_build, Spawned, g, h
    <3> QED
      BY <3>1, <3>2
  <2>5. CASE UNCHANGED engine
    BY <1>q, <2>5 DEF g, h
  <2> QED
    BY <1>8, <2>1, <2>2, <2>3, <2>4, <2>5 DEF CallNext, begin, engine_hit, engine_publish, reserve_owned,
       claim_refused, persist_failed, dropped, crash_in_claim
<1>9. ASSUME NEW f \in Engine, EngineNext(f) \/ engine_dies(f) PROVE Good
  <2>1. CASE f # e
    <3>1. h = g
      BY <1>0, <1>9, <2>1 DEF EngineNext, engine_next, engine_finish, engine_dies, g, h
    <3> QED
      BY <1>q, <3>1
  <2>2. CASE f = e /\ engine_next(f) /\ h.state = "gone"
    <3>1. h.ops = <<>> /\ h.events = g.events /\ h.cancelled = g.cancelled /\ g.state = "idle"
      BY <1>0, <2>2 DEF engine_next, g, h, EngineRecord
    <3>2. Len(h.events) <= 1 /\ ~ h.cancelled
      BY <1>0, <3>1 DEF Channel
    <3> QED
      BY <2>2, <3>1, <3>2 DEF Good, Channel, Safe
  <2>3. CASE f = e /\ engine_next(f) /\ h.state # "gone"
    <3>1. /\ g.ops # <<>> /\ Head(g.ops) # Shutdown /\ g.state = "idle"
          /\ h = [g EXCEPT !.state = "busy", !.running = Head(g.ops), !.ops = Tail(g.ops)]
      BY <1>0, <2>3 DEF engine_next, g, h, EngineRecord
    <3> QED
      BY <1>0, <3>1, Taking DEF Good
  <2>4. CASE f = e /\ engine_finish(f)
    <3>1. /\ g.state = "busy"
          /\ h = [Unspawned EXCEPT !.state = "idle", !.ops = g.ops, !.events = Append(g.events, g.running)]
      BY <1>0, <2>4 DEF engine_finish, g, h
    <3> QED
      BY <1>0, <3>1, Finishing DEF Good
  <2>5. CASE f = e /\ engine_dies(f)
    <3>1. h = [Unspawned EXCEPT !.state = "gone"]
      BY <1>0, <2>5 DEF engine_dies, g, h
    <3>2. h.state = "gone" /\ h.ops = <<>> /\ h.events = <<>> /\ ~ h.cancelled /\ Len(h.events) <= 1
      BY <3>1 DEF Unspawned
    <3> QED
      BY <3>2 DEF Good, Channel, Safe
  <2> QED
    BY <1>9, <2>1, <2>2, <2>3, <2>4, <2>5 DEF EngineNext
<1>10. ASSUME NEW t \in Turn, MonitorNext(t) \/ monitor_fails(t) PROVE Good
  <2>0. monitor[t].engine \in Handle
    BY DEF TypeOK, MonitorRecord
  <2>1. CASE on_turn_complete(t)
    <3>1. CASE monitor[t].engine = e
      <4>1. g.events # <<>> /\ h = [g EXCEPT !.events = Tail(g.events)]
        BY <1>0, <2>1, <3>1 DEF on_turn_complete, g, h
      <4> QED
        BY <1>0, <4>1, Reading DEF Good
    <3>2. CASE monitor[t].engine # e
      <4>1. h = g
        BY <1>0, <2>1, <3>2 DEF on_turn_complete, g, h
      <4> QED
        BY <1>q, <4>1
    <3> QED
      BY <3>1, <3>2
  <2>2. CASE settle(t)
    BY <1>5, <1>q, <2>0, <2>2 DEF settle
  <2>3. CASE settle_evict(t)
    <3>1. CASE Owns(t)
      <4>1. turns[t].thread \in Thread
        BY <2>3 DEF settle_evict, At, Claimed, Live
      <4>2. /\ active[turns[t].thread].engine \in Handle
            /\ active[turns[t].thread].engine = e => Held(e)
        BY <4>1 DEF TypeOK, ActiveRecord, Held
      <4> QED
        BY <1>7, <1>q, <2>3, <3>1, <4>2 DEF settle_evict
    <3>2. CASE ~ Owns(t)
      BY <1>q, <2>3, <3>2 DEF settle_evict, g, h
    <3> QED
      BY <3>1, <3>2
  <2>4. CASE UNCHANGED engine
    BY <1>q, <2>4 DEF g, h
  <2> QED
    BY <1>10, <2>1, <2>2, <2>3, <2>4 DEF MonitorNext, on_closed, save_turn, release_claim, monitor_fails
<1>11. ASSUME NEW th \in Thread, interrupt_turn(th) \/ update_thread(th) PROVE Good
  <2>1. active[th].engine \in Handle /\ (active[th].engine = e => Held(e))
    BY DEF TypeOK, ActiveRecord, Held
  <2>2. CASE interrupt_turn(th)
    BY <1>5, <1>q, <2>1, <2>2 DEF interrupt_turn
  <2>3. CASE update_thread(th)
    <3>1. CASE UNCHANGED engine
      BY <1>q, <3>1 DEF g, h
    <3>2. CASE engine' = Sent(engine, active[th].engine, Shutdown)
      BY <1>6, <1>q, <2>1, <3>2
    <3> QED
      BY <2>3, <3>1, <3>2 DEF update_thread
  <2> QED
    BY <1>11, <2>2, <2>3
<1>12. ASSUME recover_interrupted_state PROVE Good
  <2>1. h = g
    BY <1>12 DEF recover_interrupted_state, g, h
  <2> QED
    BY <1>q, <2>1
<1>13. Good
  BY <1>8, <1>9, <1>10, <1>11, <1>12 DEF Next, crash
<1> QED
  BY <1>13 DEF Good, g, h

--------------------------------------------------------------------------------
(* Channels.                                                              *)

\* The engine g runs the turn t, or is about to take it.
Refers(g, t) ==
  \/ g.state = "busy" /\ ~ g.cancelled /\ g.running = t
  \/ g.ops # <<>> /\ g.ops[1] = t

\* The channel of an engine depends only on the monitors of the turns it refers to.
LEMMA ChannelFrame ==
  ASSUME NEW e \in Engine, NEW g \in EngineRecord, Channel(e, g),
         \A t \in Turn : Refers(g, t) =>
           /\ monitor'[t].engine = monitor[t].engine
           /\ \/ monitor'[t].pc = monitor[t].pc
              \/ /\ monitor[t].pc = "recv" /\ monitor'[t].pc = "settle"
                 /\ ~ (g.ops # <<>> /\ g.ops[1] = t)
  PROVE  Channel(e, g)'
<1>1. g.ops # <<>> /\ g.ops[1] # Shutdown => g.ops[1] \in Turn
  BY DEF EngineRecord, TurnOrNone, Shutdown, NoTurn
<1>2. /\ g.state = "busy" /\ ~ g.cancelled => Refers(g, g.running)
      /\ g.ops # <<>> => Refers(g, g.ops[1])
  BY DEF Refers
<1>3. g.state = "busy" => g.running \in Turn
  BY DEF Channel
<1>4. g.state = "busy" /\ ~ g.cancelled =>
       monitor'[g.running].pc \in {"recv", "settle"} /\ monitor'[g.running].engine = e
  BY <1>2, <1>3 DEF Channel
<1>5. g.ops # <<>> /\ g.ops[1] # Shutdown =>
       monitor'[g.ops[1]].pc = "recv" /\ monitor'[g.ops[1]].engine = e
  BY <1>1, <1>2 DEF Channel
<1> QED
  BY <1>4, <1>5 DEF Channel

\* The turn that an engine refers to has a monitor that waits for it there.
LEMMA Referring ==
  ASSUME NEW e \in Engine, NEW g \in EngineRecord, Channel(e, g), NEW t \in Turn, Refers(g, t)
  PROVE  /\ monitor[t].engine = e /\ monitor[t].pc \in {"recv", "settle"}
         /\ g.state \in {"busy", "idle"}
         /\ g.ops # <<>> /\ g.ops[1] = t => monitor[t].pc = "recv"
<1>1. t # Shutdown
  BY DEF Turn, Shutdown
<1> QED
  BY <1>1 DEF Channel, Refers

\* After the end of the process no engine runs.
LEMMA ChannelsDies ==
  ASSUME Dies PROVE Channels'
<1>1. engine' = [e \in Engine |-> Unspawned]
  BY DEF Dies
<1> SUFFICES ASSUME NEW e \in Engine PROVE Channel(e, engine[e])'
  BY DEF Channels
<1>2. engine'[e] = Unspawned
  BY <1>1
<1>3. Len(Unspawned.events) = 0 /\ Len(Unspawned.ops) = 0
  BY DEF Unspawned
<1> QED
  BY <1>2, <1>3 DEF Channel, Unspawned

\* Every step keeps the channels: a monitor leaves its engine only when the engine no longer
\* refers to its turn.
LEMMA ChannelsStep ==
  ASSUME IInv, TypeOK', Next
  PROVE  Channels'
<1> USE DEF IInv
<1>1. CASE Dies
  BY <1>1, ChannelsDies
<1>2. ASSUME ~ Dies PROVE Channels'
  <2> SUFFICES ASSUME NEW e \in Engine PROVE Channel(e, engine[e])'
    BY DEF Channels
  <2> SUFFICES ASSUME NEW g, g = engine[e], NEW h, h = engine'[e] PROVE Channel(e, h)'
    BY DEF Channel
  <2>0. g \in EngineRecord /\ h \in EngineRecord /\ Channel(e, g)
        /\ engine \in [Engine -> EngineRecord] /\ monitor \in [Turn -> MonitorRecord]
    BY DEF TypeOK, Channels
  <2>1. CASE \E c \in Call : claim_turn(c) /\ call[c].handle = e
    <3>1. PICK c \in Call : claim_turn(c) /\ call[c].handle = e
      BY <2>1
    <3>a. PICK t \in Turn, f \in Engine, th \in Thread : Claims(c, t, f, th)
      BY <3>1, ClaimFinds
    <3>2. /\ monitor[t].pc = "none" /\ Safe(g) /\ g.state # "none"
          /\ engine' = [engine EXCEPT ![e] = Told(g, t)]
          /\ monitor'[t].pc = "recv" /\ monitor'[t].engine = e
          /\ \A u \in Turn : u # t => monitor'[u] = monitor[u]
      BY <3>1, <3>a DEF Claims
    <3>3. h = Told(g, t)
      BY <2>0, <3>2
    <3>4. Channel(e, Told(g, t))'
      BY <2>0, <3>2, Claiming
    <3> QED
      BY <3>3, <3>4
  <2>2. ASSUME ~ \E c \in Call : claim_turn(c) /\ call[c].handle = e
        PROVE  Channel(e, h)'
    <3>1. Channel(e, h)
      BY <1>2, <2>2, Moves
    <3>2. SUFFICES ASSUME NEW t \in Turn, Refers(h, t)
                   PROVE  /\ monitor'[t].engine = monitor[t].engine
                          /\ \/ monitor'[t].pc = monitor[t].pc
                             \/ /\ monitor[t].pc = "recv" /\ monitor'[t].pc = "settle"
                                /\ ~ (h.ops # <<>> /\ h.ops[1] = t)
      BY <2>0, <3>1, ChannelFrame
    <3>3. /\ monitor[t].engine = e /\ monitor[t].pc \in {"recv", "settle"}
          /\ h.state \in {"busy", "idle"}
          /\ h.ops # <<>> /\ h.ops[1] = t => monitor[t].pc = "recv"
      BY <2>0, <3>1, <3>2, Referring
    <3>4. CASE UNCHANGED monitor
      BY <3>4
    <3>5. ASSUME NEW c \in Call, claim_turn(c) PROVE monitor'[t] = monitor[t]
      <4>1. \E w \in Turn : monitor[w].pc = "none" /\ \A u \in Turn : u # w => monitor'[u] = monitor[u]
        BY <3>5, ClaimFinds, Zenon DEF Claims
      <4> QED
        BY <3>3, <4>1
    <3>6. ASSUME NEW c \in Call, CallNext(c) PROVE monitor'[t] = monitor[t]
      <4>1. CASE claim_turn(c)
        BY <4>1, <3>5
      <4>2. CASE crash_in_claim(c)
        BY <1>2, <4>2 DEF crash_in_claim
      <4> QED
        BY <3>6, <4>1, <4>2 DEF CallNext, begin, engine_hit, engine_build, engine_stale, engine_publish,
           engine_evict, reserve_owned, claim_refused, persist_failed, dropped
    <3>7. ASSUME NEW f \in Engine, EngineNext(f) \/ engine_dies(f) PROVE monitor' = monitor
      BY <3>7 DEF EngineNext, engine_next, engine_finish, engine_dies
    <3>8. ASSUME NEW u \in Turn, MonitorNext(u) \/ monitor_fails(u)
          PROVE  \/ monitor'[t] = monitor[t]
                 \/ /\ monitor_fails(u) /\ t = u /\ At(u, "recv") /\ ~ Contains(engine[e].ops, t)
                    /\ monitor'[t].engine = monitor[t].engine /\ monitor'[t].pc = "settle"
                    /\ engine' = engine
      <4>1. CASE u # t
        BY <2>0, <3>8, <4>1 DEF MonitorNext, on_turn_complete, on_closed, save_turn, release_claim, settle,
           settle_evict, monitor_fails, Step, Finish
      <4>2. ASSUME u = t, on_turn_complete(u) PROVE FALSE
        <5>1. g.events # <<>> /\ h = [g EXCEPT !.events = Tail(g.events)]
          BY <2>0, <3>3, <4>2 DEF on_turn_complete
        <5>2. /\ h.state = g.state /\ g.state \in {"idle", "gone"} /\ h.ops = g.ops
              /\ (g.ops # <<>> => g.ops[1] = Shutdown)
          BY <2>0, <5>1, Reading DEF EngineRecord
        <5> QED
          BY <3>2, <5>2 DEF Refers, Turn, Shutdown
      <4>3. ASSUME u = t, on_closed(u) PROVE FALSE
        BY <3>3, <4>3 DEF on_closed
      <4>4. ASSUME u = t, settle(u) PROVE FALSE
        <5>1. h = Cancelled(g) /\ monitor[t].pc = "settle"
          BY <2>0, <3>3, <4>4, CancelIs DEF settle, At
        <5>2. h.cancelled = (h.state = "busy")
          BY <2>0, <5>1 DEF Cancelled, EngineRecord
        <5> QED
          BY <3>2, <3>3, <5>1, <5>2 DEF Refers
      <4>5. ASSUME u = t, save_turn(u) \/ release_claim(u) \/ settle_evict(u) PROVE FALSE
        BY <3>3, <4>5 DEF save_turn, release_claim, settle_evict, At
      <4>6. ASSUME u = t, monitor_fails(u)
            PROVE /\ At(u, "recv") /\ ~ Contains(engine[e].ops, t)
                  /\ monitor'[t].engine = monitor[t].engine /\ monitor'[t].pc = "settle"
                  /\ engine' = engine
        BY <2>0, <3>3, <4>6 DEF monitor_fails, At, Step
      <4> QED
        BY <3>8, <4>1, <4>2, <4>3, <4>4, <4>5, <4>6 DEF MonitorNext
    <3>9. ASSUME NEW u \in Turn, MonitorNext(u) \/ monitor_fails(u)
          PROVE  /\ monitor'[t].engine = monitor[t].engine
                 /\ \/ monitor'[t].pc = monitor[t].pc
                    \/ /\ monitor[t].pc = "recv" /\ monitor'[t].pc = "settle"
                       /\ ~ (h.ops # <<>> /\ h.ops[1] = t)
      <4>1. CASE monitor'[t] = monitor[t]
        BY <4>1
      <4>2. CASE /\ monitor_fails(u) /\ t = u /\ At(u, "recv") /\ ~ Contains(engine[e].ops, t)
                 /\ monitor'[t].engine = monitor[t].engine /\ monitor'[t].pc = "settle"
                 /\ engine' = engine
        <5>1. g.ops \in Seq(TurnOrNone) /\ h = g
          BY <2>0, <4>2 DEF EngineRecord
        <5>2. ~ (g.ops # <<>> /\ g.ops[1] = t)
          <6> DEFINE a == g.ops
          <6>1. a \in Seq(TurnOrNone) /\ ~ Contains(a, t)
            BY <5>1, <4>2
          <6> HIDE DEF a
          <6>2. a # <<>> => 1 \in 1..Len(a)
            BY <6>1
          <6> QED
            BY <6>1, <6>2 DEF a, Contains
        <5> QED
          BY <4>2, <5>1, <5>2 DEF At
      <4> QED
        BY <3>8, <3>9, <4>1, <4>2
    <3>10. ASSUME NEW th \in Thread, interrupt_turn(th) \/ update_thread(th) PROVE monitor' = monitor
      BY <3>10 DEF interrupt_turn, update_thread
    <3>11. ASSUME recover_interrupted_state PROVE monitor' = monitor
      BY <3>11 DEF recover_interrupted_state
    <3> QED
      BY <1>2, <3>4, <3>6, <3>7, <3>9, <3>10, <3>11 DEF Next, crash
  <2> QED
    BY <2>1, <2>2
<1> QED
  BY <1>1, <1>2

--------------------------------------------------------------------------------
(* What is in reach of a claim.                                           *)

\* A call d keeps its place behind the publication.
SameReach(d) ==
  /\ call'[d].thread = call[d].thread /\ call'[d].snap = call[d].snap
  /\ call'[d].handle = call[d].handle
  /\ call'[d].pc = "publish" => call[d].pc = "publish"
  /\ call'[d].pc \in {"evict", "check", "claim"} => call[d].pc \in {"evict", "check", "claim"}
  /\ call'[d].pc # "idle" => call[d].pc # "idle"

RunsOnThen(th, e) == \E t \in Turn : active'[th].turn = t /\ monitor'[t].engine = e

\* A step that sends no turn keeps the engines in reach safe.
LEMMA ReachedFrame ==
  ASSUME IInv,
         \A e \in Engine : Safe(engine[e]) => Safe(engine'[e]),
         \A th \in Thread : /\ active'[th].engine \in Handle
                            /\ \/ active'[th].engine \in {NoEngine, active[th].engine}
                               \/ Safe(engine'[active'[th].engine]),
         \A th \in Thread, e \in Engine : RunsOn(th, e) /\ active[th].engine = e =>
           \/ Safe(engine'[e])
           \/ RunsOnThen(th, e) /\ active'[th].engine = e,
         \A d \in Call : CallReached(d)' \/ SameReach(d),
         \A th \in Thread, d \in Call :
           call[d].pc # "idle" /\ threads'[th] = call[d].snap /\ call[d].thread = th => threads[th] = call[d].snap,
         \A t \in Turn : monitor'[t].pc \in {"save", "release"} =>
           \/ Safe(engine'[monitor'[t].engine])
           \/ monitor[t].pc \in {"save", "release"} /\ monitor'[t].engine = monitor[t].engine
  PROVE  Reached'
<1> USE DEF IInv
<1>1. ASSUME NEW th \in Thread, active'[th].engine # NoEngine
      PROVE  Safe(engine'[active'[th].engine]) \/ RunsOnThen(th, active'[th].engine)
  <2> DEFINE e == active'[th].engine
  <2>1. e \in Engine
    BY <1>1 DEF Handle
  <2>2. CASE e = active[th].engine
    <3>1. Safe(engine[e]) \/ RunsOn(th, e)
      BY <1>1, <2>2 DEF Reached, Loaded
    <3>2. CASE Safe(engine[e])
      BY <2>1, <3>2
    <3>3. CASE RunsOn(th, e)
      <4>1. Safe(engine'[e]) \/ RunsOnThen(th, e)
        BY <2>1, <2>2, <3>3
      <4> QED
        BY <4>1
    <3> QED
      BY <3>1, <3>2, <3>3
  <2> QED
    BY <1>1, <2>2
<1>2. ASSUME NEW d \in Call PROVE CallReached(d)'
  <2>1. CASE CallReached(d)'
    BY <2>1
  <2>2. CASE SameReach(d)
    <3> DEFINE e == call[d].handle  th == call[d].thread
    <3>1. ASSUME call'[d].pc = "publish" PROVE Safe(engine'[call'[d].handle])
      <4>1. call[d].pc = "publish" /\ e \in Engine /\ call'[d].handle = e
        BY <2>2, <3>1 DEF SameReach, Calling, CallHolds, TypeOK, CallRecord, Handle
      <4>2. Safe(engine[e])
        BY <4>1 DEF Reached, CallReached
      <4> QED
        BY <4>1, <4>2
    <3>2. ASSUME call'[d].pc \in {"evict", "check", "claim"}, threads'[call'[d].thread] = call'[d].snap
          PROVE  \/ Safe(engine'[call'[d].handle])
                 \/ RunsOnThen(call'[d].thread, call'[d].handle) /\ active'[call'[d].thread].engine = call'[d].handle
      <4>1. /\ call[d].pc \in {"evict", "check", "claim"} /\ e \in Engine /\ call'[d].handle = e
            /\ th \in Thread /\ call'[d].thread = th /\ call'[d].snap = call[d].snap
        BY <2>2, <3>2 DEF SameReach, Calling, CallHolds, TypeOK, CallRecord, Handle
      <4>2. threads[th] = call[d].snap
        BY <3>2, <4>1
      <4>3. Safe(engine[e]) \/ (RunsOn(th, e) /\ active[th].engine = e)
        BY <4>1, <4>2 DEF Reached, CallReached
      <4>4. Safe(engine'[e]) \/ (RunsOnThen(th, e) /\ active'[th].engine = e)
        BY <4>1, <4>3
      <4> QED
        BY <4>1, <4>4
    <3> QED
      BY <3>1, <3>2 DEF CallReached, RunsOn, RunsOnThen
  <2> QED
    BY <2>1, <2>2
<1>3. ASSUME NEW t \in Turn, monitor'[t].pc \in {"save", "release"} PROVE Safe(engine'[monitor'[t].engine])
  <2>1. CASE monitor[t].pc \in {"save", "release"} /\ monitor'[t].engine = monitor[t].engine
    <3>1. Safe(engine[monitor[t].engine]) /\ monitor[t].engine \in Engine
      BY <2>1 DEF Reached, Claimed, Live
    <3> QED
      BY <2>1, <3>1
  <2> QED
    BY <1>3, <2>1
<1> QED
  BY <1>1, <1>2, <1>3 DEF Reached, Loaded, RunsOn, RunsOnThen

\* After the end of the process nothing is in reach.
LEMMA ReachedDies ==
  ASSUME Dies PROVE Reached'
<1>1. /\ \A th \in Thread : active'[th].engine = NoEngine
      /\ \A c \in Call : call'[c].pc = "idle"
      /\ \A t \in Turn : monitor'[t].pc = "none"
  BY DEF Dies, Unloaded, IdleCall, NoMonitor
<1> QED
  BY <1>1 DEF Reached, CallReached, Loaded

\* The claim sends a turn to an engine that nobody else can be about to use.
LEMMA ReachedClaim ==
  ASSUME IInv, TypeOK', NEW c \in Call, claim_turn(c) PROVE Reached'
<1> USE DEF IInv
<1>1. PICK t \in Turn, e \in Engine, th \in Thread : Claims(c, t, e, th)
  BY ClaimFinds
<1>2. /\ engine'[e] = Told(engine[e], t) /\ \A f \in Engine : f # e => engine'[f] = engine[f]
      /\ active'[th].turn = t /\ active'[th].engine = active[th].engine
      /\ \A x \in Thread : x # th => active'[x] = active[x] /\ threads'[x] = threads[x]
      /\ threads'[th].latest = t
      /\ call'[c] = IdleCall /\ \A d \in Call : d # c => call'[d] = call[d]
      /\ monitor'[t].pc = "recv" /\ monitor'[t].engine = e
      /\ \A u \in Turn : u # t => monitor'[u] = monitor[u]
      /\ HeldFor(e, th)
  BY <1>1 DEF Claims, TypeOK, ActiveRecord, ThreadRecord, HeldFor
<1>3. /\ monitor[t].pc = "none" /\ active[th].turn = NoTurn /\ Loaded(th) /\ turns[t].status = "Absent"
  BY <1>1 DEF Claims
<1>4. \A x \in Thread : HeldFor(e, x) => x = th
  BY <1>2 DEF Separate
<1>5. ASSUME NEW x \in Thread, x # th, NEW f \in Engine, RunsOn(x, f) PROVE RunsOnThen(x, f)
  BY <1>2, <1>3, <1>5 DEF RunsOn, RunsOnThen, Claimed, Live
<1>6. ~ \E f : RunsOn(th, f)
  BY <1>3 DEF RunsOn, Turn, NoTurn
<1>7. RunsOnThen(th, e)
  BY <1>2 DEF RunsOnThen
<1>8. ASSUME NEW x \in Thread, active'[x].engine # NoEngine
      PROVE  Safe(engine'[active'[x].engine]) \/ RunsOnThen(x, active'[x].engine)
  <2> DEFINE f == active[x].engine
  <2>1. f \in Engine /\ active'[x].engine = f
    BY <1>2, <1>8 DEF TypeOK, ActiveRecord, Handle
  <2>2. Safe(engine[f]) \/ RunsOn(x, f)
    BY <1>8, <2>1 DEF Reached, Loaded
  <2>3. f = e => x = th
    BY <1>4 DEF HeldFor
  <2> HIDE DEF f
  <2>4. CASE x = th
    BY <1>2, <1>6, <1>7, <2>1, <2>2, <2>4
  <2>5. CASE x # th
    BY <1>2, <1>5, <2>1, <2>2, <2>3, <2>5
  <2> QED
    BY <2>4, <2>5
<1>9. ASSUME NEW d \in Call PROVE CallReached(d)'
  <2>1. CASE d = c
    BY <1>2, <2>1 DEF CallReached, IdleCall
  <2>2. CASE d # c
    <3> DEFINE f == call[d].handle  x == call[d].thread
    <3>1. /\ call'[d] = call[d]
          /\ f = e => x = th
      <4>1. call[d].pc # "idle" => x \in Thread
        BY DEF Calling, CallHolds
      <4>2. f = e => call[d].pc # "idle"
        BY DEF Calling, CallHolds, NoEngine, Engine
      <4> QED
        BY <1>2, <1>4, <2>2, <4>1, <4>2 DEF HeldFor
    <3>2. ASSUME call[d].pc = "publish" PROVE Safe(engine'[f])
      <4>1. f \in Engine /\ Safe(engine[f]) /\ ~ Loaded(x)
        BY <3>2 DEF Calling, CallHolds, TypeOK, CallRecord, Handle, Reached, CallReached
      <4> QED
        BY <1>2, <1>3, <3>1, <4>1
    <3>3. ASSUME call[d].pc \in {"evict", "check", "claim"}, threads'[x] = call[d].snap
          PROVE  Safe(engine'[f]) \/ (RunsOnThen(x, f) /\ active'[x].engine = f)
      <4>1. /\ f \in Engine /\ x \in Thread
            /\ \A u \in Turn : call[d].snap.latest = u => turns[u].status # "Absent"
        BY <3>3 DEF Calling, CallHolds, TypeOK, CallRecord, Handle
      <4>2. x # th
        BY <1>2, <1>3, <3>3, <4>1
      <4>3. Safe(engine[f]) \/ (RunsOn(x, f) /\ active[x].engine = f)
        BY <1>2, <3>3, <4>1, <4>2 DEF Reached, CallReached
      <4> QED
        BY <1>2, <1>5, <3>1, <4>1, <4>2, <4>3
    <3> QED
      BY <3>1, <3>2, <3>3 DEF CallReached, RunsOn, RunsOnThen
  <2> QED
    BY <2>1, <2>2
<1>10. ASSUME NEW u \in Turn, monitor'[u].pc \in {"save", "release"} PROVE Safe(engine'[monitor'[u].engine])
  <2>1. u # t /\ monitor'[u] = monitor[u]
    BY <1>2, <1>10
  <2> DEFINE f == monitor[u].engine  x == turns[u].thread
  <2>2. f \in Engine /\ x \in Thread /\ active[x].turn = u /\ Safe(engine[f])
    BY <1>10, <2>1 DEF Reached, Claimed, Live
  <2>3. x # th
    BY <1>3, <2>2 DEF Turn, NoTurn
  <2>4. f # e
    BY <1>4, <2>2, <2>3 DEF HeldFor
  <2> QED
    BY <1>2, <2>1, <2>2, <2>4
<1> QED
  BY <1>8, <1>9, <1>10 DEF Reached, Loaded, RunsOn, RunsOnThen

\* What holds of every step but the claim and the end of the process.
LEMMA SafeStep ==
  ASSUME IInv, TypeOK', Next, ~ Dies, ~ \E c \in Call : claim_turn(c)
  PROVE  \A e \in Engine : Safe(engine[e]) => Safe(engine'[e])
BY Moves

\* Nothing but a call in progress changes.
LEMMA ReachedCall ==
  ASSUME IInv, TypeOK', Next, ~ Dies, ~ \E c \in Call : claim_turn(c),
         NEW c \in Call, CallReached(c)' \/ SameReach(c),
         \A d \in Call : d # c => call'[d] = call[d],
         UNCHANGED <<threads, active, monitor>>
  PROVE  Reached'
<1>1. \A e \in Engine : Safe(engine[e]) => Safe(engine'[e])
  BY SafeStep
<1>2. \A th \in Thread, e \in Engine : RunsOn(th, e) => RunsOnThen(th, e)
  BY DEF RunsOn, RunsOnThen
<1>3. \A d \in Call : CallReached(d)' \/ SameReach(d)
  BY DEF SameReach
<1>4. \A th \in Thread : active'[th].engine \in Handle
  BY DEF TypeOK, ActiveRecord
<1> QED
  BY <1>1, <1>2, <1>3, <1>4, ReachedFrame

\* A publication puts a safe engine into the map; what it evicts has no turn.
LEMMA ReachedPublish ==
  ASSUME IInv, TypeOK', Next, ~ Dies, ~ \E c \in Call : claim_turn(c),
         NEW c \in Call, engine_publish(c)
  PROVE  Reached'
<1> USE DEF IInv
<1> DEFINE th == call[c].thread  e == call[c].handle  i == enforce_lru_capacity
<1>1. th \in Thread /\ ~ Loaded(th) /\ e \in Engine /\ Safe(engine[e]) /\ call[c].pc = "publish"
  BY DEF engine_publish, Calling, CallHolds, TypeOK, CallRecord, Handle, Reached, CallReached
<1>2. i # 0 => i \in DOMAIN lru /\ active[lru[i]].turn = NoTurn
  BY EvictIndexIs DEF TypeOK
<1>3. active' = [x \in Thread |->
         IF x = th THEN [Unloaded EXCEPT !.engine = e]
         ELSE IF i > 0 /\ x = lru[i] THEN Unloaded ELSE active[x]]
  BY DEF engine_publish
<1> HIDE DEF i
<1>a. i > 0 => i # 0
  OBVIOUS
<1>b. /\ active'[th].engine = e
      /\ \A x \in Thread : x # th => active'[x] = active[x] \/ (active[x].turn = NoTurn /\ active'[x].engine = NoEngine)
  BY <1>1, <1>2, <1>3, <1>a DEF Unloaded
<1>4. \A x \in Thread : /\ active'[x].engine \in Handle
                        /\ \/ active'[x].engine \in {NoEngine, active[x].engine}
                           \/ Safe(engine'[active'[x].engine])
  BY <1>1, <1>b, SafeStep DEF TypeOK, ActiveRecord
<1>5. ASSUME NEW x \in Thread, NEW f \in Engine, RunsOn(x, f), active[x].engine = f
      PROVE  RunsOnThen(x, f) /\ active'[x].engine = f
  <2>1. x # th /\ active[x].turn # NoTurn
    BY <1>1, <1>5 DEF RunsOn, Loaded, Engine, NoEngine, Turn, NoTurn
  <2>2. active'[x] = active[x] /\ monitor' = monitor
    BY <1>b, <2>1 DEF engine_publish
  <2> QED
    BY <1>5, <2>2 DEF RunsOn, RunsOnThen
<1>6. CallReached(c)'
  <2>1. call'[c].handle = e
    BY DEF engine_publish, TypeOK, CallRecord
  <2>2. Safe(engine'[e])
    BY <1>1, SafeStep
  <2> QED
    BY <2>1, <2>2 DEF CallReached
<1>7. \A d \in Call : CallReached(d)' \/ SameReach(d)
  BY <1>6 DEF engine_publish, SameReach, TypeOK
<1>8. UNCHANGED <<threads, monitor>>
  BY DEF engine_publish, files
<1> QED
  BY <1>4, <1>5, <1>7, <1>8, SafeStep, ReachedFrame

\* What is in reach: the steps of a call but the claim.
LEMMA ReachedCalls ==
  ASSUME IInv, TypeOK', ~ Dies, ~ \E c \in Call : claim_turn(c),
         NEW c \in Call, CallNext(c)
  PROVE  Reached'
<1> USE DEF IInv
<1>0. Next
  BY DEF Next
<1>1. call \in [Call -> CallRecord] /\ engine \in [Engine -> EngineRecord]
  BY DEF TypeOK
<1>2. ASSUME Return(c) PROVE CallReached(c)' /\ \A d \in Call : d # c => call'[d] = call[d]
  <2>1. call'[c].pc = "idle" /\ \A d \in Call : d # c => call'[d] = call[d]
    BY <1>1, <1>2 DEF Return, IdleCall
  <2> QED
    BY <2>1 DEF CallReached
<1>3. CASE \E th \in Thread : begin(c, th)
  <2>1. call'[c].pc = "load" /\ (\A d \in Call : d # c => call'[d] = call[d]) /\ UNCHANGED <<threads, active, monitor>>
    BY <1>1, <1>3 DEF begin, IdleCall, files, memory
  <2>2. CallReached(c)'
    BY <2>1 DEF CallReached
  <2> QED
    BY <1>0, <2>1, <2>2, ReachedCall
<1>4. CASE engine_hit(c)
  <2> DEFINE th == call[c].thread  e == active[th].engine
  <2>1. /\ th \in Thread /\ e \in Engine /\ Loaded(th)
    BY <1>4 DEF engine_hit, Calling, CallHolds, TypeOK, ActiveRecord, Handle, Loaded
  <2>2. /\ call'[c].handle = e /\ call'[c].pc = "check" /\ call'[c].thread = th
        /\ \A d \in Call : d # c => call'[d] = call[d]
        /\ UNCHANGED <<threads, active, monitor, engine>>
    BY <1>1, <1>4 DEF engine_hit, CallRecord, files
  <2>3. Safe(engine[e]) \/ RunsOn(th, e)
    BY <2>1 DEF Reached
  <2>a. RunsOn(th, e) <=> RunsOnThen(th, e)
    BY <2>2 DEF RunsOn, RunsOnThen
  <2>4. CallReached(c)'
    BY <2>2, <2>3, <2>a DEF CallReached, RunsOn, RunsOnThen
  <2> QED
    BY <1>0, <2>2, <2>4, ReachedCall
<1>5. ASSUME NEW f \in Engine, engine_build(c, f) PROVE Reached'
  <2>1. /\ call'[c].handle = f /\ call'[c].pc = "publish"
        /\ \A d \in Call : d # c => call'[d] = call[d]
        /\ UNCHANGED <<threads, active, monitor>>
    BY <1>1, <1>5 DEF engine_build, CallRecord, files
  <2>2. engine'[f] = [Unspawned EXCEPT !.state = "idle"]
    BY <1>1, <1>5 DEF engine_build, Spawned
  <2>3. Safe(engine'[f])
    BY <2>2 DEF Safe, Clean, Unspawned
  <2>4. CallReached(c)'
    BY <2>1, <2>3 DEF CallReached
  <2> QED
    BY <1>0, <2>1, <2>4, ReachedCall
<1>6. CASE engine_stale(c)
  <2>1. /\ call'[c].pc = "rebuild"
        /\ \A d \in Call : d # c => call'[d] = call[d]
        /\ UNCHANGED <<threads, active, monitor>>
    BY <1>1, <1>6 DEF engine_stale, CallRecord, files, memory
  <2>2. CallReached(c)'
    BY <2>1 DEF CallReached
  <2> QED
    BY <1>0, <2>1, <2>2, ReachedCall
<1>7. CASE engine_publish(c)
  BY <1>0, <1>7, ReachedPublish
<1>8. CASE engine_evict(c)
  <2>1. /\ SameReach(c)
        /\ \A d \in Call : d # c => call'[d] = call[d]
        /\ UNCHANGED <<threads, active, monitor>>
    BY <1>1, <1>8 DEF engine_evict, CallRecord, files, SameReach
  <2> QED
    BY <1>0, <2>1, ReachedCall
<1>9. CASE reserve_owned(c)
  <2>1. UNCHANGED <<threads, active, monitor>>
    BY <1>9 DEF reserve_owned, files, memory
  <2>2. CASE Return(c)
    BY <1>0, <1>2, <2>1, <2>2, ReachedCall
  <2>3. CASE call' = [call EXCEPT ![c].pc = "claim"]
    <3>1. SameReach(c) /\ \A d \in Call : d # c => call'[d] = call[d]
      BY <1>1, <1>9, <2>3 DEF reserve_owned, SameReach, CallRecord
    <3> QED
      BY <1>0, <2>1, <3>1, ReachedCall
  <2> QED
    BY <1>9, <2>2, <2>3 DEF reserve_owned
<1>10. CASE claim_refused(c) \/ persist_failed(c) \/ dropped(c)
  <2>1. UNCHANGED <<threads, active, monitor>> /\ Return(c)
    BY <1>10 DEF claim_refused, persist_failed, dropped, files, memory
  <2> QED
    BY <1>0, <1>2, <2>1, ReachedCall
<1>11. CASE crash_in_claim(c)
  BY <1>11 DEF crash_in_claim
<1> QED
  BY <1>3, <1>4, <1>5, <1>6, <1>7, <1>8, <1>9, <1>10, <1>11 DEF CallNext

\* A step of nobody's call: the calls stay, and a record only changes so that no
\* call takes it for what it has read.
LEMMA ReachedOther ==
  ASSUME IInv, TypeOK', Next, ~ Dies, ~ \E c \in Call : claim_turn(c), UNCHANGED call,
         \A th \in Thread : active'[th].engine \in {NoEngine, active[th].engine},
         \A th \in Thread, e \in Engine : RunsOn(th, e) /\ active[th].engine = e =>
           \/ Safe(engine'[e])
           \/ RunsOnThen(th, e) /\ active'[th].engine = e,
         \A th \in Thread : threads'[th] = threads[th] \/ threads'[th].settings > threads[th].settings,
         \A t \in Turn : monitor'[t].pc \in {"save", "release"} =>
           \/ Safe(engine'[monitor'[t].engine])
           \/ monitor[t].pc \in {"save", "release"} /\ monitor'[t].engine = monitor[t].engine
  PROVE  Reached'
<1>1. \A d \in Call : SameReach(d)
  BY DEF SameReach
<1>2. \A th \in Thread : active'[th].engine \in Handle
  BY DEF TypeOK, ActiveRecord
<1>3. ASSUME NEW th \in Thread, NEW d \in Call, call[d].pc # "idle", threads'[th] = call[d].snap,
             call[d].thread = th
      PROVE  threads[th] = call[d].snap
  <2>1. call[d].snap.settings <= threads[th].settings
    BY <1>3 DEF IInv, Calling, CallHolds
  <2>2. call[d].snap.settings \in Nat /\ threads[th].settings \in Nat
    BY DEF IInv, TypeOK, CallRecord, ThreadRecord
  <2>3. ~ (threads'[th].settings > threads[th].settings)
    BY <1>3, <2>1, <2>2
  <2> QED
    BY <1>3, <2>3
<1>4. \A e \in Engine : Safe(engine[e]) => Safe(engine'[e])
  BY SafeStep
<1> QED
  BY <1>1, <1>2, <1>3, <1>4, ReachedFrame

\* What is in reach: a monitor that leaves the claim leaves a safe engine, or takes it out of
\* the map.
LEMMA ReachedMonitors ==
  ASSUME IInv, TypeOK', ~ Dies, ~ \E c \in Call : claim_turn(c),
         NEW t \in Turn, MonitorNext(t) \/ monitor_fails(t)
  PROVE  Reached'
<1> USE DEF IInv
<1> DEFINE th == turns[t].thread  e == monitor[t].engine
<1>0. Next
  BY DEF Next
<1>1. /\ active \in [Thread -> ActiveRecord] /\ monitor \in [Turn -> MonitorRecord]
      /\ engine \in [Engine -> EngineRecord] /\ threads \in [Thread -> ThreadRecord]
  BY DEF TypeOK
<1>2. th \in Thread /\ active[th].turn = t /\ threads[th].latest = t /\ e \in Engine
  <2>1. Live(t)
    BY <1>1 DEF MonitorNext, on_turn_complete, on_closed, save_turn, release_claim, settle, settle_evict,
           monitor_fails, At, Live
  <2> QED
    BY <2>1 DEF Claimed
<1>3. \A u \in Turn : u # t => monitor'[u] = monitor[u]
  BY <1>1 DEF MonitorNext, on_turn_complete, on_closed, save_turn, release_claim, settle, settle_evict,
         monitor_fails, Step, Finish
<1>a. UNCHANGED call
  BY DEF MonitorNext, on_turn_complete, on_closed, save_turn, release_claim, settle, settle_evict, monitor_fails
\* The monitor only moves: the claim and the handles stay.
<1>4. ASSUME threads' = threads, monitor'[t].engine = e,
             \A x \in Thread : active'[x].turn = active[x].turn /\ active'[x].engine = active[x].engine,
             \/ monitor'[t].pc \notin {"save", "release"}
             \/ monitor[t].pc \in {"save", "release"}
             \/ Safe(engine'[e])
      PROVE  Reached'
  <2>1. \A u \in Turn : monitor'[u].engine = monitor[u].engine
    BY <1>3, <1>4
  <2>2. \A x \in Thread, f \in Engine : RunsOn(x, f) => RunsOnThen(x, f)
    BY <1>4, <2>1 DEF RunsOn, RunsOnThen
  <2>3. \A u \in Turn : monitor'[u].pc \in {"save", "release"} =>
           \/ Safe(engine'[monitor'[u].engine])
           \/ monitor[u].pc \in {"save", "release"} /\ monitor'[u].engine = monitor[u].engine
    BY <1>3, <1>4, <2>1
  <2> QED
    BY <1>0, <1>a, <1>4, <2>2, <2>3, ReachedOther
\* The monitor ends: a run of its thread is on its engine, which is safe.
<1>5. ASSUME threads' = threads, monitor'[t].pc = "done",
             \A x \in Thread : x # th => active'[x] = active[x],
             active'[th].engine \in {NoEngine, active[th].engine},
             active[th].engine = e => Safe(engine'[e])
      PROVE  Reached'
  <2>1. ASSUME NEW x \in Thread, NEW f \in Engine, RunsOn(x, f), active[x].engine = f
        PROVE  Safe(engine'[f]) \/ (RunsOnThen(x, f) /\ active'[x].engine = f)
    <3>1. PICK u \in Turn : active[x].turn = u /\ monitor[u].engine = f
      BY <2>1 DEF RunsOn
    <3>2. CASE x = th
      BY <1>2, <1>5, <2>1, <3>1, <3>2
    <3>3. CASE x # th
      <4>1. u # t
        BY <3>1, <3>3 DEF Claimed
      <4>2. active'[x] = active[x] /\ monitor'[u] = monitor[u]
        BY <1>3, <1>5, <3>3, <4>1
      <4> QED
        BY <2>1, <3>1, <4>2 DEF RunsOnThen
    <3> QED
      BY <3>2, <3>3
  <2>2. \A x \in Thread : active'[x].engine \in {NoEngine, active[x].engine}
    BY <1>5
  <2>3. \A u \in Turn : monitor'[u].pc \in {"save", "release"} =>
           monitor[u].pc \in {"save", "release"} /\ monitor'[u].engine = monitor[u].engine
    BY <1>3, <1>5
  <2> QED
    BY <1>0, <1>a, <1>5, <2>1, <2>2, <2>3, ReachedOther
<1>6. CASE on_turn_complete(t)
  <2>1. /\ threads' = threads /\ active' = active /\ monitor'[t].engine = e
        /\ engine[e].events # <<>> /\ engine' = [engine EXCEPT ![e].events = Tail(@)]
    BY <1>1, <1>6 DEF on_turn_complete, files, memory
  <2> SUFFICES ASSUME NEW g, g = engine[e], NEW h, h = engine'[e] PROVE Safe(h)
    BY <1>4, <2>1
  <2>2. h = [g EXCEPT !.events = Tail(g.events)] /\ g \in EngineRecord /\ h \in EngineRecord
        /\ Channel(e, g) /\ g.events # <<>>
    BY <1>1, <1>2, <2>1 DEF Channels, TypeOK
  <2> QED
    BY <1>2, <2>2, Reading
<1>7. CASE on_closed(t)
  <2>1. /\ threads' = threads /\ active' = active /\ monitor'[t].engine = e
        /\ engine[e].state = "gone" /\ engine' = engine
    BY <1>1, <1>7 DEF on_closed, files, memory, Step
  <2> QED
    BY <1>4, <2>1 DEF Safe
<1>8. CASE save_turn(t)
  <2>1. /\ threads' = threads /\ active' = active /\ monitor'[t].engine = e /\ monitor[t].pc = "save"
    BY <1>1, <1>8 DEF save_turn, memory, Step, At
  <2> QED
    BY <1>4, <2>1
<1>9. CASE release_claim(t)
  <2>1. /\ threads' = [threads EXCEPT ![th].latest = t] /\ monitor'[t].pc = "done"
        /\ active' = [active EXCEPT ![th].turn = NoTurn, ![th].interrupt = FALSE]
        /\ monitor[t].pc = "release" /\ engine' = engine
    BY <1>1, <1>2, <1>9 DEF release_claim, Finish, At, Owns, NoMonitor
  <2>2. threads' = threads
    BY <1>1, <1>2, <2>1 DEF ThreadRecord
  <2>3. Safe(engine[e])
    BY <2>1 DEF Reached
  <2> QED
    BY <1>1, <1>2, <1>5, <2>1, <2>2, <2>3 DEF ActiveRecord
<1>10. CASE settle(t)
  <2>1. /\ threads' = threads /\ monitor'[t].engine = e /\ monitor'[t].pc = "evict"
        /\ active' = IF Owns(t) THEN [active EXCEPT ![th].interrupt = TRUE] ELSE active
    BY <1>1, <1>10 DEF settle, Step
  <2>2. \A x \in Thread : active'[x].turn = active[x].turn /\ active'[x].engine = active[x].engine
    BY <1>1, <2>1 DEF ActiveRecord
  <2> QED
    BY <1>4, <2>1, <2>2
<1>11. CASE settle_evict(t)
  <2>1. /\ threads' = threads /\ monitor'[t].pc = "done"
        /\ active' = [active EXCEPT ![th] = Unloaded]
        /\ engine' = Stopped(engine, active[th].engine)
    BY <1>1, <1>2, <1>11 DEF settle_evict, Finish, files, Owns, NoMonitor
  <2>2. active[th].engine = e => Safe(engine'[e])
    <3>1. ASSUME active[th].engine = e PROVE engine'[e] = Told(Cancelled(engine[e]), Shutdown)
      BY <1>1, <1>2, <2>1, <3>1, StoppedIs
    <3>2. Cancelled(engine[e]) \in EngineRecord /\ Channel(e, Cancelled(engine[e]))
      BY <1>1, <1>2, Cancelling DEF Channels
    <3>3. Safe(Told(Cancelled(engine[e]), Shutdown))
      BY <1>2, <3>2, Telling
    <3> QED
      BY <3>1, <3>3
  <2>3. (\A x \in Thread : x # th => active'[x] = active[x]) /\ active'[th].engine = NoEngine
    BY <1>1, <1>2, <2>1 DEF Unloaded
  <2> QED
    BY <1>5, <2>1, <2>2, <2>3
<1>12. CASE monitor_fails(t)
  <2>1. threads' = threads /\ active' = active /\ monitor'[t].engine = e /\ monitor'[t].pc = "settle"
    BY <1>1, <1>12 DEF monitor_fails, files, memory, Step
  <2> QED
    BY <1>4, <2>1
<1> QED
  BY <1>6, <1>7, <1>8, <1>9, <1>10, <1>11, <1>12 DEF MonitorNext

\* Every step keeps the engines in reach safe.
LEMMA ReachedStep ==
  ASSUME IInv, TypeOK', Next PROVE Reached'
<1>1. CASE Dies
  BY <1>1, ReachedDies
<1>2. CASE \E c \in Call : claim_turn(c)
  BY <1>2, ReachedClaim
<1>3. ASSUME ~ Dies, ~ \E c \in Call : claim_turn(c) PROVE Reached'
  <2>1. CASE \E c \in Call : CallNext(c)
    BY <1>3, <2>1, ReachedCalls
  <2>2. CASE \E t \in Turn : MonitorNext(t) \/ monitor_fails(t)
    BY <1>3, <2>2, ReachedMonitors
  <2>3. ASSUME UNCHANGED <<call, monitor>>,
               \A th \in Thread : \/ active'[th].turn = active[th].turn /\ active'[th].engine = active[th].engine
                                  \/ active[th].turn = NoTurn /\ active'[th].engine = NoEngine,
               \A th \in Thread : threads'[th] = threads[th] \/ threads'[th].settings > threads[th].settings
        PROVE  Reached'
    <3>1. ASSUME NEW th \in Thread, NEW e \in Engine, RunsOn(th, e), active[th].engine = e
          PROVE  RunsOnThen(th, e) /\ active'[th].engine = e
      <4>1. active[th].turn # NoTurn
        BY <3>1 DEF RunsOn, Turn, NoTurn
      <4> QED
        BY <2>3, <3>1, <4>1 DEF RunsOn, RunsOnThen
    <3> QED
      BY <1>3, <2>3, <3>1, ReachedOther
  <2>4. CASE \E e \in Engine : EngineNext(e) \/ engine_dies(e)
    <3>1. UNCHANGED <<call, monitor, active, threads>>
      BY <2>4 DEF EngineNext, engine_next, engine_finish, engine_dies, files, memory
    <3> QED
      BY <2>3, <3>1
  <2>5. ASSUME NEW th \in Thread, interrupt_turn(th) \/ update_thread(th) PROVE Reached'
    <3>1. active \in [Thread -> ActiveRecord] /\ threads \in [Thread -> ThreadRecord]
      BY DEF IInv, TypeOK
    <3>2. CASE interrupt_turn(th)
      <4>1. UNCHANGED <<call, monitor, threads>> /\ active' = [active EXCEPT ![th].interrupt = TRUE]
        BY <3>2 DEF interrupt_turn, files
      <4>2. \A x \in Thread : active'[x].turn = active[x].turn /\ active'[x].engine = active[x].engine
        BY <3>1, <4>1 DEF ActiveRecord
      <4> QED
        BY <2>3, <4>1, <4>2
    <3>3. CASE update_thread(th)
      <4>1. /\ UNCHANGED <<call, monitor>> /\ threads' = [threads EXCEPT ![th].settings = @ + 1]
            /\ \/ active' = active
               \/ active[th].turn = NoTurn /\ active' = [active EXCEPT ![th] = Unloaded]
        BY <3>3 DEF update_thread
      <4>2. \A x \in Thread : threads'[x] = threads[x] \/ threads'[x].settings > threads[x].settings
        BY <3>1, <4>1 DEF ThreadRecord
      <4>3. \A x \in Thread : \/ active'[x].turn = active[x].turn /\ active'[x].engine = active[x].engine
                              \/ active[x].turn = NoTurn /\ active'[x].engine = NoEngine
        BY <3>1, <4>1 DEF Unloaded
      <4> QED
        BY <2>3, <4>1, <4>2, <4>3
    <3> QED
      BY <2>5, <3>2, <3>3
  <2>6. CASE recover_interrupted_state
    <3>1. UNCHANGED <<call, monitor, active, threads>>
      BY <2>6 DEF recover_interrupted_state, memory
    <3> QED
      BY <2>3, <3>1
  <2> QED
    BY <1>3, <2>1, <2>2, <2>4, <2>5, <2>6 DEF Next, crash
<1> QED
  BY <1>1, <1>2, <1>3

--------------------------------------------------------------------------------
(* The theorems.                                                          *)

\* Initially every part holds: nothing is loaded, claimed or running.
LEMMA InitInv == ASSUME Init PROVE IInv
<1>1. TypeOK
  <2>1. /\ threads \in [Thread -> ThreadRecord] /\ turns \in [Turn -> TurnRecord]
    BY DEF Init, ThreadRecord, TurnRecord, TurnOrNone
  <2>2. /\ active \in [Thread -> ActiveRecord] /\ call \in [Call -> CallRecord]
        /\ engine \in [Engine -> EngineRecord] /\ monitor \in [Turn -> MonitorRecord]
    BY IdleType DEF Init
  <2>3. lru \in Seq(Thread) /\ engine_load \in Call \cup {NoCall} /\ faults \in Nat
    BY DEF Init
  <2>4. up \in BOOLEAN /\ lost \in BOOLEAN
    BY Zenon DEF Init
  <2> QED
    BY <2>1, <2>2, <2>3, <2>4 DEF TypeOK
<1>2. /\ \A t \in Turn : monitor[t].pc = "none" /\ monitor[t].engine = NoEngine
      /\ \A t \in Turn : turns[t].status = "Absent"
      /\ \A th \in Thread : active[th].turn = NoTurn /\ active[th].engine = NoEngine /\ threads[th].latest = NoTurn
      /\ \A c \in Call : call[c].pc = "idle" /\ call[c].handle = NoEngine /\ call[c].victim = NoEngine
      /\ \A e \in Engine : engine[e] = Unspawned
      /\ lru = <<>> /\ up
  BY DEF Init, NoMonitor, Unloaded, IdleCall
<1>3. Claimed /\ Recorded /\ Down
  BY <1>2 DEF Claimed, Recorded, Down, Live, Turn, NoTurn
<1>4. Calling
  BY <1>2 DEF Calling, CallHolds
<1>5. Listed
  BY <1>2 DEF Listed, Once, Lists, Loaded
<1>6. Separate
  <2>1. \A e \in Engine : e # NoEngine
    BY DEF Engine, NoEngine
  <2> QED
    BY <1>2, <2>1 DEF Separate, Held, HeldFor
<1>7. Channels
  <2>1. Len(Unspawned.events) = 0 /\ Len(Unspawned.ops) = 0
    BY DEF Unspawned
  <2> QED
    BY <1>2, <2>1 DEF Channels, Channel, Unspawned
<1>8. Reached
  BY <1>2 DEF Reached, CallReached, Loaded
<1> QED
  BY <1>1, <1>3, <1>4, <1>5, <1>6, <1>7, <1>8 DEF IInv

\* Every step keeps it.
LEMMA StepInv == ASSUME IInv, Next PROVE IInv'
<1>0. IA
  BY DEF IInv, IA
<1>1. TypeOK'
  BY CallsType, EnginesType, MonitorsType, OthersType DEF IInv, Next
<1>2. Claimed'
  BY <1>0, ClaimedCalls, ClaimedMonitors, ClaimedOthers DEF Next
<1>3. Recorded'
  BY <1>0, RecordedCalls, RecordedMonitors, RecordedOthers DEF Next
<1>4. Calling'
  BY <1>0, CallingCalls, CallingOthers DEF Next
<1>5. Down' /\ Listed'
  BY <1>0, DownStep, ListedStep
<1>6. Separate'
  BY <1>1, SeparateCalls, SeparateOthers
<1>7. Channels' /\ Reached'
  BY <1>1, ChannelsStep, ReachedStep
<1> QED
  BY <1>1, <1>2, <1>3, <1>4, <1>5, <1>6, <1>7 DEF IInv

\* So does a stuttering step.
LEMMA StutterInv == ASSUME IInv, UNCHANGED vars PROVE IInv'
<1>1. UNCHANGED <<threads, turns, active, lru, engine_load, call, engine, monitor, up, faults, lost>>
  BY DEF vars, files, memory
<1>2. TypeOK' /\ Claimed' /\ Recorded' /\ Down' /\ Listed'
  BY <1>1 DEF IInv, TypeOK, Claimed, Recorded, Down, Listed, Live, Loaded
<1>3. Calling'
  BY <1>1 DEF IInv, Calling, CallHolds, Loaded
<1>4. Separate'
  BY <1>1 DEF IInv, Separate, Held, HeldFor
<1>5. Channels'
  BY <1>1 DEF IInv, Channels, Channel
<1>6. Reached'
  BY <1>1 DEF IInv, Reached, CallReached, RunsOn, Loaded
<1> QED
  BY <1>2, <1>3, <1>4, <1>5, <1>6 DEF IInv

\* The inductive invariant holds in every state that start_turn, compact_thread, the monitors,
\* engines, interrupts, updates, failures and crashes of RuntimeThreadManager can reach, for
\* every number of threads, calls, turns and engines.
THEOREM Invariance == Spec => []IInv
<1>1. IInv /\ [Next]_vars => IInv'
  BY StepInv, StutterInv
<1> QED
  BY InitInv, <1>1, PTL DEF Spec

\* Records, map, list, calls, channels and monitors are of their types.
THEOREM TypeCorrect == Spec => []TypeOK
<1>1. IInv => TypeOK
  BY DEF IInv
<1> QED
  BY Invariance, <1>1, PTL

\* No zombie turn: unless a clean-up write failed as well, a turn that is recorded as in
\* progress while the runtime serves has its monitor and the claim of its thread (start_turn,
\* monitor_turn, settle_claimed_turn_failure and recover_interrupted_state).
THEOREM NoZombieTurnHolds == Spec => []NoZombieTurn
<1>1. IInv => NoZombieTurn
  BY DEF IInv, Claimed, Recorded, NoZombieTurn, Owns
<1> QED
  BY Invariance, <1>1, PTL

\* One turn at a time: the monitors of a thread exclude each other, and so do the uncancelled
\* runs of its turns, over evictions, reloads, refused, failed and dropped calls.
THEOREM OneTurnPerThreadHolds == Spec => []OneTurnPerThread
<1>1. ASSUME IInv PROVE OneTurnPerThread
  <2>1. ASSUME NEW t \in Turn, NEW u \in Turn, Live(t), Live(u), turns[t].thread = turns[u].thread
        PROVE  t = u
    BY <1>1, <2>1 DEF IInv, Claimed
  <2>2. ASSUME NEW e \in Engine, NEW f \in Engine,
               engine[e].state = "busy", ~ engine[e].cancelled,
               engine[f].state = "busy", ~ engine[f].cancelled,
               turns[engine[e].running].thread = turns[engine[f].running].thread
        PROVE  e = f
    <3>1. ASSUME NEW g \in Engine, engine[g].state = "busy", ~ engine[g].cancelled
          PROVE  /\ engine[g].running \in Turn /\ Live(engine[g].running)
                 /\ monitor[engine[g].running].engine = g
      BY <1>1, <3>1 DEF IInv, Channels, Channel, Live
    <3>2. engine[e].running = engine[f].running
      BY <2>1, <2>2, <3>1
    <3> QED
      BY <2>2, <3>1, <3>2
  <2> QED
    BY <2>1, <2>2 DEF OneTurnPerThread
<1> QED
  BY Invariance, <1>1, PTL

\* ActiveThreads.lru lists exactly the loaded threads, once each, and eviction, update and
\* settlement never unload a thread whose claim they do not end.
THEOREM LruExactHolds == Spec => []LruExact
<1>1. ASSUME IInv PROVE LruExact
  <2>1. lru \in Seq(Thread) /\ Once(lru) /\ \A th \in Thread : Loaded(th) <=> Lists(lru, th)
    BY <1>1 DEF IInv, TypeOK, Listed
  <2> DEFINE n == Len(lru)
  <2>2. n \in Nat /\ DOMAIN lru = 1..n /\ lru \in [1..n -> Thread]
    BY <2>1
  <2>3. ToSet(lru) = LoadedThreads
    BY <2>1, <2>2 DEF ToSet, LoadedThreads, Lists
  <2>4. Len(lru) = Cardinality(LoadedThreads)
    <3>1. lru \in [1..n -> LoadedThreads]
      BY <2>1, <2>2 DEF LoadedThreads, Lists
    <3>2. \A x \in LoadedThreads : \E i \in 1..n : lru[i] = x
      BY <2>1, <2>2 DEF LoadedThreads, Lists
    <3>3. \A i, j \in 1..n : lru[i] = lru[j] => i = j
      BY <2>1, <2>2 DEF Once
    <3>4. lru \in Bijection(1..n, LoadedThreads)
      BY <3>1, <3>2, <3>3 DEF Bijection, Injection, Surjection, IsInjective
    <3>5. ExistsBijection(1..n, LoadedThreads)
      BY <3>4 DEF ExistsBijection
    <3> QED
      BY <2>2, <3>5, FS_CountingElements
  <2>5. \A th \in Thread : active[th].turn # NoTurn => Loaded(th)
    BY <1>1 DEF IInv, Claimed, TypeOK, ActiveRecord, TurnOrNone
  <2> QED
    BY <2>3, <2>4, <2>5 DEF LruExact
<1> QED
  BY Invariance, <1>1, PTL
================================================================================
