--------------------------- MODULE MovementProofs ---------------------------
(***************************************************************************)
(* Proofs about MovementSuite: the demonstrations, the training and the    *)
(* evaluation of lessons 15 to 18, for any tasks, numbers of demos, steps  *)
(* and episodes, any interval of checkpoints and any length of a video,    *)
(* whatever fails, stops or dies.                                          *)
(***************************************************************************)
EXTENDS MovementSuite, FiniteSetTheorems, SequenceTheorems, TLAPS
LOCAL INSTANCE FiniteSetsExt

-----------------------------------------------------------------------------
(***************************************************************************)
(* The seed blocks of the tasks.                                           *)
(***************************************************************************)
Names == SeqRange(TaskNames)
\* The first seed of a task's block.
FirstSeed(t) == DemoSeed0 + (Position(t) - 1) * SeedsPerTask
\* The first seed of the pool the job draws from.
PoolStart == FirstSeed(Task) + Offset

\* The numbers of the config are counts, and there is something to record.
LEMMA Sizes ==
    /\ PerTask \in Nat \ {0} /\ Chunk \in Nat \ {0} /\ SeedsPerTask \in Nat \ {0}
    /\ Slack \in Nat /\ Offset \in Nat /\ PerTask <= SeedsPerTask - Offset
    /\ Len(TaskNames) \in Nat /\ DOMAIN TaskNames = 1..Len(TaskNames)
    /\ RecTasks \in Seq(Names) /\ RecTasks # <<>>
    /\ Len(RecTasks) \in Nat \ {0} /\ DOMAIN RecTasks = 1..Len(RecTasks)
<1>1. RecTasks \in Seq(Names) /\ RecTasks # <<>>
  BY DemoAssumption DEF DemoAssumption, Names
<1>2. QED
  BY <1>1, DemoAssumption, EmptySeq, LenProperties DEF DemoAssumption

\* A task has one place in TASK_NAMES.
LEMMA PositionIs ==
    ASSUME NEW t \in Names
    PROVE  Position(t) \in 1..Len(TaskNames) /\ TaskNames[Position(t)] = t
<1>1. \E i \in DOMAIN TaskNames : TaskNames[i] = t
  BY DEF Names, SeqRange
<1>2. Position(t) \in DOMAIN TaskNames /\ TaskNames[Position(t)] = t
  BY <1>1 DEF Position
<1>3. QED
  BY <1>2, Sizes

\* The pool of a task lies in its block.
LEMMA FirstSeedIs ==
    ASSUME NEW t \in Names
    PROVE  /\ FirstSeed(t) \in Nat \ {0}
           /\ FirstSeed(t) + SeedsPerTask <= EvalSeed0
<1> DEFINE p == Position(t) - 1
           n == Len(TaskNames)
           k == SeedsPerTask
<1>1. p \in Nat /\ n \in Nat /\ k \in Nat /\ p + 1 <= n
  BY PositionIs, Sizes
<1>2. p * k \in Nat /\ p * k + k <= n * k
  <2> HIDE DEF p, n, k
  <2>1. PICK d \in Nat : n = p + 1 + d
    <3>1. n - (p + 1) \in Nat /\ n = p + 1 + (n - (p + 1))
      BY <1>1
    <3>2. QED
      BY <3>1
  <2>2. /\ n * k = p * k + k + d * k
        /\ d * k \in Nat /\ p * k \in Nat
    BY <1>1, <2>1, Z3
  <2>3. QED
    BY <1>1, <2>2
<1>3. QED
  BY <1>1, <1>2 DEF FirstSeed, EvalSeed0, DemoSeed0

\* No two tasks share a seed.
LEMMA BlocksAreDisjoint ==
    ASSUME NEW t \in Names, NEW u \in Names, NEW s \in Nat,
           FirstSeed(t) <= s, s < FirstSeed(t) + SeedsPerTask,
           FirstSeed(u) <= s, s < FirstSeed(u) + SeedsPerTask
    PROVE  t = u
<1> DEFINE p == Position(t) - 1
           q == Position(u) - 1
           k == SeedsPerTask
<1>1. p \in Nat /\ q \in Nat /\ k \in Nat
  BY PositionIs, Sizes
<1>2. ASSUME NEW a \in Nat, NEW b \in Nat, a < b PROVE a * k + k <= b * k
  <2>1. PICK d \in Nat : b = a + 1 + d
    <3>1. b - (a + 1) \in Nat /\ b = a + 1 + (b - (a + 1))
      BY <1>2
    <3>2. QED
      BY <3>1
  <2> HIDE DEF k
  <2>2. b * k = a * k + k + d * k /\ d * k \in Nat /\ a * k \in Nat
    BY <1>1, <2>1, Z3
  <2>3. QED
    BY <1>1, <2>2
<1>3. /\ FirstSeed(t) = 1 + p * k /\ FirstSeed(u) = 1 + q * k
      /\ p * k \in Nat /\ q * k \in Nat
  BY <1>1 DEF FirstSeed, DemoSeed0
<1>4. p = q
  <2>1. ~(p < q)
    <3>1. SUFFICES ASSUME p < q PROVE FALSE
      OBVIOUS
    <3>2. p * k + k <= q * k
      BY <1>1, <1>2, <3>1
    <3>3. QED
      <4> HIDE DEF p, q, k
      <4> QED
        BY <1>1, <1>3, <3>2, Sizes DEF k
  <2>2. ~(q < p)
    <3>1. SUFFICES ASSUME q < p PROVE FALSE
      OBVIOUS
    <3>2. q * k + k <= p * k
      BY <1>1, <1>2, <3>1
    <3>3. QED
      <4> HIDE DEF p, q, k
      <4> QED
        BY <1>1, <1>3, <3>2, Sizes DEF k
  <2>3. QED
    BY <1>1, <2>1, <2>2
<1>5. QED
  BY <1>4, PositionIs

\* The smaller of two numbers.
LEMMA LeastOfTwo ==
    ASSUME NEW a \in Nat, NEW b \in Nat
    PROVE  /\ Min({a, b}) \in Nat /\ Min({a, b}) <= a /\ Min({a, b}) <= b
           /\ Min({a, b}) \in {a, b}
<1>1. \E x \in {a, b} : \A y \in {a, b} : x =< y
  BY SMT
<1>2. Min({a, b}) \in {a, b} /\ \A y \in {a, b} : Min({a, b}) =< y
  BY <1>1 DEF Min
<1>3. QED
  BY <1>2

\* A chunk of the pool ends inside the pool.
LEMMA BlockIs ==
    ASSUME NEW t \in Names, NEW n \in Nat, NEW offset \in Nat
    PROVE  /\ Len(DemoSeeds(t, n, offset)) = n
           /\ DOMAIN DemoSeeds(t, n, offset) = 1..n
           /\ DemoSeeds(t, n, offset) \in Seq(Nat)
           /\ \A i \in 1..n : DemoSeeds(t, n, offset)[i] = FirstSeed(t) + offset + i - 1
<1>1. \A i \in 1..n : FirstSeed(t) + offset + i - 1 \in Nat
  BY FirstSeedIs
<1>2. DemoSeeds(t, n, offset) = [i \in 1..n |-> FirstSeed(t) + offset + i - 1]
  BY DEF DemoSeeds, Block, FirstSeed
<1>3. QED
  BY <1>1, <1>2

-----------------------------------------------------------------------------
(***************************************************************************)
(* The recording job: what it has gathered of its task, and what it has    *)
(* left on disk.                                                           *)
(***************************************************************************)
Rising(s) == \A i, k \in DOMAIN s : i < k => s[i] < s[k]
\* The seeds of s lie between two bounds.
Within(s, from, to) == \A i \in DOMAIN s : from <= s[i] /\ s[i] < to
\* The shards of the seeds in s are in one of these states.
OnDisk(s, states) == \A i \in DOMAIN s : shard[s[i]] \in states

\* The states of a shard.
Shards == {"none", "torn", "old", "new"}
\* What a dataset's index may say.
Indices == [demos : Seq(Nat), by : Shards, whole : BOOLEAN]

\* The recording job's variables have their types.
RecType ==
    /\ rpc \in {"idle", "poll", "roll", "shard", "index", "indexed", "whole", "wholed"}
                  \cup RecordEnded
    /\ ti \in DOMAIN RecTasks
    /\ pos \in Nat /\ tried \in Nat /\ pos + tried <= Len(Pool)
    /\ chunk \in Seq(Nat) /\ episodes \in Seq(Nat)
    /\ index \in [Names -> Indices]
    /\ shard \in [DemoSeed0..EvalSeed0 - 1 -> Shards]

\* The seed the present chunk begins with.
Here == PoolStart + pos
\* The seed whose shard is written now.
Writing == PoolStart + pos + tried - 1

\* The demos gathered rise, come before the next seed, and are on disk.
Gathered ==
    /\ Rising(episodes) /\ Within(episodes, PoolStart, Here) /\ OnDisk(episodes, {"new"})
    /\ Rising(chunk) /\ Within(chunk, Here, Here + tried) /\ OnDisk(chunk, {"new"})

\* The counters of the job stay within its pool.
Counts ==
    /\ Len(episodes) <= PerTask
    /\ rpc = "idle" => ti = 1
    /\ rpc \in {"idle", "poll"} => chunk = <<>> /\ tried = 0 /\ Len(episodes) < PerTask
    /\ rpc \in {"roll", "shard"} => Len(chunk) < Want /\ Len(episodes) < PerTask
    /\ rpc = "shard" => tried > 0 /\ Within(chunk, Here, Writing)
    /\ rpc \in {"index", "indexed"} => Len(chunk) = Want /\ Len(episodes) < PerTask
    /\ rpc \in {"whole", "wholed"} =>
          chunk = <<>> /\ tried = 0 /\ Len(episodes) = PerTask

\* Only the shard being written may be torn.
TornIsCurrent ==
    \A s \in DOMAIN shard : shard[s] = "torn" => rpc \in {"shard", "killed"} /\ tried > 0 /\ s = Writing

\* The tasks the job has come to.
Begun == IF rpc = "idle" THEN {} ELSE {RecTasks[i] : i \in 1..ti}

\* What the index of a task lists is on disk: in order, from its block.
Listed(t) ==
    LET d == index[t].demos IN
    /\ Within(d, FirstSeed(t), FirstSeed(t) + SeedsPerTask)
    /\ OnDisk(d, {"old", "new", "torn"})
    /\ index[t].by = "new" => OnDisk(d, {"new", "torn"}) /\ t \in Begun /\ Len(d) > 0
    /\ index[t].by = "old" => index[t].whole
    /\ index[t].by = "old" /\ t \notin Begun => OnDisk(d, {"old"})
    /\ index[t].whole => Len(d) = PerTask /\ Rising(d) /\ index[t].by \in {"old", "new"}
    /\ index[t].by = "torn" => rpc # "idle"

\* The index says this recording wrote the whole of the task.
WholeOf(t) == index[t].by = "new" /\ index[t].whole

\* Every task has its index, and one the job is through with is whole.
TasksListed ==
    /\ \A i \in 1..ti : i < ti => RecTasks[i] = Task \/ WholeOf(RecTasks[i])
    /\ rpc = "done" => ti = Len(RecTasks) /\ WholeOf(Task)

\* The inductive invariant of the recording job.
DemoInv ==
    /\ RecType /\ Gathered /\ Counts /\ TornIsCurrent /\ TasksListed
    /\ \A t \in Names : Listed(t)

\* A rising sequence goes on with a larger element.
LEMMA AppendRises ==
    ASSUME NEW s \in Seq(Nat), NEW a \in Nat, NEW x \in Nat, NEW b \in Nat,
           Rising(s), Within(s, a, x), a <= x, x < b
    PROVE  /\ Append(s, x) \in Seq(Nat) /\ Len(Append(s, x)) = Len(s) + 1
           /\ Rising(Append(s, x)) /\ Within(Append(s, x), a, b)
           /\ \A i \in DOMAIN Append(s, x) :
                 \/ Append(s, x)[i] = x
                 \/ i \in DOMAIN s /\ Append(s, x)[i] = s[i]
<1> DEFINE r == Append(s, x)
           n == Len(s)
<1>1. /\ r \in Seq(Nat) /\ Len(r) = n + 1 /\ n \in Nat /\ DOMAIN s = 1..n /\ DOMAIN r = 1..n + 1
      /\ r[n + 1] = x /\ \A i \in 1..n : r[i] = s[i]
  BY AppendProperties
<1>2. \A i \in 1..n : s[i] \in Nat /\ a <= s[i] /\ s[i] < x
  BY DEF Within
<1>3. \A i, k \in 1..n : i < k => s[i] < s[k]
  BY DEF Rising
<1> HIDE DEF r, n
<1>4. ASSUME NEW i \in 1..n + 1, NEW k \in 1..n + 1, i < k PROVE r[i] < r[k]
  <2>1. i \in 1..n /\ r[i] = s[i]
    BY <1>1, <1>4
  <2>2. CASE k = n + 1
    BY <1>1, <1>2, <2>1, <2>2
  <2>3. CASE k # n + 1
    <3>1. k \in 1..n /\ r[k] = s[k]
      BY <1>1, <2>3
    <3>2. QED
      BY <1>3, <1>4, <2>1, <3>1
  <2>4. QED
    BY <2>2, <2>3
<1>5. ASSUME NEW i \in 1..n + 1
      PROVE  a <= r[i] /\ r[i] < b /\ (r[i] = x \/ (i \in DOMAIN s /\ r[i] = s[i]))
  <2>1. CASE i = n + 1
    BY <1>1, <2>1
  <2>2. CASE i # n + 1
    <3>1. i \in 1..n /\ r[i] = s[i]
      BY <1>1, <2>2
    <3>2. s[i] \in Nat /\ a <= s[i] /\ s[i] < x
      BY <1>2, <3>1
    <3>3. QED
      BY <1>1, <3>1, <3>2
  <2>3. QED
    BY <2>1, <2>2
<1>6. Rising(r) /\ Within(r, a, b)
  BY <1>1, <1>4, <1>5 DEF Rising, Within
<1>7. QED
  BY <1>1, <1>5, <1>6 DEF r, n

\* A rising sequence goes on with a rising one that begins later.
LEMMA ConcatRises ==
    ASSUME NEW s \in Seq(Nat), NEW q \in Seq(Nat), NEW a \in Nat, NEW b \in Nat, NEW c \in Nat,
           a <= b, b <= c,
           Rising(s), Within(s, a, b), Rising(q), Within(q, b, c)
    PROVE  /\ s \o q \in Seq(Nat) /\ Len(s \o q) = Len(s) + Len(q)
           /\ Rising(s \o q) /\ Within(s \o q, a, c)
           /\ \A i \in DOMAIN (s \o q) : \/ i \in DOMAIN s /\ (s \o q)[i] = s[i]
                                         \/ \E k \in DOMAIN q : (s \o q)[i] = q[k]
<1> DEFINE r == s \o q
           n == Len(s)
           m == Len(q)
<1>1. /\ r \in Seq(Nat) /\ Len(r) = n + m /\ n \in Nat /\ m \in Nat
      /\ DOMAIN s = 1..n /\ DOMAIN q = 1..m /\ DOMAIN r = 1..n + m
      /\ \A i \in 1..n + m : r[i] = IF i <= n THEN s[i] ELSE q[i - n]
  BY ConcatProperties
<1>2. \A i \in 1..n : s[i] \in Nat /\ a <= s[i] /\ s[i] < b
  BY DEF Within
<1>3. \A i \in 1..m : q[i] \in Nat /\ b <= q[i] /\ q[i] < c
  BY DEF Within
<1>4. /\ \A i, k \in 1..n : i < k => s[i] < s[k]
      /\ \A i, k \in 1..m : i < k => q[i] < q[k]
  <2>1. \A i, k \in DOMAIN s : i < k => s[i] < s[k]
    BY DEF Rising
  <2>2. \A i, k \in DOMAIN q : i < k => q[i] < q[k]
    BY DEF Rising
  <2>3. QED
    BY <1>1, <2>1, <2>2
<1> HIDE DEF r, n, m
<1>5. ASSUME NEW i \in 1..n + m
      PROVE  \/ i \in 1..n /\ r[i] = s[i]
             \/ i - n \in 1..m /\ i > n /\ r[i] = q[i - n]
  <2>1. CASE i <= n
    BY <1>1, <2>1
  <2>2. CASE ~(i <= n)
    BY <1>1, <2>2
  <2>3. QED
    BY <2>1, <2>2
<1>6. ASSUME NEW i \in 1..n + m PROVE a <= r[i] /\ r[i] < c
  BY <1>2, <1>3, <1>5
<1>7. ASSUME NEW i \in 1..n + m, NEW k \in 1..n + m, i < k PROVE r[i] < r[k]
  <2>1. CASE i \in 1..n /\ r[i] = s[i] /\ k \in 1..n /\ r[k] = s[k]
    BY <1>4, <1>7, <2>1
  <2>2. CASE i \in 1..n /\ r[i] = s[i] /\ k - n \in 1..m /\ r[k] = q[k - n]
    <3>1. s[i] \in Nat /\ s[i] < b
      BY <1>2, <2>2
    <3>2. q[k - n] \in Nat /\ b <= q[k - n]
      BY <1>3, <2>2
    <3>3. QED
      BY <2>2, <3>1, <3>2
  <2>3. CASE i - n \in 1..m /\ r[i] = q[i - n] /\ k - n \in 1..m /\ r[k] = q[k - n]
    <3>1. i - n < k - n
      BY <1>1, <1>7
    <3>2. QED
      BY <1>4, <2>3, <3>1
  <2>4. ~(i > n /\ k \in 1..n)
    BY <1>1, <1>7
  <2>5. QED
    BY <1>5, <2>1, <2>2, <2>3, <2>4
<1>8. Rising(r) /\ Within(r, a, c)
  BY <1>1, <1>6, <1>7 DEF Rising, Within
<1>9. \A i \in DOMAIN r : \/ i \in DOMAIN s /\ r[i] = s[i]
                          \/ \E k \in DOMAIN q : r[i] = q[k]
  BY <1>1, <1>5
<1>10. QED
  BY <1>1, <1>8, <1>9 DEF r, n, m

\* The pool is counted from its start.
LEMMA PoolIs ==
    ASSUME RecType
    PROVE  /\ Task \in Names /\ PoolStart \in Nat /\ Offset \in Nat
           /\ Len(Pool) \in Nat /\ DOMAIN Pool = 1..Len(Pool)
           /\ FirstSeed(Task) \in Nat \ {0} /\ FirstSeed(Task) <= PoolStart
           /\ PoolStart + Len(Pool) <= FirstSeed(Task) + SeedsPerTask
           /\ FirstSeed(Task) + SeedsPerTask <= EvalSeed0
           /\ \A k \in 1..Len(Pool) : /\ Pool[k] = PoolStart + k - 1
                                      /\ Pool[k] \in DemoSeed0..EvalSeed0 - 1
<1>1. Task \in Names
  BY Sizes, ElementOfSeq DEF RecType, Task
<1>2. /\ FirstSeed(Task) \in Nat \ {0} /\ FirstSeed(Task) + SeedsPerTask <= EvalSeed0
      /\ EvalSeed0 \in Nat
  BY <1>1, FirstSeedIs, Sizes DEF EvalSeed0, DemoSeed0
<1> DEFINE n == Min({2 * PerTask + Slack, SeedsPerTask - Offset})
<1>3. n \in Nat /\ n <= SeedsPerTask - Offset
  <2>1. 2 * PerTask + Slack \in Nat /\ SeedsPerTask - Offset \in Nat
    BY Sizes
  <2>2. QED
    BY <2>1, LeastOfTwo
<1> HIDE DEF n
<1>4. Pool = DemoSeeds(Task, n, Offset)
  BY DEF Pool, n
<1>5. /\ Len(Pool) = n /\ DOMAIN Pool = 1..n
      /\ \A i \in 1..n : Pool[i] = FirstSeed(Task) + Offset + i - 1
  <2>1. Offset \in Nat
    BY Sizes
  <2>2. /\ Len(DemoSeeds(Task, n, Offset)) = n
        /\ DOMAIN DemoSeeds(Task, n, Offset) = 1..n
        /\ \A i \in 1..n : DemoSeeds(Task, n, Offset)[i] = FirstSeed(Task) + Offset + i - 1
    BY <1>1, <1>3, <2>1, BlockIs
  <2>3. QED
    BY <1>4, <2>2
<1>6. PoolStart = FirstSeed(Task) + Offset /\ DemoSeed0 = 1
  BY DEF PoolStart, DemoSeed0
<1>7. Offset \in Nat /\ SeedsPerTask \in Nat
  BY Sizes
<1>8. /\ PoolStart \in Nat /\ FirstSeed(Task) <= PoolStart
      /\ PoolStart + n <= FirstSeed(Task) + SeedsPerTask
  BY <1>2, <1>3, <1>6, <1>7
<1>9. ASSUME NEW k \in 1..n
      PROVE  PoolStart + k - 1 \in DemoSeed0..EvalSeed0 - 1 /\ Pool[k] = PoolStart + k - 1
  <2>1. Pool[k] = PoolStart + k - 1
    BY <1>5, <1>6
  <2>2. k \in Nat /\ 1 <= k /\ k <= n
    BY <1>3
  <2>3. 1 <= PoolStart + k - 1 /\ PoolStart + k - 1 <= EvalSeed0 - 1
    BY <2>2, <1>2, <1>3, <1>7, <1>8
  <2>4. PoolStart + k - 1 \in 1..EvalSeed0 - 1
    BY <2>2, <2>3, <1>2, <1>8
  <2>5. QED
    BY <2>1, <2>4, <1>6
<1>10. QED
  BY <1>1, <1>2, <1>3, <1>5, <1>7, <1>8, <1>9

\* The pool is that of the task.
LEMMA PoolStays == ti' = ti => Task' = Task /\ Pool' = Pool /\ PoolStart' = PoolStart
BY DEF Task, Pool, PoolStart

\* How many demos a task wants.
LEMMA WantIs ==
    ASSUME RecType
    PROVE  /\ Len(episodes) < PerTask =>
                 Want \in Nat \ {0} /\ Want <= PerTask - Len(episodes)
           /\ Want' = Want \/ episodes' # episodes
<1>1. Len(episodes) \in Nat
  BY DEF RecType
<1>2. ASSUME Len(episodes) < PerTask
      PROVE  Want \in Nat \ {0} /\ Want <= PerTask - Len(episodes)
  <2>1. PerTask - Len(episodes) \in Nat \ {0}
    BY <1>1, <1>2, Sizes
  <2>2. QED
    BY <2>1, LeastOfTwo, Sizes DEF Want
<1>3. QED
  BY <1>2 DEF Want

\* What is listed is not touched by a recording of another task, and one of the
\* same task has begun.
LEMMA ListedStays ==
    ASSUME RecType, NEW t \in Names, Listed(t), index'[t] = index[t],
           Begun \subseteq Begun', rpc' # "idle",
           \A s \in DemoSeed0..EvalSeed0 - 1 :
              \/ shard'[s] = shard[s]
              \/ /\ FirstSeed(Task) <= s /\ s < FirstSeed(Task) + SeedsPerTask
                 /\ shard'[s] \in {"new", "torn"} /\ Task \in Begun'
    PROVE  Listed(t)'
<1> DEFINE d == index[t].demos
<1>1. index[t] \in Indices /\ d \in Seq(Nat)
  BY DEF RecType, Indices
<1>2. \A i \in DOMAIN d : d[i] \in DemoSeed0..EvalSeed0 - 1
  <2>1. FirstSeed(t) \in Nat \ {0} /\ FirstSeed(t) + SeedsPerTask <= EvalSeed0
    BY FirstSeedIs
  <2>2. \A i \in DOMAIN d : d[i] \in Nat
    BY <1>1
  <2>3. QED
    BY <2>1, <2>2, Sizes DEF Listed, Within, DemoSeed0, EvalSeed0
<1>3. ASSUME t \notin Begun', NEW i \in DOMAIN d PROVE shard'[d[i]] = shard[d[i]]
  <2>1. Task \in Names
    BY PoolIs
  <2>2. d[i] \in Nat /\ FirstSeed(t) <= d[i] /\ d[i] < FirstSeed(t) + SeedsPerTask
    BY <1>1 DEF Listed, Within
  <2>3. SUFFICES ASSUME shard'[d[i]] # shard[d[i]] PROVE FALSE
    OBVIOUS
  <2>4. /\ FirstSeed(Task) <= d[i] /\ d[i] < FirstSeed(Task) + SeedsPerTask
        /\ Task \in Begun'
    BY <1>2, <2>3
  <2>5. t = Task
    BY <2>1, <2>2, <2>4, BlocksAreDisjoint
  <2>6. QED
    BY <1>3, <2>4, <2>5
<1>4. \A i \in DOMAIN d : shard'[d[i]] = shard[d[i]] \/ shard'[d[i]] \in {"new", "torn"}
  BY <1>2
<1>5. OnDisk(d, {"old", "new", "torn"}) => \A i \in DOMAIN d : shard'[d[i]] \in {"old", "new", "torn"}
  BY <1>4 DEF OnDisk
<1>6. OnDisk(d, {"new", "torn"}) => \A i \in DOMAIN d : shard'[d[i]] \in {"new", "torn"}
  BY <1>4 DEF OnDisk
<1>7. t \notin Begun' /\ OnDisk(d, {"old"}) => \A i \in DOMAIN d : shard'[d[i]] \in {"old"}
  BY <1>3 DEF OnDisk
<1>8. QED
  BY <1>5, <1>6, <1>7 DEF Listed, OnDisk

\* The steps that start, go on to a chunk, stop or die gather nothing.
LEMMA RecordMovesOn ==
    ASSUME DemoInv, RecordStarts \/ RecordStops \/ ChunkStarts \/ RecordKilled
    PROVE  DemoInv'
<1>1. /\ UNCHANGED <<ti, pos, tried, chunk, episodes, shard, index>>
      /\ rpc' \in {"poll", "roll", "stopped", "killed"} /\ rpc # "done"
      /\ rpc' # "poll" => rpc # "idle"
      /\ rpc # "killed" /\ (rpc = "shard" => rpc' = "killed")
      /\ rpc' = "poll" => rpc = "idle"
      /\ rpc' = "roll" => rpc = "poll"
  BY DEF RecordStarts, RecordStops, ChunkStarts, RecordKilled, RecordEnded, diskVars
<1>2. Task' = Task /\ Pool' = Pool /\ PoolStart' = PoolStart
  BY <1>1, PoolStays
<1>3. RecType'
  BY <1>1, <1>2 DEF DemoInv, RecType, RecordEnded
<1>4. Gathered' /\ TasksListed'
  BY <1>1, <1>2 DEF DemoInv, Gathered, TasksListed, Here, OnDisk, WholeOf
<1>5. TornIsCurrent'
  BY <1>1, <1>2 DEF DemoInv, TornIsCurrent, Writing
<1>6. Counts'
  <2>1. Len(episodes) < PerTask /\ rpc = "poll" => Want > 0 /\ Len(chunk) = 0
    <3>1. Len(episodes) < PerTask => Want \in Nat \ {0}
      BY WantIs DEF DemoInv
    <3>2. rpc = "poll" => chunk = <<>>
      BY DEF DemoInv, Counts
    <3>3. QED
      BY <3>1, <3>2
  <2>2. Want' = Want
    BY <1>1 DEF Want
  <2>3. QED
    BY <1>1, <2>1, <2>2 DEF DemoInv, Counts
<1>7. ASSUME NEW t \in Names PROVE Listed(t)'
  BY <1>1, ListedStays DEF DemoInv, Begun
<1>8. QED
  BY <1>3, <1>4, <1>5, <1>6, <1>7 DEF DemoInv

\* The seed tried now lies beyond what is gathered, inside the task's block.
LEMMA WritingIs ==
    ASSUME RecType, tried > 0
    PROVE  /\ Pool[pos + tried] = Writing /\ Writing \in DemoSeed0..EvalSeed0 - 1
           /\ Writing \in Nat /\ Here <= Writing
           /\ FirstSeed(Task) <= Writing /\ Writing < FirstSeed(Task) + SeedsPerTask
<1>1. /\ pos \in Nat /\ tried \in Nat /\ pos + tried <= Len(Pool)
  BY DEF RecType
<1>2. pos + tried \in 1..Len(Pool)
  BY <1>1, PoolIs
<1>3. /\ Pool[pos + tried] = PoolStart + (pos + tried) - 1
      /\ Pool[pos + tried] \in DemoSeed0..EvalSeed0 - 1
  BY <1>2, PoolIs
<1>4. Writing = PoolStart + (pos + tried) - 1 /\ Here = PoolStart + pos /\ PoolStart \in Nat
  BY <1>1, PoolIs DEF Writing, Here
<1>5. FirstSeed(Task) \in Nat /\ SeedsPerTask \in Nat /\ FirstSeed(Task) <= PoolStart
      /\ PoolStart + Len(Pool) <= FirstSeed(Task) + SeedsPerTask /\ Len(Pool) \in Nat
  BY PoolIs, Sizes
<1>6. FirstSeed(Task) <= Writing /\ Writing < FirstSeed(Task) + SeedsPerTask
      /\ Here <= Writing /\ Writing \in Nat
  BY <1>1, <1>4, <1>5
<1>7. QED
  BY <1>3, <1>4, <1>6

\* An attempt: a success is written next, and the pool may be used up.
LEMMA RollKeeps == DemoInv /\ Roll => DemoInv'
<1> SUFFICES ASSUME DemoInv, Roll PROVE DemoInv'
  OBVIOUS
<1>1. /\ RecType /\ Counts /\ rpc = "roll"
      /\ UNCHANGED <<ti, pos, chunk, episodes, index>>
  BY DEF DemoInv, Roll
<1>2. Task' = Task /\ Pool' = Pool /\ PoolStart' = PoolStart /\ Want' = Want
  BY <1>1, PoolStays DEF Want
<1>3. /\ pos \in Nat /\ tried \in Nat /\ pos + tried <= Len(Pool) /\ Len(Pool) \in Nat
      /\ Here \in Nat /\ PoolStart \in Nat
  BY <1>1, PoolIs DEF RecType, Here
<1>4. \/ rpc' = "failed" /\ UNCHANGED <<tried, shard>>
      \/ tried' = tried + 1 /\ pos + tried' <= Len(Pool) /\ rpc' = "roll" /\ shard' = shard
      \/ /\ tried' = tried + 1 /\ pos + tried' <= Len(Pool) /\ rpc' = "shard"
         /\ shard' = [shard EXCEPT ![Pool[pos + tried + 1]] = "torn"]
  BY <1>1, <1>3 DEF Roll
<1>5. tried' \in Nat /\ pos + tried' <= Len(Pool) /\ tried <= tried'
  BY <1>3, <1>4
<1>6. RecType'
  <2>1. shard' \in [DemoSeed0..EvalSeed0 - 1 -> Shards]
    BY <1>1, <1>4 DEF RecType, Shards
  <2>2. QED
    BY <1>1, <1>2, <1>4, <1>5, <2>1 DEF RecType, RecordEnded
<1>7. CASE rpc' # "shard"
  <2>1. shard' = shard
    BY <1>4, <1>7
  <2>2. Gathered'
    <3>1. Within(chunk, Here, Here + tried')
      BY <1>1, <1>3, <1>5 DEF DemoInv, Gathered, Within, RecType
    <3>2. QED
      BY <1>1, <1>2, <2>1, <3>1 DEF DemoInv, Gathered, Here, OnDisk
  <2>3. Counts'
    BY <1>1, <1>2, <1>4, <1>7 DEF Counts
  <2>4. TornIsCurrent'
    BY <1>1, <2>1 DEF DemoInv, TornIsCurrent
  <2>5. TasksListed' /\ \A t \in Names : Listed(t)'
    <3>1. Begun' = Begun /\ rpc' # "idle"
      BY <1>1, <1>4 DEF Begun
    <3>2. \A t \in Names : Listed(t)'
      BY <1>1, <2>1, <3>1, ListedStays DEF DemoInv
    <3>3. TasksListed'
      BY <1>1, <1>2, <1>4 DEF DemoInv, TasksListed, WholeOf
    <3>4. QED
      BY <3>2, <3>3
  <2>6. QED
    BY <1>6, <2>2, <2>3, <2>4, <2>5 DEF DemoInv
<1>8. CASE rpc' = "shard"
  <2>1. tried' = tried + 1 /\ shard' = [shard EXCEPT ![Pool[pos + tried']] = "torn"]
    BY <1>3, <1>4, <1>8
  <2>2. /\ Pool[pos + tried'] = Writing' /\ Writing' \in DemoSeed0..EvalSeed0 - 1
        /\ Writing' = Here + tried /\ Writing' \in Nat
        /\ FirstSeed(Task) <= Writing' /\ Writing' < FirstSeed(Task) + SeedsPerTask
    <3>1. pos + tried' \in 1..Len(Pool)
      BY <1>3, <1>5, <2>1
    <3>2. Pool[pos + tried'] = PoolStart + (pos + tried') - 1
          /\ Pool[pos + tried'] \in DemoSeed0..EvalSeed0 - 1
      BY <1>1, <3>1, PoolIs
    <3>3. Writing' = Here + tried /\ Writing' = PoolStart + (pos + tried') - 1
      BY <1>1, <1>2, <1>3, <2>1 DEF Writing, Here
    <3>4. /\ FirstSeed(Task) \in Nat /\ SeedsPerTask \in Nat /\ FirstSeed(Task) <= PoolStart
          /\ PoolStart + Len(Pool) <= FirstSeed(Task) + SeedsPerTask
      BY <1>1, PoolIs, Sizes
    <3>5. FirstSeed(Task) <= Writing' /\ Writing' < FirstSeed(Task) + SeedsPerTask
          /\ Writing' \in Nat
      BY <1>3, <1>5, <2>1, <3>3, <3>4
    <3>6. QED
      BY <3>2, <3>3, <3>5
  <2>3. \A s \in DemoSeed0..EvalSeed0 - 1 : shard'[s] = IF s = Writing' THEN "torn" ELSE shard[s]
    BY <1>1, <2>1, <2>2 DEF RecType
  <2>4. Gathered' /\ Within(chunk, Here, Writing')
    <3>1. Within(chunk, Here, Here + tried)
      BY DEF DemoInv, Gathered
    <3>2. chunk \in Seq(Nat) /\ episodes \in Seq(Nat)
      BY <1>1 DEF RecType
    <3>3. Within(chunk, Here, Here + tried') /\ Within(chunk, Here, Writing')
      BY <1>3, <2>1, <2>2, <3>1, <3>2 DEF Within
    <3>4. \A i \in DOMAIN chunk : chunk[i] # Writing' /\ shard'[chunk[i]] = shard[chunk[i]]
      BY <1>1, <2>1, <2>2, <3>2, <3>3 DEF Within, RecType
    <3>5. Within(episodes, PoolStart, Here)
      BY DEF DemoInv, Gathered
    <3>6. \A i \in DOMAIN episodes :
             episodes[i] # Writing' /\ shard'[episodes[i]] = shard[episodes[i]]
      BY <1>1, <1>3, <2>1, <2>2, <3>2, <3>5 DEF Within, RecType
    <3>7. QED
      BY <1>1, <1>2, <3>3, <3>4, <3>6 DEF DemoInv, Gathered, OnDisk, Here
  <2>5. Counts'
    BY <1>1, <1>2, <1>3, <1>8, <2>1, <2>4 DEF Counts, Here
  <2>6. TornIsCurrent'
    <3>1. DOMAIN shard = DemoSeed0..EvalSeed0 - 1 /\ DOMAIN shard' = DOMAIN shard
      BY <1>1, <2>1 DEF RecType
    <3>2. \A s \in DOMAIN shard : shard[s] # "torn"
      BY <1>1 DEF DemoInv, TornIsCurrent
    <3>3. QED
      BY <1>3, <1>8, <2>1, <2>3, <3>1, <3>2 DEF TornIsCurrent
  <2>7. TasksListed' /\ \A t \in Names : Listed(t)'
    <3>1. Begun' = Begun /\ rpc' # "idle" /\ Task \in Begun
      BY <1>1, <1>4, Sizes DEF Begun, RecType, Task
    <3>2. \A s \in DemoSeed0..EvalSeed0 - 1 :
              \/ shard'[s] = shard[s]
              \/ /\ FirstSeed(Task) <= s /\ s < FirstSeed(Task) + SeedsPerTask
                 /\ shard'[s] \in {"new", "torn"} /\ Task \in Begun'
      BY <2>2, <2>3, <3>1
    <3>3. \A t \in Names : Listed(t)'
      BY <1>1, <3>1, <3>2, ListedStays DEF DemoInv
    <3>4. TasksListed'
      BY <1>1, <1>2, <1>8 DEF DemoInv, TasksListed, WholeOf
    <3>5. QED
      BY <3>3, <3>4
  <2>8. QED
    BY <1>6, <2>4, <2>5, <2>6, <2>7 DEF DemoInv
<1>9. QED
  BY <1>7, <1>8

\* A shard that is written joins what is gathered.
LEMMA ShardWrittenKeeps == DemoInv /\ ShardWritten => DemoInv'
<1> SUFFICES ASSUME DemoInv, ShardWritten PROVE DemoInv'
  OBVIOUS
<1>1. /\ RecType /\ rpc = "shard" /\ tried > 0
      /\ UNCHANGED <<ti, pos, tried, episodes, index>>
      /\ chunk' = Append(chunk, Pool[pos + tried])
      /\ shard' = [shard EXCEPT ![Pool[pos + tried]] = "new"]
      /\ rpc' = IF Len(chunk') < Want THEN "roll" ELSE "index"
      /\ Len(chunk) < Want /\ Len(episodes) < PerTask
  BY DEF DemoInv, ShardWritten, Counts
<1>2. /\ Task' = Task /\ Pool' = Pool /\ PoolStart' = PoolStart /\ Want' = Want
      /\ Here' = Here /\ Writing' = Writing
  BY <1>1, PoolStays DEF Want, Here, Writing
<1>3. /\ Pool[pos + tried] = Writing /\ Writing \in DemoSeed0..EvalSeed0 - 1
      /\ Writing \in Nat /\ Here <= Writing
      /\ FirstSeed(Task) <= Writing /\ Writing < FirstSeed(Task) + SeedsPerTask
  BY <1>1, WritingIs
<1>4. /\ pos \in Nat /\ tried \in Nat /\ Here \in Nat /\ Writing < Here + tried
      /\ chunk \in Seq(Nat) /\ episodes \in Seq(Nat)
  <2>1. pos \in Nat /\ tried \in Nat /\ PoolStart \in Nat
    BY <1>1, PoolIs DEF RecType
  <2>2. QED
    BY <1>1, <2>1 DEF RecType, Here, Writing
<1>5. /\ chunk' \in Seq(Nat) /\ Len(chunk') = Len(chunk) + 1
      /\ DOMAIN chunk' = 1..Len(chunk) + 1 /\ DOMAIN chunk = 1..Len(chunk) /\ Len(chunk) \in Nat
      /\ \A i \in 1..Len(chunk) : chunk'[i] = chunk[i]
      /\ chunk'[Len(chunk) + 1] = Writing
  BY <1>1, <1>3, <1>4, AppendProperties
<1>6. \A s \in DemoSeed0..EvalSeed0 - 1 : shard'[s] = IF s = Writing THEN "new" ELSE shard[s]
  BY <1>1, <1>3 DEF RecType
<1>7. RecType'
  BY <1>1, <1>2, <1>3, <1>5 DEF RecType, Shards
<1>8. Gathered'
  <2>1. Within(chunk, Here, Writing)
    BY <1>1 DEF DemoInv, Counts
  <2>2. /\ Rising(chunk') /\ Within(chunk', Here, Here + tried)
        /\ \A i \in DOMAIN chunk' : chunk'[i] = Writing \/ (i \in DOMAIN chunk /\ chunk'[i] = chunk[i])
    <3>1. Rising(chunk)
      BY DEF DemoInv, Gathered
    <3>2. Here + tried \in Nat
      BY <1>4
    <3>3. chunk' = Append(chunk, Writing)
      BY <1>1, <1>3
    <3>4. QED
      BY <1>3, <1>4, <2>1, <3>1, <3>2, <3>3, AppendRises
  <2>3. \A s \in Nat : s # Writing => shard'[s] = shard[s]
    BY <1>1, <1>3 DEF RecType
  <2>4. OnDisk(chunk, {"new"}) /\ OnDisk(episodes, {"new"})
        /\ Within(episodes, PoolStart, Here) /\ Rising(episodes)
    BY DEF DemoInv, Gathered
  <2>5. \A i \in DOMAIN chunk' : shard'[chunk'[i]] = "new"
    <3>1. \A i \in DOMAIN chunk : chunk[i] \in Nat /\ chunk[i] # Writing
      BY <1>3, <1>4, <2>1 DEF Within
    <3>2. shard'[Writing] = "new"
      BY <1>3, <1>6
    <3>3. QED
      BY <2>2, <2>3, <2>4, <3>1, <3>2 DEF OnDisk
  <2>6. \A i \in DOMAIN episodes : shard'[episodes[i]] = "new"
    <3>1. \A i \in DOMAIN episodes : episodes[i] \in Nat /\ episodes[i] # Writing
      BY <1>3, <1>4, <2>4 DEF Within
    <3>2. QED
      BY <2>3, <2>4, <3>1 DEF OnDisk
  <2>7. QED
    BY <1>1, <1>2, <2>2, <2>4, <2>5, <2>6 DEF Gathered, OnDisk
<1>9. Counts'
  <2>1. Want \in Nat \ {0}
    BY <1>1, WantIs
  <2>2. QED
    BY <1>1, <1>2, <1>5, <2>1 DEF DemoInv, Counts
<1>10. TornIsCurrent'
  <2>1. DOMAIN shard = DemoSeed0..EvalSeed0 - 1 /\ DOMAIN shard' = DOMAIN shard
    BY <1>1 DEF RecType
  <2>2. QED
    BY <1>6, <2>1 DEF DemoInv, TornIsCurrent
<1>11. TasksListed' /\ \A t \in Names : Listed(t)'
  <2>1. rpc' \in {"roll", "index"}
    BY <1>1
  <2>2. Begun' = Begun /\ rpc' # "idle" /\ Task \in Begun
    BY <1>1, <2>1, Sizes DEF Begun, RecType, Task
  <2>3. \A s \in DemoSeed0..EvalSeed0 - 1 :
            \/ shard'[s] = shard[s]
            \/ /\ FirstSeed(Task) <= s /\ s < FirstSeed(Task) + SeedsPerTask
               /\ shard'[s] \in {"new", "torn"} /\ Task \in Begun'
    BY <1>3, <1>6, <2>2
  <2>4. \A t \in Names : Listed(t)'
    BY <1>1, <2>2, <2>3, ListedStays DEF DemoInv
  <2>5. TasksListed'
    BY <1>1, <1>2, <2>1 DEF DemoInv, TasksListed, WholeOf
  <2>6. QED
    BY <2>4, <2>5
<1>12. QED
  BY <1>7, <1>8, <1>9, <1>10, <1>11 DEF DemoInv

\* A step that writes the index of the current task only.
LEMMA OthersStayListed ==
    ASSUME DemoInv, ti' = ti \/ rpc' # "done", ti' \in {ti, ti + 1},
           ti' \in DOMAIN RecTasks, rpc # "idle", rpc' # "idle",
           shard' = shard, NEW e, index' = [index EXCEPT ![Task] = e],
           NEW t \in Names \ {Task}
    PROVE  Listed(t)'
<1>1. index'[t] = index[t]
  BY DEF DemoInv, RecType
<1>2. Begun \subseteq Begun'
  BY Sizes DEF Begun, DemoInv, RecType
<1>3. QED
  BY <1>1, <1>2, ListedStays DEF DemoInv

\* An index is emptied before it is written.
LEMMA IndexOpenedKeeps == DemoInv /\ IndexOpened => DemoInv'
<1> SUFFICES ASSUME DemoInv, IndexOpened PROVE DemoInv'
  OBVIOUS
<1>1. /\ RecType /\ rpc \in {"index", "whole"}
      /\ UNCHANGED <<ti, pos, tried, chunk, episodes, shard>>
      /\ rpc' = IF rpc = "index" THEN "indexed" ELSE "wholed"
      /\ index' = [index EXCEPT ![Task] = TornIndex]
  BY DEF DemoInv, IndexOpened
<1>2. /\ Task' = Task /\ Pool' = Pool /\ PoolStart' = PoolStart /\ Want' = Want
      /\ Here' = Here /\ Writing' = Writing
  BY <1>1, PoolStays DEF Want, Here, Writing
<1>3. Task \in Names
  BY <1>1, PoolIs
<1>4. TornIndex \in Indices
  BY DEF TornIndex, Indices, Shards
<1>5. RecType'
  BY <1>1, <1>2, <1>3, <1>4 DEF RecType
<1>6. Gathered' /\ Counts'
  BY <1>1, <1>2 DEF DemoInv, Gathered, Counts, OnDisk
<1>7. TornIsCurrent'
  BY <1>1 DEF DemoInv, TornIsCurrent
<1>8. TasksListed'
  BY <1>1, <1>2, <1>3 DEF DemoInv, TasksListed, WholeOf, RecType
<1>9. ASSUME NEW t \in Names PROVE Listed(t)'
  <2>1. CASE t # Task
    BY <1>1, <2>1, OthersStayListed DEF RecType
  <2>2. CASE t = Task
    <3>1. index'[t] = TornIndex
      BY <1>1, <1>3, <2>2 DEF RecType
    <3>2. QED
      BY <1>1, <3>1 DEF Listed, TornIndex, Within, OnDisk
  <2>3. QED
    BY <2>1, <2>2
<1>10. QED
  BY <1>5, <1>6, <1>7, <1>8, <1>9 DEF DemoInv

\* The index lists the chunk, and the chunk joins what is gathered.
LEMMA ChunkListedKeeps == DemoInv /\ ChunkListed => DemoInv'
<1> SUFFICES ASSUME DemoInv, ChunkListed PROVE DemoInv'
  OBVIOUS
<1> DEFINE e == [demos |-> chunk, by |-> "new", whole |-> FALSE]
<1>1. /\ RecType /\ rpc = "indexed" /\ UNCHANGED <<ti, shard>>
      /\ index' = [index EXCEPT ![Task] = e]
      /\ pos' = pos + tried /\ tried' = 0 /\ chunk' = <<>>
      /\ episodes' = episodes \o chunk
      /\ rpc' = IF Len(episodes') < PerTask THEN "poll" ELSE "whole"
      /\ Len(chunk) = Want /\ Len(episodes) < PerTask
  BY DEF DemoInv, ChunkListed, Counts, Used
<1>2. /\ Task' = Task /\ Pool' = Pool /\ PoolStart' = PoolStart
  BY <1>1, PoolStays
<1>3. /\ Task \in Names /\ pos \in Nat /\ tried \in Nat /\ PoolStart \in Nat
      /\ pos + tried <= Len(Pool) /\ Len(Pool) \in Nat
      /\ FirstSeed(Task) \in Nat /\ SeedsPerTask \in Nat /\ FirstSeed(Task) <= PoolStart
      /\ PoolStart + Len(Pool) <= FirstSeed(Task) + SeedsPerTask
      /\ Here = PoolStart + pos /\ Here' = Here + tried
  <2>1. Task \in Names /\ PoolStart \in Nat /\ FirstSeed(Task) \in Nat /\ Len(Pool) \in Nat
        /\ FirstSeed(Task) <= PoolStart /\ SeedsPerTask \in Nat
        /\ PoolStart + Len(Pool) <= FirstSeed(Task) + SeedsPerTask
    BY <1>1, PoolIs, Sizes
  <2>2. pos \in Nat /\ tried \in Nat /\ pos + tried <= Len(Pool)
    BY <1>1 DEF RecType
  <2>3. Here = PoolStart + pos /\ Here' = PoolStart + (pos + tried)
    BY <1>1, <1>2 DEF Here
  <2>4. QED
    BY <2>1, <2>2, <2>3
<1>4. /\ chunk \in Seq(Nat) /\ episodes \in Seq(Nat)
      /\ DOMAIN chunk = 1..Len(chunk) /\ DOMAIN episodes = 1..Len(episodes)
      /\ Len(chunk) \in Nat \ {0} /\ Len(episodes) \in Nat
      /\ Len(episodes) + Len(chunk) <= PerTask
  <2>1. chunk \in Seq(Nat) /\ episodes \in Seq(Nat)
    BY <1>1 DEF RecType
  <2>2. Want \in Nat \ {0} /\ Want <= PerTask - Len(episodes)
    BY <1>1, WantIs
  <2>3. QED
    BY <1>1, <2>1, <2>2, Sizes
<1>5. /\ Rising(episodes) /\ Within(episodes, PoolStart, Here) /\ OnDisk(episodes, {"new"})
      /\ Rising(chunk) /\ Within(chunk, Here, Here') /\ OnDisk(chunk, {"new"})
  <2>1. Within(chunk, Here, Here + tried)
    BY DEF DemoInv, Gathered
  <2>2. Within(chunk, Here, Here')
    BY <1>3, <2>1
  <2>3. QED
    BY <2>2 DEF DemoInv, Gathered
<1>6. /\ episodes' \in Seq(Nat) /\ Len(episodes') = Len(episodes) + Len(chunk)
      /\ Rising(episodes') /\ Within(episodes', PoolStart, Here')
      /\ OnDisk(episodes', {"new"})
  <2>1. Here \in Nat /\ Here' \in Nat /\ PoolStart <= Here /\ Here <= Here'
    BY <1>3
  <2>2. PICK b \in Nat, c \in Nat : b = Here /\ c = Here'
    BY <2>1
  <2>3. /\ episodes' \in Seq(Nat) /\ Len(episodes') = Len(episodes) + Len(chunk)
        /\ Rising(episodes') /\ Within(episodes', PoolStart, c)
        /\ \A i \in DOMAIN episodes' :
              \/ i \in DOMAIN episodes /\ episodes'[i] = episodes[i]
              \/ \E k \in DOMAIN chunk : episodes'[i] = chunk[k]
    <3>1. PoolStart \in Nat /\ PoolStart <= b /\ b <= c
      BY <1>3, <2>1, <2>2
    <3>2. Within(episodes, PoolStart, b) /\ Within(chunk, b, c)
      BY <1>5, <2>2
    <3>3. /\ episodes \in Seq(Nat) /\ Rising(episodes)
          /\ chunk \in Seq(Nat) /\ Rising(chunk)
      BY <1>4, <1>5
    <3>4. episodes' = episodes \o chunk
      BY <1>1
    <3> DEFINE r == episodes \o chunk
    <3>5. /\ r \in Seq(Nat) /\ Len(r) = Len(episodes) + Len(chunk)
          /\ Rising(r) /\ Within(r, PoolStart, c)
          /\ \A i \in DOMAIN r : \/ i \in DOMAIN episodes /\ r[i] = episodes[i]
                               \/ \E k \in DOMAIN chunk : r[i] = chunk[k]
      BY <3>1, <3>2, <3>3, ConcatRises
    <3> HIDE DEF r
    <3>6. episodes' = r
      BY <3>4 DEF r
    <3>7. QED
      BY <3>5, <3>6
  <2>4. QED
    BY <1>5, <2>2, <2>3 DEF OnDisk
<1>7. e \in Indices
  BY <1>4 DEF Indices, Shards
<1>8. RecType'
  <2>1. /\ pos' \in Nat /\ tried' \in Nat /\ pos' + tried' <= Len(Pool)
        /\ chunk' \in Seq(Nat)
    BY <1>1, <1>3
  <2>2. index' \in [Names -> Indices]
    BY <1>1, <1>7 DEF RecType
  <2>3. QED
    BY <1>1, <1>2, <1>6, <2>1, <2>2 DEF RecType
<1>9. Gathered'
  <2>1. DOMAIN chunk' = {}
    BY <1>1
  <2>2. OnDisk(episodes, {"new"})'
    BY <1>1, <1>6 DEF OnDisk
  <2>3. QED
    BY <1>2, <1>6, <2>1, <2>2 DEF Gathered, Rising, Within, OnDisk
<1>10. Counts'
  BY <1>1, <1>4, <1>6, Sizes DEF Counts
<1>11. TornIsCurrent'
  BY <1>1 DEF DemoInv, TornIsCurrent
<1>12. TasksListed'
  BY <1>1, <1>2, <1>3 DEF DemoInv, TasksListed, WholeOf, RecType
<1>13. ASSUME NEW t \in Names PROVE Listed(t)'
  <2>1. CASE t # Task
    BY <1>1, <2>1, OthersStayListed DEF RecType
  <2>2. CASE t = Task
    <3>1. index'[t] = e
      BY <1>1, <1>3, <2>2 DEF RecType
    <3>2. Task \in Begun'
      BY <1>1, Sizes DEF Begun, RecType, Task
    <3>3. Within(chunk, FirstSeed(t), FirstSeed(t) + SeedsPerTask)
      <4>1. FirstSeed(Task) <= Here /\ Here' <= FirstSeed(Task) + SeedsPerTask
            /\ Here \in Nat /\ Here' \in Nat
        BY <1>3
      <4>2. \A i \in DOMAIN chunk : chunk[i] \in Nat /\ Here <= chunk[i] /\ chunk[i] < Here'
        BY <1>4, <1>5 DEF Within
      <4>3. QED
        BY <1>3, <2>2, <4>1, <4>2 DEF Within
    <3>4. \A i \in DOMAIN chunk : shard'[chunk[i]] = "new"
      BY <1>1, <1>5 DEF OnDisk
    <3>5. /\ index'[t].demos = chunk /\ index'[t].by = "new" /\ index'[t].whole = FALSE
      BY <3>1
    <3>6. QED
      BY <1>4, <2>2, <3>2, <3>3, <3>4, <3>5 DEF Listed, OnDisk
  <2>3. QED
    BY <2>1, <2>2
<1>14. QED
  BY <1>8, <1>9, <1>10, <1>11, <1>12, <1>13 DEF DemoInv

\* The index lists the whole of a task, and the job goes on to the next.
LEMMA TaskListedKeeps == DemoInv /\ TaskListed => DemoInv'
<1> SUFFICES ASSUME DemoInv, TaskListed PROVE DemoInv'
  OBVIOUS
<1> DEFINE e == [demos |-> episodes, by |-> "new", whole |-> TRUE]
<1>1. /\ RecType /\ rpc = "wholed" /\ UNCHANGED <<tried, chunk, shard>>
      /\ index' = [index EXCEPT ![Task] = e]
      /\ chunk = <<>> /\ tried = 0 /\ Len(episodes) = PerTask
      /\ \/ /\ ti < Len(RecTasks) /\ ti' = ti + 1 /\ pos' = 0 /\ episodes' = <<>> /\ rpc' = "poll"
         \/ ti >= Len(RecTasks) /\ rpc' = "done" /\ UNCHANGED <<ti, pos, episodes>>
  BY Sizes DEF DemoInv, TaskListed, Counts, RecType
<1>2. /\ Task \in Names /\ PoolStart \in Nat /\ pos \in Nat /\ pos <= Len(Pool) /\ Len(Pool) \in Nat
      /\ FirstSeed(Task) \in Nat /\ SeedsPerTask \in Nat /\ FirstSeed(Task) <= PoolStart
      /\ PoolStart + Len(Pool) <= FirstSeed(Task) + SeedsPerTask /\ Here = PoolStart + pos
  <2>1. pos \in Nat /\ tried \in Nat /\ pos + tried <= Len(Pool)
    BY <1>1 DEF RecType
  <2>2. QED
    BY <1>1, <2>1, PoolIs, Sizes DEF Here
<1>3. /\ episodes \in Seq(Nat) /\ e \in Indices /\ PerTask \in Nat \ {0}
      /\ DOMAIN episodes = 1..Len(episodes)
  BY <1>1, Sizes DEF RecType, Indices, Shards
<1>4. ti \in 1..Len(RecTasks) /\ ti' \in 1..Len(RecTasks) /\ Len(RecTasks) \in Nat
      /\ DOMAIN RecTasks = 1..Len(RecTasks)
  BY <1>1, Sizes DEF RecType
<1>5. \A t \in Names : index'[t] = IF t = Task THEN e ELSE index[t]
  BY <1>1 DEF RecType
<1>6. RecType'
  <2>1. index' \in [Names -> Indices]
    BY <1>1, <1>3 DEF RecType
  <2>2. CASE rpc' = "poll"
    <3>1. /\ pos' = 0 /\ tried' = 0 /\ episodes' = <<>> /\ chunk' = <<>>
      BY <1>1, <2>2
    <3>2. Task' \in Names
      BY <1>4, Sizes, ElementOfSeq DEF Task
    <3>3. Len(Pool') \in Nat
      <4> DEFINE n == Min({2 * PerTask + Slack, SeedsPerTask - Offset})
      <4>1. n \in Nat
        <5>1. 2 * PerTask + Slack \in Nat /\ SeedsPerTask - Offset \in Nat
          BY Sizes
        <5>2. QED
          BY <5>1, LeastOfTwo
      <4> HIDE DEF n
      <4>2. Pool' = DemoSeeds(Task', n, Offset)
        BY DEF Pool, n
      <4>3. PICK u \in Names : u = Task'
        BY <3>2
      <4>4. Len(DemoSeeds(u, n, Offset)) = n
        BY <4>1, BlockIs, Sizes
      <4>5. QED
        BY <4>1, <4>2, <4>3, <4>4
    <3>4. QED
      BY <1>1, <1>4, <2>1, <2>2, <3>1, <3>3 DEF RecType
  <2>3. CASE rpc' = "done"
    <3>1. Pool' = Pool /\ UNCHANGED <<ti, pos, tried, chunk, episodes>>
      BY <1>1, <2>3, PoolStays
    <3>2. QED
      BY <1>1, <2>1, <2>3, <3>1 DEF RecType, RecordEnded
  <2>4. QED
    BY <1>1, <2>2, <2>3
<1>7. Gathered'
  <2>1. CASE rpc' = "poll"
    BY <1>1, <2>1 DEF Gathered, Rising, Within, OnDisk
  <2>2. CASE rpc' = "done"
    BY <1>1, <2>2, PoolStays DEF DemoInv, Gathered, Here, OnDisk
  <2>3. QED
    BY <1>1, <2>1, <2>2
<1>8. Counts'
  BY <1>1, <1>3 DEF DemoInv, Counts
<1>9. TornIsCurrent'
  BY <1>1 DEF DemoInv, TornIsCurrent
<1>11. \A t \in Names : t = Task \/ WholeOf(t) => index'[t].by = "new" /\ index'[t].whole
  BY <1>5 DEF WholeOf
<1>12. TasksListed'
  <2>1. \A i \in 1..ti : RecTasks[i] \in Names
    BY <1>4, Sizes, ElementOfSeq
  <2>2. \A i \in 1..ti : index'[RecTasks[i]].by = "new" /\ index'[RecTasks[i]].whole
    <3>1. ASSUME NEW i \in 1..ti PROVE RecTasks[i] = Task \/ WholeOf(RecTasks[i])
      <4>1. CASE i < ti
        BY <4>1 DEF DemoInv, TasksListed
      <4>2. CASE ~(i < ti)
        <5>1. i = ti
          BY <1>4, <4>2
        <5>2. QED
          BY <5>1 DEF Task
      <4>3. QED
        BY <4>1, <4>2
    <3>2. QED
      BY <1>11, <2>1, <3>1
  <2>3. CASE rpc' = "poll"
    <3>1. ti' = ti + 1
      BY <1>1, <2>3
    <3>2. QED
      BY <1>4, <2>2, <2>3, <3>1 DEF TasksListed, WholeOf
  <2>4. CASE rpc' = "done"
    <3>1. ti' = ti /\ ~(ti < Len(RecTasks))
      BY <1>1, <1>4, <2>4
    <3>2. QED
      <4>1. ti = Len(RecTasks)
        <5>1. ti \in Nat /\ ti <= Len(RecTasks) /\ Len(RecTasks) \in Nat
          BY <1>4
        <5>2. QED
          BY <3>1, <5>1
      <4>2. QED
        BY <1>4, <2>2, <3>1, <4>1 DEF TasksListed, WholeOf, Task
  <2>5. QED
    BY <1>1, <2>3, <2>4
<1>13. ASSUME NEW t \in Names PROVE Listed(t)'
  <2>1. CASE t # Task
    <3>1. rpc # "idle" /\ rpc' # "idle" /\ ti' \in {ti, ti + 1} /\ ti' \in DOMAIN RecTasks
          /\ (ti' = ti \/ rpc' # "done")
      BY <1>1, <1>4
    <3>2. QED
      BY <1>1, <2>1, <3>1, OthersStayListed
  <2>2. CASE t = Task
    <3>1. index'[t] = e
      BY <1>5, <2>2
    <3>2. Task \in Begun'
      BY <1>1, <1>4 DEF Begun, Task
    <3>3. Within(episodes, FirstSeed(t), FirstSeed(t) + SeedsPerTask)
      <4>1. Within(episodes, PoolStart, Here)
        BY DEF DemoInv, Gathered
      <4>2. QED
        BY <1>2, <1>3, <2>2, <4>1 DEF Within
    <3>5. Rising(episodes) /\ \A i \in DOMAIN episodes : shard'[episodes[i]] = "new"
      BY <1>1 DEF DemoInv, Gathered, OnDisk
    <3>6. QED
      <4>1. index'[t].demos = episodes /\ index'[t].by = "new" /\ index'[t].whole = TRUE
        BY <3>1
      <4>2. QED
        <5>2. Len(episodes) = PerTask /\ Len(episodes) > 0
          BY <1>1, <1>3
        <5>3. QED
          BY <2>2, <3>2, <3>3, <3>5, <4>1, <5>2 DEF Listed, OnDisk
  <2>3. QED
    BY <2>1, <2>2
<1>14. QED
  BY <1>6, <1>7, <1>8, <1>9, <1>12, <1>13 DEF DemoInv

\* Every step of the recording job keeps its invariant.
LEMMA RecordKeeps == DemoInv /\ Record => DemoInv'
BY RecordMovesOn, RollKeeps, ShardWrittenKeeps, IndexOpenedKeeps, ChunkListedKeeps,
   TaskListedKeeps DEF Record

\* It holds at first, whatever datasets earlier jobs left.
LEMMA RecordHoldsAtFirst == DemoInit => DemoInv
<1> SUFFICES ASSUME DemoInit PROVE DemoInv
  OBVIOUS
<1>1. PICK old \in OldSets :
        /\ index = [t \in Names |->
                     IF t \in old THEN [demos |-> OldDemos(t), by |-> "old", whole |-> TRUE]
                     ELSE NoIndex]
        /\ shard = [s \in DemoSeed0..EvalSeed0 - 1 |->
                     IF \E t \in old : \E i \in 1..PerTask : OldDemos(t)[i] = s
                     THEN "old" ELSE "none"]
  BY DEF DemoInit, Names
<1>2. /\ rpc = "idle" /\ ti = 1 /\ pos = 0 /\ tried = 0 /\ chunk = <<>> /\ episodes = <<>>
  BY DEF DemoInit
<1>3. old \subseteq Names
  BY DemoAssumption DEF DemoAssumption, Names
<1>4. ASSUME NEW t \in Names
      PROVE  /\ OldDemos(t) \in Seq(Nat) /\ Len(OldDemos(t)) = PerTask
             /\ DOMAIN OldDemos(t) = 1..PerTask
             /\ \A i \in 1..PerTask : OldDemos(t)[i] = FirstSeed(t) + Offset + i - 1
             /\ Rising(OldDemos(t))
             /\ Within(OldDemos(t), FirstSeed(t), FirstSeed(t) + SeedsPerTask)
             /\ \A i \in 1..PerTask : OldDemos(t)[i] \in DemoSeed0..EvalSeed0 - 1
  <2>1. PerTask \in Nat \ {0} /\ Offset \in Nat /\ SeedsPerTask \in Nat
        /\ PerTask + Offset <= SeedsPerTask
    BY Sizes
  <2>2. /\ OldDemos(t) \in Seq(Nat) /\ Len(OldDemos(t)) = PerTask
        /\ DOMAIN OldDemos(t) = 1..PerTask
        /\ \A i \in 1..PerTask : OldDemos(t)[i] = FirstSeed(t) + Offset + i - 1
    BY <2>1, BlockIs DEF OldDemos
  <2>3. FirstSeed(t) \in Nat \ {0} /\ FirstSeed(t) + SeedsPerTask <= EvalSeed0
        /\ EvalSeed0 \in Nat
    BY FirstSeedIs, Sizes DEF EvalSeed0, DemoSeed0
  <2>4. \A i \in 1..PerTask : /\ FirstSeed(t) <= FirstSeed(t) + Offset + i - 1
                              /\ FirstSeed(t) + Offset + i - 1 < FirstSeed(t) + SeedsPerTask
                              /\ FirstSeed(t) + Offset + i - 1 \in 1..EvalSeed0 - 1
    BY <2>1, <2>3
  <2>5. \A i, k \in 1..PerTask : i < k => FirstSeed(t) + Offset + i - 1 < FirstSeed(t) + Offset + k - 1
    BY <2>1, <2>3
  <2>6. QED
    BY <2>2, <2>4, <2>5 DEF Rising, Within, DemoSeed0
<1>5. \A t \in Names : NoIndex \in Indices /\ [demos |-> OldDemos(t), by |-> "old", whole |-> TRUE] \in Indices
  BY <1>4 DEF Indices, Shards, NoIndex
<1>6. RecType
  <2>1. index \in [Names -> Indices]
    BY <1>1, <1>5
  <2>2. shard \in [DemoSeed0..EvalSeed0 - 1 -> Shards]
    BY <1>1 DEF Shards
  <2>3. Task \in Names
    BY <1>2, Sizes, ElementOfSeq DEF Task
  <2>4. Len(Pool) \in Nat
    <3> DEFINE n == Min({2 * PerTask + Slack, SeedsPerTask - Offset})
    <3>1. n \in Nat
      <4>1. 2 * PerTask + Slack \in Nat /\ SeedsPerTask - Offset \in Nat
        BY Sizes
      <4>2. QED
        BY <4>1, LeastOfTwo
    <3> HIDE DEF n
    <3>2. Len(DemoSeeds(Task, n, Offset)) = n
      BY <2>3, <3>1, BlockIs, Sizes
    <3>3. QED
      BY <3>1, <3>2 DEF Pool, n
  <2>5. QED
    BY <1>2, <2>1, <2>2, <2>4, Sizes DEF RecType
<1>7. Gathered /\ Counts /\ TasksListed
  BY <1>2, Sizes DEF Gathered, Counts, TasksListed, Rising, Within, OnDisk
<1>8. TornIsCurrent
  BY <1>1 DEF TornIsCurrent
<1>9. ASSUME NEW t \in Names PROVE Listed(t)
  <2>1. CASE t \in old
    <3>1. index[t].demos = OldDemos(t) /\ index[t].by = "old" /\ index[t].whole = TRUE
      BY <1>1, <2>1
    <3>2. ASSUME NEW i \in 1..PerTask PROVE shard[OldDemos(t)[i]] = "old"
      <4>1. OldDemos(t)[i] \in DemoSeed0..EvalSeed0 - 1
        BY <1>4
      <4>2. \E u \in old : \E k \in 1..PerTask : OldDemos(u)[k] = OldDemos(t)[i]
        BY <2>1
      <4>3. QED
        BY <1>1, <4>1, <4>2
    <3>3. QED
      BY <1>4, <3>1, <3>2 DEF Listed, OnDisk
  <2>2. CASE t \notin old
    <3>1. index[t] = NoIndex
      BY <1>1, <2>2
    <3>2. QED
      BY <3>1 DEF Listed, NoIndex, Within, OnDisk
  <2>3. QED
    BY <2>1, <2>2
<1>10. QED
  BY <1>6, <1>7, <1>8, <1>9 DEF DemoInv

\* It gives SetIsWhole.
LEMMA DemosAreWhole == DemoInv => SetIsWhole
<1> SUFFICES ASSUME DemoInv PROVE SetIsWhole
  OBVIOUS
<1>1. RecType /\ DOMAIN index = Names
  BY DEF DemoInv, RecType
<1>2. ASSUME NEW t \in Names
      PROVE  /\ index[t].demos \in Seq(Nat) /\ index[t].by \in Shards
             /\ \A i \in DOMAIN index[t].demos :
                   /\ index[t].demos[i] \in Nat
                   /\ FirstSeed(t) <= index[t].demos[i]
                   /\ index[t].demos[i] < FirstSeed(t) + SeedsPerTask
                   /\ index[t].demos[i] \in DOMAIN shard
  <2>1. index[t] \in Indices
    BY <1>1 DEF RecType
  <2>2. Within(index[t].demos, FirstSeed(t), FirstSeed(t) + SeedsPerTask)
    BY DEF DemoInv, Listed
  <2>3. FirstSeed(t) \in Nat \ {0} /\ FirstSeed(t) + SeedsPerTask <= EvalSeed0 /\ EvalSeed0 \in Nat
    BY FirstSeedIs, Sizes DEF EvalSeed0, DemoSeed0
  <2>4. DOMAIN shard = 1..EvalSeed0 - 1
    BY <1>1 DEF RecType, DemoSeed0
  <2>5. index[t].demos \in Seq(Nat) /\ index[t].by \in Shards
    BY <2>1 DEF Indices
  <2>6. ASSUME NEW i \in DOMAIN index[t].demos
        PROVE  /\ index[t].demos[i] \in Nat
               /\ FirstSeed(t) <= index[t].demos[i]
               /\ index[t].demos[i] < FirstSeed(t) + SeedsPerTask
    BY <2>2, <2>5 DEF Within
  <2>7. QED
    BY <2>3, <2>4, <2>5, <2>6, Sizes
<1>3. ListedAreThere
  <2>1. SUFFICES ASSUME NEW t \in Names, NEW i \in DOMAIN index[t].demos
                 PROVE  LET s == index[t].demos[i] IN
                        \/ shard[s] \in {"old", "new"}
                        \/ shard[s] = "torn" /\ rpc \in {"shard", "killed"} /\ s = Pool[pos + tried]
    BY <1>1 DEF ListedAreThere, SeqRange
  <2>2. shard[index[t].demos[i]] \in {"old", "new", "torn"}
    BY DEF DemoInv, Listed, OnDisk
  <2>3. CASE shard[index[t].demos[i]] = "torn"
    <3>1. rpc \in {"shard", "killed"} /\ tried > 0 /\ index[t].demos[i] = Writing
      BY <1>2, <2>3 DEF DemoInv, TornIsCurrent
    <3>2. Pool[pos + tried] = Writing
      BY <1>1, <3>1, WritingIs
    <3>3. QED
      BY <2>3, <3>1, <3>2
  <2>4. QED
    BY <2>2, <2>3
<1>4. rpc = "done" => \A i \in DOMAIN RecTasks : WholeOf(RecTasks[i])
  <2>1. SUFFICES ASSUME rpc = "done", NEW i \in DOMAIN RecTasks PROVE WholeOf(RecTasks[i])
    OBVIOUS
  <2>2. ti = Len(RecTasks) /\ WholeOf(Task)
    BY <2>1 DEF DemoInv, TasksListed
  <2>3. i \in 1..ti /\ ti \in Nat
    BY <2>2, Sizes
  <2>4. CASE i = ti
    BY <2>2, <2>4 DEF Task
  <2>5. CASE i # ti
    <3>1. i < ti
      BY <2>3, <2>5
    <3>2. RecTasks[i] = Task \/ WholeOf(RecTasks[i])
      BY <2>3, <3>1 DEF DemoInv, TasksListed
    <3>3. QED
      BY <2>2, <3>2
  <2>6. QED
    BY <2>4, <2>5
<1>5. ASSUME NEW t \in Names, index[t].whole, NEW i \in DOMAIN index[t].demos
      PROVE  /\ shard[index[t].demos[i]] = index[t].by \/ rpc \notin {"idle", "done"}
             /\ index[t].demos[i] \in SeqRange(DemoSeeds(t, SeedsPerTask, 0))
  <2>1. index[t].by \in {"old", "new"}
    BY <1>5 DEF DemoInv, Listed
  <2>2. shard[index[t].demos[i]] = index[t].by \/ rpc \notin {"idle", "done"}
    <3>1. SUFFICES ASSUME rpc \in {"idle", "done"} PROVE shard[index[t].demos[i]] = index[t].by
      OBVIOUS
    <3>2. CASE index[t].by = "new"
      <4>1. shard[index[t].demos[i]] \in {"new", "torn"}
        BY <3>2 DEF DemoInv, Listed, OnDisk
      <4>2. shard[index[t].demos[i]] # "torn"
        BY <1>2, <3>1 DEF DemoInv, TornIsCurrent
      <4>3. QED
        BY <3>2, <4>1, <4>2
    <3>3. CASE index[t].by = "old"
      <4>1. t \notin Begun
        <5>1. CASE rpc = "idle"
          BY <5>1 DEF Begun
        <5>2. CASE rpc = "done"
          <6>1. ti = Len(RecTasks)
            BY <5>2 DEF DemoInv, TasksListed
          <6>2. \A k \in 1..ti : index[RecTasks[k]].by = "new"
            BY <1>4, <5>2, <6>1, Sizes DEF WholeOf
          <6>3. QED
            BY <3>3, <5>2, <6>2 DEF Begun
        <5>3. QED
          BY <3>1, <5>1, <5>2
      <4>2. QED
        BY <3>3, <4>1 DEF DemoInv, Listed, OnDisk
    <3>4. QED
      BY <2>1, <3>2, <3>3
  <2>3. index[t].demos[i] \in SeqRange(DemoSeeds(t, SeedsPerTask, 0))
    <3> DEFINE s == index[t].demos[i]
               k == s - FirstSeed(t) + 1
    <3>1. s \in Nat /\ FirstSeed(t) <= s /\ s < FirstSeed(t) + SeedsPerTask
      BY <1>2
    <3>2. FirstSeed(t) \in Nat /\ SeedsPerTask \in Nat /\ 0 \in Nat
      BY FirstSeedIs, Sizes
    <3> HIDE DEF s
    <3>3. k \in 1..SeedsPerTask /\ FirstSeed(t) + 0 + k - 1 = s
      BY <3>1, <3>2
    <3> HIDE DEF k
    <3>4. /\ DOMAIN DemoSeeds(t, SeedsPerTask, 0) = 1..SeedsPerTask
          /\ DemoSeeds(t, SeedsPerTask, 0)[k] = FirstSeed(t) + 0 + k - 1
      BY <3>2, <3>3, BlockIs
    <3>5. s \in SeqRange(DemoSeeds(t, SeedsPerTask, 0))
      BY <3>3, <3>4 DEF SeqRange
    <3>6. QED
      BY <3>5 DEF s
  <2>4. QED
    BY <2>2, <2>3
<1>6. WholeSetIsWhole
  <2>1. ASSUME NEW t \in Names, index[t].whole
        PROVE  Len(index[t].demos) = PerTask /\ Rising(index[t].demos)
    BY <2>1 DEF DemoInv, Listed
  <2>2. ASSUME NEW t \in Names, index[t].whole, NEW s \in SeqRange(index[t].demos)
        PROVE  /\ shard[s] = index[t].by \/ rpc \notin {"idle", "done"}
               /\ s \in SeqRange(DemoSeeds(t, SeedsPerTask, 0))
    BY <1>5, <2>2 DEF SeqRange
  <2>3. QED
    BY <1>1, <1>4, <2>1, <2>2 DEF WholeSetIsWhole, WholeOf, Rising
<1>7. QED
  BY <1>3, <1>6 DEF SetIsWhole

-----------------------------------------------------------------------------
(***************************************************************************)
(* The training job: what its checkpoints hold of the arms so far.         *)
(***************************************************************************)
IsSeq(s) == s \in Seq(SeqRange(s))

\* The training job's variables have their types.
TrainType ==
    /\ tpc \in {"idle", "arm", "load", "fit", "save", "next"} \cup TrainEnded
    /\ tpc # "idle" => Suite # <<>>
    /\ Suite # <<>> => preset \in {"suite", "single"}
    /\ arm \in Nat \ {0} /\ (tpc # "idle" => arm \in DOMAIN Arms)
    /\ step \in 0..Steps /\ seen \in BOOLEAN
    /\ captured \in Seq(0..Steps) /\ IsSeq(ckpts)
    /\ tpc = "idle" => arm = 1

\* seen says how an arm came to its end.
EndsOfArms ==
    /\ tpc \in {"idle", "arm", "load", "fit", "done"} => ~seen
    /\ tpc \in {"idle", "arm", "load"} => step = 0
    /\ tpc \in {"save", "next", "done"} => step = Steps \/ seen
    /\ tpc = "done" => arm = Len(Arms)

\* The nth checkpoint holds the first n arms, each as it was captured.
SavedArms(n) ==
    /\ ckpts[n].arms = [i \in 1..n |-> Arms[i][1]]
    /\ ckpts[n].trained = [i \in 1..n |-> captured[i]]
    /\ ckpts[n].at = n * Steps

\* A suite has saved once for each arm that ended, and only the arm at hand may have
\* ended early.
SuiteInv ==
    /\ Len(captured) = Len(ckpts) /\ Len(ckpts) \in {arm - 1, arm}
    /\ tpc \in {"idle", "arm", "load", "fit", "save", "failed"} => Len(ckpts) = arm - 1
    /\ tpc \in {"next", "done", "stopped"} => Len(ckpts) = arm
    /\ \A n \in 1..Len(ckpts) : SavedArms(n)
    /\ \A i \in 1..Len(ckpts) : i < arm => captured[i] = Steps
    /\ Len(ckpts) = arm => captured[arm] = step /\ (step = Steps \/ seen)

\* A lesson of one arm has it saved when it is through.
SingleInv ==
    /\ arm = 1
    /\ tpc \in {"next", "done"} => Len(ckpts) > 0 /\ ckpts[Len(ckpts)].trained = <<step>>

\* The datasets of the first n arms.
ArmsUpTo(n) == {Arms[i][2] : i \in 1..n}

\* The datasets in the cache are those of the arms so far, as whole as when they were
\* read.
CacheInv ==
    /\ tpc \in {"idle", "arm"} => DOMAIN cache = ArmsUpTo(arm - 1)
    /\ tpc \in {"load", "fit", "save", "next", "done"} => DOMAIN cache = ArmsUpTo(arm)
    /\ \A t \in DOMAIN cache :
          \/ cache[t] = Min({Demos, PerTask})
          \/ cache[t] > 0 /\ rpc # "idle" /\ t \in SeqRange(RecTasks)

\* The inductive invariant of the training job.
TrainInv ==
    /\ TrainType /\ EndsOfArms /\ CacheInv
    /\ preset = "suite" => SuiteInv
    /\ preset = "single" => SingleInv

\* A sequence of anything goes on with anything.
LEMMA AppendToAny ==
    ASSUME NEW s, IsSeq(s), NEW e
    PROVE  /\ IsSeq(Append(s, e)) /\ Len(s) \in Nat /\ Len(Append(s, e)) = Len(s) + 1
           /\ \A i \in 1..Len(s) : Append(s, e)[i] = s[i]
           /\ Append(s, e)[Len(s) + 1] = e
<1> DEFINE T == SeqRange(s) \cup {e}
           r == Append(s, e)
<1>1. s \in Seq(T) /\ e \in T
  BY DEF IsSeq
<1> HIDE DEF T
<1>2. /\ r \in Seq(T) /\ Len(s) \in Nat /\ Len(r) = Len(s) + 1
      /\ \A i \in 1..Len(s) : r[i] = s[i]
      /\ r[Len(s) + 1] = e
  BY <1>1, AppendProperties
<1>3. IsSeq(r)
  <2> HIDE DEF r
  <2>1. r \in [1..Len(r) -> T] /\ DOMAIN r = 1..Len(r) /\ Len(r) \in Nat
    BY <1>2
  <2>2. r \in [1..Len(r) -> SeqRange(r)]
    BY <2>1 DEF SeqRange
  <2>3. QED
    BY <2>1, <2>2 DEF IsSeq
<1>4. QED
  BY <1>2, <1>3

\* The suites' arms are pairs of a name and a dataset.
LEMMA SuitesAre ==
    /\ Suite # <<>> => /\ lesson \in {16, 17, 18}
                       /\ Len(Suite) \in Nat \ {0} /\ DOMAIN Suite = 1..Len(Suite)
                       /\ \A i \in 1..Len(Suite) : Suite[i][2] \in {"t0", "t1", "t2"}
<1>1. SUFFICES ASSUME Suite # <<>>
               PROVE  /\ lesson \in {16, 17, 18}
                      /\ Len(Suite) \in Nat \ {0} /\ DOMAIN Suite = 1..Len(Suite)
                      /\ \A i \in 1..Len(Suite) : Suite[i][2] \in {"t0", "t1", "t2"}
  OBVIOUS
<1>2. CASE lesson = 16
  <2>1. Suite = Arms16
    BY <1>2 DEF Suite
  <2>2. Arms16[1][2] = "t0" /\ Arms16[2][2] = "t1" /\ Arms16[3][2] = "t1"
    BY DEF Arms16
  <2>3. Len(Arms16) = 3 /\ DOMAIN Arms16 = 1..3
    BY DEF Arms16
  <2>4. QED
    BY <1>2, <2>1, <2>2, <2>3
<1>3. CASE lesson = 17
  BY <1>3 DEF Suite, Arms17
<1>4. CASE lesson = 18
  <2>1. Suite = Arms18
    BY <1>4 DEF Suite
  <2>2. Arms18[1][2] = "t2" /\ Arms18[2][2] = "t2" /\ Arms18[3][2] = "t2"
    BY DEF Arms18
  <2>3. Len(Arms18) = 3 /\ DOMAIN Arms18 = 1..3
    BY DEF Arms18
  <2>4. QED
    BY <1>4, <2>1, <2>2, <2>3
<1>5. lesson \in {16, 17, 18}
  BY <1>1 DEF Suite
<1>6. QED
  BY <1>2, <1>3, <1>4, <1>5

\* The arms of the lesson have a name and a dataset of a task.
LEMMA ArmsAre ==
    ASSUME Suite # <<>>
    PROVE  /\ Len(Arms) \in Nat \ {0} /\ DOMAIN Arms = 1..Len(Arms)
           /\ \A i \in 1..Len(Arms) : Arms[i][2] \in {"t0", "t1", "t2"} /\ Arms[i][2] \in Names
           /\ preset = "single" => Len(Arms) = 1
<1>1. /\ lesson \in {16, 17, 18}
      /\ Len(Suite) \in Nat \ {0} /\ DOMAIN Suite = 1..Len(Suite)
      /\ \A i \in 1..Len(Suite) : Suite[i][2] \in {"t0", "t1", "t2"}
  BY SuitesAre
<1>2. {"t0", "t1", "t2"} \subseteq Names
  BY TrainAssumption DEF TrainAssumption, Names
<1>3. CASE preset # "single"
  BY <1>1, <1>2, <1>3 DEF Arms
<1>4. CASE preset = "single"
  <2> DEFINE k == IF lesson = 16 THEN 1 ELSE Len(Suite)
  <2>1. k \in 1..Len(Suite)
    BY <1>1
  <2>2. Arms = <<Suite[k]>>
    BY <1>4 DEF Arms
  <2> HIDE DEF k
  <2>3. Len(Arms) = 1 /\ DOMAIN Arms = 1..1 /\ Arms[1] = Suite[k]
    BY <2>2
  <2>4. QED
    BY <1>1, <1>2, <2>1, <2>3
<1>5. QED
  BY <1>3, <1>4

\* Numbers of steps and demos are positive.
LEMMA StepsAre == Steps \in Nat \ {0} /\ CkptEvery \in Nat \ {0} /\ Demos \in Nat \ {0}
BY TrainAssumption DEF TrainAssumption

\* One more arm is one more dataset.
LEMMA UpToNext ==
    ASSUME NEW n \in Nat \ {0}
    PROVE  ArmsUpTo(n) = ArmsUpTo(n - 1) \cup {Arms[n][2]}
<1>1. 1..n = 1..(n - 1) \cup {n}
  OBVIOUS
<1>2. QED
  BY <1>1 DEF ArmsUpTo

\* Where a step of the job may lead that saves nothing and keeps its arm.
Moves ==
    \/ tpc = "idle" /\ tpc' = "arm"
    \/ tpc \in {"arm", "load"} /\ tpc' \in {"load", "fit", "failed"}
    \/ tpc = "fit" /\ tpc' \in {"fit", "save"}
    \/ tpc = "next" /\ tpc' \in {"stopped", "done"}
    \/ tpc \notin TrainEnded \cup {"idle"} /\ tpc' = "killed"

\* A step that moves on without saving keeps what is said of the checkpoints.
LEMMA NothingSaved ==
    ASSUME TrainInv, Moves,
           UNCHANGED <<lesson, preset, arm, captured, ckpts>>,
           Suite # <<>>, arm \in DOMAIN Arms, CacheInv',
           tpc' # "fit" \/ tpc # "fit" => step' = step,
           step' \in 0..Steps, seen' \in BOOLEAN,
           tpc' \notin {"save", "stopped"} => seen' = seen,
           tpc' = "save" => step = Steps \/ seen', tpc' = "stopped" => seen',
           tpc' = "done" => ~seen /\ arm = Len(Arms)
    PROVE  TrainInv'
<1>1. Arms' = Arms /\ Suite' = Suite /\ arm' = arm /\ ckpts' = ckpts /\ captured' = captured
      /\ preset' = preset
  BY DEF Arms, Suite
<1>2. TrainType'
  BY <1>1 DEF TrainInv, TrainType, TrainEnded, Moves
<1>3. EndsOfArms'
  BY <1>1 DEF TrainInv, TrainType, EndsOfArms, TrainEnded, Moves
<1>4. preset = "suite" => SuiteInv'
  <2>1. SUFFICES ASSUME preset = "suite" PROVE SuiteInv'
    OBVIOUS
  <2>2. SuiteInv /\ arm \in Nat \ {0} /\ Len(ckpts) \in Nat
    BY <2>1 DEF TrainInv, TrainType, IsSeq
  <2>3. \A n \in 1..Len(ckpts) : SavedArms(n)'
    BY <1>1, <2>2 DEF SuiteInv, SavedArms
  <2>4. Len(ckpts) = arm => tpc \in {"next", "done", "stopped", "killed"}
    BY <2>2 DEF SuiteInv, TrainInv, TrainType, TrainEnded
  <2>5. tpc \in {"next", "killed"} => step' = step /\ (seen => seen')
    BY DEF Moves, TrainEnded, TrainInv, TrainType
  <2>6. Len(ckpts) = arm => captured[arm] = step' /\ (step' = Steps \/ seen')
    BY <2>2, <2>4, <2>5 DEF SuiteInv, Moves, TrainEnded
  <2>7. /\ tpc' \in {"idle", "arm", "load", "fit", "save", "failed"} => Len(ckpts) = arm - 1
        /\ tpc' \in {"next", "done", "stopped"} => Len(ckpts) = arm
    BY <2>2 DEF SuiteInv, Moves, TrainEnded
  <2>8. QED
    BY <1>1, <2>2, <2>3, <2>6, <2>7 DEF SuiteInv
<1>5. preset = "single" => SingleInv'
  BY <1>1 DEF TrainInv, SingleInv, TrainEnded, Moves
<1>6. QED
  BY <1>1, <1>2, <1>3, <1>4, <1>5 DEF TrainInv

\* The cache stays good while the arm and the datasets read do.
LEMMA CacheStays ==
    ASSUME TrainInv, Moves, tpc = "arm" => tpc' \in {"failed", "killed"},
           UNCHANGED <<lesson, preset, arm, cache, rpc>>
    PROVE  CacheInv'
<1>1. Arms' = Arms
  BY DEF Arms, Suite
<1>2. arm = 1 \/ tpc # "idle"
  BY DEF TrainInv, TrainType
<1>3. QED
  BY <1>1, <1>2 DEF TrainInv, CacheInv, ArmsUpTo, TrainEnded, Moves

\* The steps of the training job that save nothing keep its invariant.
LEMMA QuietTraining ==
    ASSUME TrainInv, UNCHANGED demoVars,
           \/ TrainStarts \/ LoadShard \/ FitEnds \/ TrainKilled
           \/ FitStep /\ UNCHANGED ckpts
           \/ NextArm /\ arm' = arm
    PROVE  TrainInv'
<1>1. /\ Suite # <<>> /\ arm \in DOMAIN Arms
  <2>1. CASE tpc = "idle"
    <3>1. Suite # <<>> /\ arm = 1
      BY <2>1 DEF TrainInv, TrainType, TrainStarts, LoadShard, FitEnds, TrainKilled, FitStep, NextArm
    <3>2. QED
      BY <3>1, ArmsAre
  <2>2. CASE tpc # "idle"
    BY <2>2 DEF TrainInv, TrainType
  <2>3. QED
    BY <2>1, <2>2
<1>2. TrainType /\ EndsOfArms
  BY DEF TrainInv
<1>3. UNCHANGED rpc
  BY DEF demoVars, recVars
<1>4. CASE TrainStarts
  BY <1>1, <1>2, <1>3, <1>4, CacheStays, NothingSaved DEF TrainStarts, Moves, TrainType
<1>5. CASE LoadShard
  <2>1. tpc = "load" /\ tpc' \in {"load", "fit", "failed"}
        /\ UNCHANGED <<lesson, preset, arm, step, seen, cache, captured, ckpts>>
    BY <1>5 DEF LoadShard
  <2>2. QED
    BY <1>1, <1>2, <1>3, <2>1, CacheStays, NothingSaved DEF Moves, TrainType
<1>6. CASE FitEnds
  <2>1. tpc = "fit" /\ tpc' = "save" /\ seen' \in BOOLEAN /\ (step = Steps \/ seen')
        /\ UNCHANGED <<lesson, preset, arm, step, cache, captured, ckpts>>
    BY <1>2, <1>6 DEF FitEnds, PollSees, TrainType
  <2>2. QED
    BY <1>1, <1>2, <1>3, <2>1, CacheStays, NothingSaved DEF Moves, TrainType
<1>7. CASE TrainKilled
  <2>1. tpc \notin TrainEnded \cup {"idle"} /\ tpc' = "killed"
        /\ UNCHANGED <<lesson, preset, arm, step, seen, cache, captured, ckpts>>
    BY <1>7 DEF TrainKilled
  <2>2. QED
    BY <1>1, <1>2, <1>3, <2>1, CacheStays, NothingSaved DEF Moves, TrainType
<1>8. CASE FitStep /\ UNCHANGED ckpts
  <2>1. tpc = "fit" /\ tpc' = "fit" /\ step' \in 0..Steps /\ ckpts' = ckpts
        /\ UNCHANGED <<lesson, preset, arm, seen, cache>>
    <3>1. /\ tpc = "fit" /\ step < Steps /\ step' = step + 1 /\ ckpts' = ckpts
          /\ UNCHANGED <<lesson, preset, tpc, arm, seen, cache>>
      BY <1>8 DEF FitStep, PollGoesOn
    <3>2. step' \in 0..Steps
      BY <1>2, <3>1, StepsAre DEF TrainType
    <3>3. QED
      BY <3>1, <3>2
  <2>2. UNCHANGED captured
    <3>1. IsSeq(ckpts)
      BY <1>2 DEF TrainType
    <3>2. ASSUME NEW e, ckpts = Append(ckpts, e) PROVE FALSE
      BY <3>1, <3>2, AppendToAny
    <3>3. QED
      BY <1>8, <3>2 DEF FitStep
  <2>3. QED
    BY <1>1, <1>2, <1>3, <2>1, <2>2, CacheStays, NothingSaved DEF Moves, TrainType
<1>9. CASE NextArm /\ arm' = arm
  <2>1. arm \in Nat
    BY <1>2 DEF TrainType
  <2>2. /\ tpc = "next" /\ step' = step
        /\ \/ tpc' = "stopped" /\ seen' = TRUE
           \/ tpc' = "done" /\ UNCHANGED seen /\ ~seen /\ ~(arm < Len(Arms))
        /\ UNCHANGED <<lesson, preset, cache, captured, ckpts>>
    BY <1>9, <2>1 DEF NextArm, PollSees, PollGoesOn
  <2>3. arm \in 1..Len(Arms) /\ Len(Arms) \in Nat
    BY <1>1, ArmsAre
  <2>4. tpc' = "done" => arm = Len(Arms)
    BY <2>2, <2>3
  <2>5. QED
    BY <1>1, <1>2, <1>3, <1>9, <2>2, <2>4, CacheStays, NothingSaved DEF Moves, TrainType
<1>10. QED
  BY <1>4, <1>5, <1>6, <1>7, <1>8, <1>9

\* The view of an arm: all demos of a whole index, or what a recording has of it so far.
LEMMA ViewIs ==
    ASSUME DemoInv, NEW t \in Names, index[t].by \notin {"none", "torn"},
           NEW n, n = Min({Demos, Len(index[t].demos)})
    PROVE  n = Min({Demos, PerTask}) \/ (n > 0 /\ rpc # "idle" /\ t \in SeqRange(RecTasks))
<1>1. index[t] \in Indices /\ Listed(t)
  BY DEF DemoInv, RecType
<1>2. index[t].by \in {"old", "new"} /\ index[t].demos \in Seq(Nat)
  BY <1>1 DEF Indices, Shards
<1>3. CASE index[t].whole
  BY <1>1, <1>3 DEF Listed
<1>4. CASE ~index[t].whole
  <2>1. t \in Begun /\ Len(index[t].demos) > 0
    BY <1>1, <1>2, <1>4 DEF Listed
  <2>2. rpc # "idle" /\ t \in SeqRange(RecTasks)
    <3>1. ti \in 1..Len(RecTasks) /\ DOMAIN RecTasks = 1..Len(RecTasks) /\ Len(RecTasks) \in Nat
      BY Sizes DEF DemoInv, RecType
    <3>2. 1..ti \subseteq DOMAIN RecTasks
      BY <3>1
    <3>3. QED
      BY <2>1, <3>2 DEF Begun, SeqRange
  <2>3. n > 0
    <3> DEFINE k == Len(index[t].demos)
    <3>1. k \in Nat /\ k > 0 /\ Demos > 0 /\ Demos \in Nat
      BY <1>2, <2>1, StepsAre
    <3>2. n \in {Demos, k}
      BY <3>1, LeastOfTwo
    <3>3. QED
      BY <3>1, <3>2
  <2>4. QED
    BY <2>2, <2>3
<1>5. QED
  BY <1>3, <1>4

\* An arm reads its dataset once: what it gets is in the cache from then on.
LEMMA LoadIndexKeeps == DemoInv /\ TrainInv /\ LoadIndex /\ UNCHANGED demoVars => TrainInv'
<1> SUFFICES ASSUME DemoInv, TrainInv, LoadIndex, UNCHANGED demoVars PROVE TrainInv'
  OBVIOUS
<1>1. tpc = "arm" /\ UNCHANGED <<lesson, preset, arm, step, seen, captured, ckpts>>
  BY DEF LoadIndex
<1>2. Suite # <<>> /\ arm \in DOMAIN Arms /\ arm \in Nat \ {0} /\ step \in 0..Steps /\ seen \in BOOLEAN
  BY <1>1 DEF TrainInv, TrainType
<1>3. ArmTask \in Names /\ Arms' = Arms /\ UNCHANGED rpc
  BY <1>1, <1>2, ArmsAre DEF ArmTask, Arms, Suite, demoVars, recVars
<1>4. DOMAIN cache = ArmsUpTo(arm - 1) /\ ArmsUpTo(arm) = ArmsUpTo(arm - 1) \cup {ArmTask}
  BY <1>1, <1>2, UpToNext DEF TrainInv, CacheInv, ArmTask
<1>5. ArmsUpTo(arm)' = ArmsUpTo(arm) /\ arm' = arm
  BY <1>1, <1>3 DEF ArmsUpTo
<1> DEFINE Good(t, n) ==
      \/ n = Min({Demos, PerTask})
      \/ n > 0 /\ rpc # "idle" /\ t \in SeqRange(RecTasks)
<1>6. \A t \in DOMAIN cache : Good(t, cache[t])
  BY DEF TrainInv, CacheInv
<1>7. tpc' \in {"fit", "failed", "load"} /\ CacheInv'
  <2>1. CASE ArmTask \in DOMAIN cache
    <3>1. tpc' = "fit" /\ cache' = cache
      BY <2>1 DEF LoadIndex
    <3>2. DOMAIN cache = ArmsUpTo(arm)
      BY <1>4, <2>1
    <3>3. QED
      BY <1>3, <1>5, <1>6, <3>1, <3>2 DEF CacheInv
  <2>2. CASE ArmTask \notin DOMAIN cache /\ index[ArmTask].by \in {"none", "torn"}
    <3>1. tpc' = "failed" /\ cache' = cache
      BY <2>2 DEF LoadIndex
    <3>2. QED
      BY <1>3, <1>6, <3>1 DEF CacheInv
  <2>3. CASE ArmTask \notin DOMAIN cache /\ index[ArmTask].by \notin {"none", "torn"}
    <3> DEFINE n == Min({Demos, Len(index[ArmTask].demos)})
    <3>1. Good(ArmTask, n)
      BY <1>3, <2>3, ViewIs
    <3>2. tpc' = "load" /\ cache' = [t \in DOMAIN cache \cup {ArmTask} |->
                                       IF t = ArmTask THEN n ELSE cache[t]]
      BY <2>3 DEF LoadIndex
    <3> HIDE DEF n, Good
    <3>3. DOMAIN cache' = ArmsUpTo(arm)
      BY <1>4, <3>2
    <3>4. \A t \in DOMAIN cache' : Good(t, cache'[t])
      BY <1>6, <3>1, <3>2
    <3>5. QED
      BY <1>3, <1>5, <3>2, <3>3, <3>4 DEF CacheInv, Good
  <2>4. QED
    BY <2>1, <2>2, <2>3
<1>8. QED
  BY <1>1, <1>2, <1>7, NothingSaved DEF Moves, TrainEnded

\* A periodic checkpoint holds the present arm beside those that ended.
LEMMA PeriodicKeeps ==
    ASSUME TrainInv, FitStep, ckpts' # ckpts, UNCHANGED demoVars
    PROVE  TrainInv'
<1>1. /\ tpc = "fit" /\ step < Steps /\ step' = step + 1 /\ preset = "single"
      /\ UNCHANGED <<lesson, preset, tpc, arm, seen, cache>>
  BY DEF FitStep, PollGoesOn
<1>2. Arms' = Arms /\ Suite' = Suite /\ UNCHANGED rpc
  BY <1>1 DEF Arms, Suite, demoVars, recVars
<1>3. TrainType /\ step \in 0..Steps
  BY DEF TrainInv, TrainType
<1>4. step' \in 0..Steps
  BY <1>1, <1>3, StepsAre
<1>5. captured' \in Seq(0..Steps)
  <2>1. captured' = <<step'>>
    BY DEF FitStep
  <2>2. QED
    BY <1>4, <2>1
<1>6. IsSeq(ckpts')
  <2>1. \E c : ckpts' = Append(ckpts, c)
    BY DEF FitStep
  <2>2. QED
    BY <1>3, <2>1, AppendToAny DEF TrainType
<1>7. TrainType' /\ EndsOfArms'
  BY <1>1, <1>2, <1>3, <1>4, <1>5, <1>6 DEF TrainInv, TrainType, EndsOfArms, TrainEnded
<1>8. CacheInv'
  BY <1>1, <1>2 DEF TrainInv, CacheInv, ArmsUpTo
<1>9. SingleInv' /\ preset' # "suite"
  BY <1>1 DEF TrainInv, SingleInv
<1>10. QED
  BY <1>1, <1>7, <1>8, <1>9 DEF TrainInv

\* What the save at the end of an arm does to the list.
LEMMA ArmSavedIs ==
    ASSUME TrainType, ArmSaved
    PROVE  /\ tpc = "save" /\ tpc' = "next"
           /\ UNCHANGED <<lesson, preset, arm, step, seen, loading, cache>>
           /\ \/ /\ preset = "single" /\ captured' = <<step>>
                 /\ \E c : ckpts' = Append(ckpts, c) /\ c.trained = <<step>>
              \/ /\ preset = "suite" /\ captured' = Append(captured, step)
                 /\ \E c : /\ ckpts' = Append(ckpts, c) /\ c.trained = captured'
                           /\ c.arms = [i \in 1..arm |-> Arms[i][1]] /\ c.at = arm * Steps
<1>1. /\ tpc = "save" /\ tpc' = "next"
      /\ UNCHANGED <<lesson, preset, arm, step, seen, loading, cache>>
  BY DEF ArmSaved
<1>2. ASSUME NEW l, NEW at
      PROVE  /\ Ckpt(l, at).trained = captured' /\ Ckpt(l, at).at = at
             /\ Ckpt(l, at).arms = [i \in 1..arm |-> Arms[i][1]]
  BY DEF Ckpt
<1>3. SaveSingle \/ \E l : SaveSuite(l)
  BY Zenon DEF ArmSaved, Save16, Save17, Save18
<1>4. CASE SaveSingle
  <2>1. preset = "single" /\ captured' = <<step>> /\ ckpts' = Append(ckpts, Ckpt("", step))
    BY <1>4 DEF SaveSingle
  <2>2. Ckpt("", step).trained = <<step>>
    BY <1>2, <2>1
  <2>3. QED
    BY <1>1, <2>1, <2>2
<1>5. CASE \E l : SaveSuite(l)
  <2>1. PICK l : SaveSuite(l)
    BY <1>5
  <2> DEFINE m == IF arm = Len(Arms) THEN "final" ELSE l
  <2>2. preset = "suite" /\ captured' = Append(captured, step) /\ ckpts' = Append(ckpts, Ckpt(m, arm * Steps))
    BY <2>1 DEF SaveSuite
  <2> HIDE DEF m
  <2>3. QED
    BY <1>1, <1>2, <2>2
<1>6. QED
  BY <1>3, <1>4, <1>5

\* An arm that ends is saved with all before it.
LEMMA ArmSavedKeeps == TrainInv /\ ArmSaved /\ UNCHANGED demoVars => TrainInv'
<1> SUFFICES ASSUME TrainInv, ArmSaved, UNCHANGED demoVars PROVE TrainInv'
  OBVIOUS
<1>1. TrainType /\ EndsOfArms /\ CacheInv
  BY DEF TrainInv
<1>2. /\ tpc = "save" /\ tpc' = "next"
      /\ UNCHANGED <<lesson, preset, arm, step, seen, cache>>
  BY <1>1, ArmSavedIs
<1>3. Arms' = Arms /\ Suite' = Suite /\ UNCHANGED rpc
  BY <1>2 DEF Arms, Suite, demoVars, recVars
<1>4. step \in 0..Steps /\ arm \in Nat \ {0} /\ IsSeq(ckpts) /\ captured \in Seq(0..Steps)
  BY <1>1 DEF TrainType
<1>5. \E c : ckpts' = Append(ckpts, c)
  BY <1>1, ArmSavedIs
<1>6. IsSeq(ckpts') /\ Len(ckpts') = Len(ckpts) + 1 /\ Len(ckpts) \in Nat
  BY <1>4, <1>5, AppendToAny
<1>7. captured' = <<step>> \/ captured' = Append(captured, step)
  BY <1>1, ArmSavedIs
<1>8. captured' \in Seq(0..Steps)
  <2>1. CASE captured' = <<step>>
    BY <1>4, <2>1
  <2>2. CASE captured' = Append(captured, step)
    BY <1>4, <2>2
  <2>3. QED
    BY <1>7, <2>1, <2>2
<1>9. TrainType'
  BY <1>1, <1>2, <1>3, <1>4, <1>6, <1>8 DEF TrainType, TrainEnded
<1>10. EndsOfArms'
  BY <1>1, <1>2, <1>3 DEF EndsOfArms, TrainEnded
<1>11. CacheInv'
  BY <1>1, <1>2, <1>3 DEF CacheInv, ArmsUpTo
<1>12. preset = "single" => SingleInv'
  <2>1. SUFFICES ASSUME preset = "single" PROVE SingleInv'
    OBVIOUS
  <2>2. PICK c : ckpts' = Append(ckpts, c) /\ c.trained = <<step>>
    BY <1>1, <2>1, ArmSavedIs
  <2>3. ckpts'[Len(ckpts')] = c
    BY <1>4, <1>6, <2>2, AppendToAny
  <2>4. arm = 1
    BY <2>1 DEF TrainInv, SingleInv
  <2>5. QED
    BY <1>2, <1>6, <2>2, <2>3, <2>4 DEF SingleInv
<1>13. preset = "suite" => SuiteInv'
  <2>1. SUFFICES ASSUME preset = "suite" PROVE SuiteInv'
    OBVIOUS
  <2>2. PICK c : /\ ckpts' = Append(ckpts, c) /\ c.trained = captured'
                 /\ c.arms = [i \in 1..arm |-> Arms[i][1]] /\ c.at = arm * Steps
    BY <1>1, <2>1, ArmSavedIs
  <2>3. captured' = Append(captured, step)
    BY <1>1, <2>1, ArmSavedIs
  <2>4. SuiteInv
    BY <2>1 DEF TrainInv
  <2>5. Len(ckpts) = arm - 1 /\ Len(captured) = arm - 1
    BY <1>2, <2>4 DEF SuiteInv
  <2>6. /\ Len(captured') = arm /\ captured'[arm] = step
        /\ \A i \in 1..arm - 1 : captured'[i] = captured[i]
    <3>1. \A i \in 1..Len(captured) : Append(captured, step)[i] = captured[i]
      BY <1>4
    <3>2. Len(Append(captured, step)) = Len(captured) + 1
          /\ Append(captured, step)[Len(captured) + 1] = step
      BY <1>4
    <3>3. QED
      BY <1>4, <2>3, <2>5, <3>1, <3>2
  <2>7. /\ Len(ckpts') = arm /\ ckpts'[arm] = c
        /\ \A i \in 1..arm - 1 : ckpts'[i] = ckpts[i]
    <3>1. \A i \in 1..Len(ckpts) : ckpts'[i] = ckpts[i]
      BY <1>4, <2>2, AppendToAny
    <3>2. ckpts'[Len(ckpts) + 1] = c
      BY <1>4, <2>2, AppendToAny
    <3>3. QED
      BY <1>4, <1>6, <2>5, <3>1, <3>2
  <2>8. ASSUME NEW n \in 1..arm PROVE SavedArms(n)'
    <3>1. CASE n = arm
      <4>1. captured' = [i \in 1..arm |-> captured'[i]]
        <5> DEFINE q == captured'
                   T == 0..Steps
        <5>1. q \in Seq(T)
          BY <1>8
        <5> HIDE DEF q, T
        <5>2. q \in [1..Len(q) -> T]
          BY <5>1
        <5>3. captured' \in [1..Len(captured') -> T]
          BY <5>2 DEF q
        <5>4. QED
          BY <2>6, <5>3
      <4>2. ckpts'[n] = c /\ Arms' = Arms /\ Steps' = Steps
        BY <1>3, <2>7, <3>1
      <4>3. QED
        BY <2>2, <3>1, <4>1, <4>2 DEF SavedArms
    <3>2. CASE n # arm
      <4>1. n \in 1..arm - 1 /\ n \in Nat
        BY <1>4, <3>2
      <4>2. SavedArms(n) /\ ckpts'[n] = ckpts[n]
        BY <2>4, <2>5, <2>7, <4>1 DEF SuiteInv
      <4>3. \A i \in 1..n : captured'[i] = captured[i]
        BY <1>4, <2>6, <4>1
      <4>4. [i \in 1..n |-> captured'[i]] = [i \in 1..n |-> captured[i]]
        BY <4>3
      <4>5. QED
        BY <1>3, <4>2, <4>4 DEF SavedArms
    <3>3. QED
      BY <3>1, <3>2
  <2>9. \A i \in 1..arm : i < arm => captured'[i] = Steps
    <3>1. \A i \in 1..arm - 1 : captured[i] = Steps
      BY <1>4, <2>4, <2>5 DEF SuiteInv
    <3>2. QED
      BY <1>4, <2>6, <3>1
  <2>10. step = Steps \/ seen
    BY <1>1, <1>2 DEF EndsOfArms
  <2>11. Len(captured') = Len(ckpts') /\ Len(ckpts') = arm
    BY <2>6, <2>7
  <2>12. \A n \in 1..Len(ckpts') : SavedArms(n)'
    BY <2>8, <2>11
  <2>13. QED
    BY <1>2, <1>4, <2>6, <2>9, <2>10, <2>11, <2>12 DEF SuiteInv
<1>14. QED
  BY <1>2, <1>9, <1>10, <1>11, <1>12, <1>13 DEF TrainInv

\* The next arm begins with the arms before it saved.
LEMMA ArmBegins == TrainInv /\ NextArm /\ arm' # arm /\ UNCHANGED demoVars => TrainInv'
<1> SUFFICES ASSUME TrainInv, NextArm, arm' # arm, UNCHANGED demoVars PROVE TrainInv'
  OBVIOUS
<1>1. TrainType /\ EndsOfArms /\ CacheInv
  BY DEF TrainInv
<1>2. /\ tpc = "next" /\ tpc' = "arm" /\ ~seen /\ seen' = seen /\ step' = 0
      /\ arm' = arm + 1 /\ arm < Len(Arms)
      /\ UNCHANGED <<lesson, preset, cache, captured, ckpts>>
  BY DEF NextArm, PollGoesOn
<1>3. Arms' = Arms /\ Suite' = Suite /\ UNCHANGED rpc
  BY <1>2 DEF Arms, Suite, demoVars, recVars
<1>4. Suite # <<>> /\ arm \in Nat \ {0} /\ step \in 0..Steps /\ IsSeq(ckpts)
  BY <1>1, <1>2 DEF TrainType
<1>5. Len(Arms) \in Nat /\ DOMAIN Arms = 1..Len(Arms) /\ (preset = "single" => Len(Arms) = 1)
  BY <1>4, ArmsAre
<1>6. preset = "suite"
  BY <1>1, <1>2, <1>4, <1>5 DEF TrainType
<1>7. arm' \in DOMAIN Arms /\ 0 \in 0..Steps
  BY <1>2, <1>4, <1>5, StepsAre
<1>8. TrainType' /\ EndsOfArms'
  BY <1>1, <1>2, <1>3, <1>4, <1>7 DEF TrainType, EndsOfArms, TrainEnded
<1>9. CacheInv'
  <2>1. ArmsUpTo(arm - 1)' = ArmsUpTo(arm)
    BY <1>2, <1>3, <1>4 DEF ArmsUpTo
  <2>2. QED
    BY <1>1, <1>2, <1>3, <2>1 DEF CacheInv
<1>10. SuiteInv'
  <2>1. SuiteInv /\ Len(ckpts) \in Nat
    BY <1>4, <1>6 DEF TrainInv, IsSeq
  <2>2. Len(ckpts) = arm /\ captured[arm] = Steps
    BY <1>1, <1>2, <2>1 DEF SuiteInv
  <2>3. \A n \in 1..Len(ckpts) : SavedArms(n)'
    BY <1>2, <1>3, <2>1 DEF SuiteInv, SavedArms
  <2>4. \A i \in 1..Len(ckpts) : captured[i] = Steps
    BY <1>4, <2>1, <2>2 DEF SuiteInv
  <2>5. QED
    BY <1>2, <1>4, <2>1, <2>2, <2>3, <2>4 DEF SuiteInv
<1>11. QED
  BY <1>2, <1>6, <1>8, <1>9, <1>10 DEF TrainInv

\* Every step of the training job keeps its invariant.
LEMMA TrainingKeeps == DemoInv /\ TrainInv /\ Training => TrainInv'
<1> SUFFICES ASSUME DemoInv, TrainInv, Training PROVE TrainInv'
  OBVIOUS
<1>1. UNCHANGED demoVars
  BY DEF Training
<1>2. CASE TrainStarts \/ LoadShard \/ FitEnds \/ TrainKilled
  BY <1>1, <1>2, QuietTraining
<1>3. CASE LoadIndex
  BY <1>1, <1>3, LoadIndexKeeps
<1>4. CASE FitStep
  BY <1>1, <1>4, QuietTraining, PeriodicKeeps
<1>5. CASE ArmSaved
  BY <1>1, <1>5, ArmSavedKeeps
<1>6. CASE NextArm
  BY <1>1, <1>6, QuietTraining, ArmBegins
<1>7. QED
  BY <1>2, <1>3, <1>4, <1>5, <1>6 DEF Training

\* The training job sees of the recording only whether it has begun.
LEMMA TrainInvStays ==
    ASSUME TrainInv, UNCHANGED trainVars, rpc # "idle" => rpc' # "idle"
    PROVE  TrainInv'
<1>1. UNCHANGED <<lesson, preset, tpc, arm, step, seen, cache, captured, ckpts>>
  BY DEF trainVars
<1>2. Arms' = Arms /\ Suite' = Suite
  BY <1>1 DEF Arms, Suite
<1>3. TrainType' /\ EndsOfArms'
  BY <1>1, <1>2 DEF TrainInv, TrainType, EndsOfArms
<1>4. CacheInv'
  BY <1>1, <1>2 DEF TrainInv, CacheInv, ArmsUpTo
<1>5. preset = "suite" => SuiteInv'
  BY <1>1, <1>2 DEF TrainInv, SuiteInv, SavedArms
<1>6. preset = "single" => SingleInv'
  BY <1>1, <1>2 DEF TrainInv, SingleInv
<1>7. QED
  BY <1>1, <1>3, <1>4, <1>5, <1>6 DEF TrainInv

\* A recording that has begun does not go back to idle.
LEMMA RecordLeavesTraining == DemoInv /\ Record /\ rpc # "idle" => rpc' # "idle"
BY DEF DemoInv, RecType, Record, RecordStarts, RecordStops, ChunkStarts, Roll, ShardWritten,
       IndexOpened, ChunkListed, TaskListed, RecordKilled, RecordEnded

\* The invariant of the training job holds at first.
LEMMA TrainHoldsAtFirst ==
    TrainInit /\ (lesson \in {16, 17, 18} => preset \in {"suite", "single"}) => TrainInv
<1> SUFFICES ASSUME TrainInit, lesson \in {16, 17, 18} => preset \in {"suite", "single"}
             PROVE  TrainInv
  OBVIOUS
<1>1. /\ tpc = "idle" /\ arm = 1 /\ step = 0 /\ seen = FALSE /\ captured = <<>> /\ ckpts = <<>>
      /\ cache = [t \in {} |-> 0]
  BY DEF TrainInit
<1>2. captured \in Seq(0..Steps) /\ IsSeq(ckpts) /\ Len(ckpts) = 0 /\ Len(captured) = 0
  BY <1>1 DEF IsSeq
<1>3. TrainType
  <2>1. 0 \in 0..Steps
    BY StepsAre
  <2>2. Suite # <<>> => preset \in {"suite", "single"}
    BY SuitesAre
  <2>3. step \in 0..Steps /\ arm \in Nat \ {0} /\ seen \in BOOLEAN
    <3>1. step \in 0..Steps /\ seen \in BOOLEAN
      BY <1>1, <2>1, Zenon
    <3>2. arm \in Nat \ {0}
      BY <1>1
    <3>3. QED
      BY <3>1, <3>2
  <2>4. captured \in Seq(0..Steps) /\ IsSeq(ckpts)
    BY <1>2
  <2>5. QED
    BY <1>1, <2>2, <2>3, <2>4, Zenon DEF TrainType
<1>4. EndsOfArms /\ SuiteInv /\ SingleInv
  BY <1>1, <1>2 DEF EndsOfArms, SuiteInv, SingleInv
<1>5. DOMAIN cache = {} /\ ArmsUpTo(arm - 1) = {}
  BY <1>1 DEF ArmsUpTo
<1>6. CacheInv
  BY <1>1, <1>5 DEF CacheInv
<1>7. QED
  BY <1>3, <1>4, <1>6 DEF TrainInv

\* It gives OnlyTheLastArmIsPartial.
LEMMA ArmsAreTrained == TrainInv => OnlyTheLastArmIsPartial
<1> SUFFICES ASSUME TrainInv PROVE OnlyTheLastArmIsPartial
  OBVIOUS
<1>1. TrainType /\ EndsOfArms /\ CacheInv /\ arm \in Nat \ {0} /\ Steps \in Nat \ {0}
  BY StepsAre DEF TrainInv, TrainType
<1>2. IsSeq(ckpts) /\ captured \in Seq(0..Steps) /\ Len(ckpts) \in Nat /\ DOMAIN ckpts = 1..Len(ckpts)
  BY <1>1 DEF TrainType, IsSeq
<1>3. ASSUME preset = "suite", NEW n \in DOMAIN ckpts
      PROVE  LET c == ckpts[n] IN
             /\ Len(c.trained) = n /\ Len(c.arms) = n /\ c.at = n * Steps
             /\ \A i \in 1..n : c.trained[i] < Steps =>
                   i = n /\ n = Len(ckpts) /\ seen /\ tpc \in {"next", "stopped", "killed"}
             /\ c.trained[n] \in {Steps, IF arm = n THEN step ELSE Steps}
  <2>1. SuiteInv
    BY <1>3 DEF TrainInv
  <2>2. /\ ckpts[n].arms = [i \in 1..n |-> Arms[i][1]] /\ ckpts[n].at = n * Steps
        /\ ckpts[n].trained = [i \in 1..n |-> captured[i]] /\ n \in Nat \ {0} /\ n <= Len(ckpts)
    BY <1>2, <1>3, <2>1 DEF SuiteInv, SavedArms
  <2>3. Len(ckpts[n].trained) = n /\ Len(ckpts[n].arms) = n
    BY <2>2
  <2>4. ASSUME NEW i \in 1..n, i < arm PROVE captured[i] = Steps
    BY <1>2, <2>1, <2>2, <2>4 DEF SuiteInv
  <2>5. Len(ckpts) <= arm
    BY <1>1, <2>1 DEF SuiteInv
  <2>6. ASSUME NEW i \in 1..n, captured[i] < Steps
        PROVE  /\ i = n /\ n = arm /\ n = Len(ckpts) /\ seen
               /\ tpc \in {"next", "stopped", "killed"}
    <3>1. ~(i < arm)
      BY <1>1, <2>4, <2>6
    <3>2. i = arm /\ n = arm /\ Len(ckpts) = arm
      <4>1. i \in Nat /\ i <= n /\ n \in Nat /\ n <= Len(ckpts)
        BY <2>2
      <4>2. arm \in Nat /\ Len(ckpts) \in Nat
        BY <1>1, <1>2
      <4>3. QED
        BY <2>5, <3>1, <4>1, <4>2
    <3>3. captured[arm] = step /\ (step = Steps \/ seen)
      BY <2>1, <3>2 DEF SuiteInv
    <3>4. seen
      BY <1>1, <2>6, <3>2, <3>3
    <3>5. tpc \in {"next", "stopped", "killed"}
      BY <1>1, <2>1, <3>2, <3>4 DEF SuiteInv, TrainType, TrainEnded, EndsOfArms
    <3>6. QED
      BY <3>2, <3>4, <3>5
  <2>7. ckpts[n].trained[n] \in {Steps, IF arm = n THEN step ELSE Steps}
    <3>1. ckpts[n].trained[n] = captured[n]
      BY <2>2
    <3>2. CASE n < arm
      BY <2>2, <2>4, <3>1, <3>2
    <3>3. CASE n = arm
      <4>1. n \in Nat /\ n <= Len(ckpts) /\ Len(ckpts) \in Nat
        BY <1>2, <2>2
      <4>2. Len(ckpts) = arm
        BY <2>5, <3>3, <4>1
      <4>3. QED
        BY <2>1, <3>1, <3>3, <4>2 DEF SuiteInv
    <3>4. QED
      BY <1>1, <1>2, <2>2, <2>5, <3>2, <3>3
  <2>8. QED
    BY <2>2, <2>3, <2>6, <2>7
<1>4. ASSUME tpc = "done"
      PROVE  /\ ckpts[Len(ckpts)].trained = [i \in DOMAIN Arms |-> Steps]
             /\ DOMAIN cache = {Arms[i][2] : i \in DOMAIN Arms}
             /\ \A t \in DOMAIN cache :
                   \/ cache[t] = Min({Demos, PerTask})
                   \/ cache[t] > 0 /\ rpc # "idle" /\ t \in SeqRange(RecTasks)
  <2>1. Suite # <<>> /\ preset \in {"suite", "single"} /\ arm = Len(Arms) /\ step = Steps
    BY <1>1, <1>4 DEF TrainType, EndsOfArms
  <2>2. Len(Arms) \in Nat \ {0} /\ DOMAIN Arms = 1..Len(Arms) /\ (preset = "single" => Len(Arms) = 1)
    BY <2>1, ArmsAre
  <2>3. ckpts[Len(ckpts)].trained = [i \in DOMAIN Arms |-> Steps]
    <3>1. CASE preset = "single"
      <4>1. ckpts[Len(ckpts)].trained = <<Steps>>
        BY <1>4, <2>1, <3>1 DEF TrainInv, SingleInv
      <4>2. DOMAIN Arms = 1..1 /\ <<Steps>> = [i \in 1..1 |-> Steps]
        BY <2>2, <3>1
      <4>3. QED
        BY <4>1, <4>2
    <3>2. CASE preset = "suite"
      <4>1. SuiteInv /\ Len(ckpts) = arm
        BY <1>4, <3>2 DEF TrainInv, SuiteInv
      <4>2. arm \in 1..Len(ckpts) /\ SuiteInv
        BY <1>1, <4>1
      <4>3. ckpts[Len(ckpts)].trained = [i \in 1..arm |-> captured[i]]
        BY <4>1, <4>2 DEF SuiteInv, SavedArms
      <4>4. \A i \in 1..arm : captured[i] = Steps
        BY <1>1, <2>1, <4>1 DEF SuiteInv
      <4>5. QED
        BY <2>1, <2>2, <4>3, <4>4
    <3>3. QED
      BY <2>1, <3>1, <3>2
  <2>4. DOMAIN cache = {Arms[i][2] : i \in DOMAIN Arms}
    BY <1>1, <1>4, <2>1, <2>2 DEF CacheInv, ArmsUpTo
  <2>5. QED
    BY <1>1, <2>3, <2>4 DEF CacheInv
<1>5. QED
  BY <1>3, <1>4 DEF OnlyTheLastArmIsPartial

-----------------------------------------------------------------------------
(***************************************************************************)
(* The order in which the episodes run.                                    *)
(***************************************************************************)

\* Elements whose sets of predecessors grow strictly have ranks of their own.
LEMMA RanksDiffer ==
    ASSUME NEW S, NEW D, IsFiniteSet(D), NEW f \in [S -> SUBSET D],
           \A i, k \in S : i # k => \/ f[i] \subseteq f[k] /\ f[i] # f[k]
                                    \/ f[k] \subseteq f[i] /\ f[k] # f[i]
    PROVE  \A i, k \in S : Cardinality(f[i]) = Cardinality(f[k]) => i = k
<1>1. SUFFICES ASSUME NEW i \in S, NEW k \in S, i # k, f[i] \subseteq f[k], f[i] # f[k]
               PROVE  Cardinality(f[i]) # Cardinality(f[k])
  BY Zenon
<1>2. IsFiniteSet(f[k])
  BY FS_Subset
<1>3. QED
  BY <1>1, <1>2, FS_Subset

\* A sequence without repetitions.
Distinct(s) == \A i, k \in DOMAIN s : s[i] = s[k] => i = k

\* InPlanOrder lists its set, every job once.
LEMMA PlanOrderIs ==
    ASSUME NEW N \in Nat, NEW S \in SUBSET (1..N)
    PROVE  /\ InPlanOrder(S) \in Seq(S) /\ Len(InPlanOrder(S)) = Cardinality(S)
           /\ Distinct(InPlanOrder(S)) /\ SeqRange(InPlanOrder(S)) = S
<1> DEFINE upTo == [k \in S |-> {i \in S : i <= k}]
           rank == [k \in S |-> Cardinality(upTo[k])]
           o == InPlanOrder(S)
           c == Cardinality(S)
<1>1. IsFiniteSet(1..N) /\ IsFiniteSet(S) /\ c \in Nat
  <2>1. IsFiniteSet(1..N)
    BY FS_Interval
  <2>2. IsFiniteSet(S)
    BY <2>1, FS_Subset
  <2>3. QED
    BY <2>1, <2>2, FS_CardinalityType
<1>2. ASSUME NEW k \in S PROVE rank[k] \in 1..c
  <2>1. IsFiniteSet(upTo[k]) /\ Cardinality(upTo[k]) <= c
    BY <1>1, FS_Subset
  <2>2. Cardinality(upTo[k]) \in Nat /\ upTo[k] # {}
    BY <2>1, FS_CardinalityType
  <2>3. Cardinality(upTo[k]) # 0
    BY <2>1, <2>2, FS_EmptySet
  <2>4. QED
    BY <1>1, <2>1, <2>2, <2>3
<1>3. ASSUME NEW i \in S, NEW k \in S, rank[i] = rank[k] PROVE i = k
  <2>1. upTo \in [S -> SUBSET S]
    OBVIOUS
  <2>2. ASSUME NEW a \in S, NEW b \in S, a < b PROVE upTo[a] \subseteq upTo[b] /\ upTo[a] # upTo[b]
    <3>1. a \in Nat /\ b \in Nat /\ \A x \in S : x \in Nat
      OBVIOUS
    <3>2. b \in upTo[b] /\ b \notin upTo[a]
      BY <2>2, <3>1
    <3>3. ASSUME NEW x \in S, x <= a PROVE x <= b
      <4>1. x \in Nat
        BY <3>1
      <4>2. QED
        BY <2>2, <3>1, <3>3, <4>1
    <3>4. upTo[a] \subseteq upTo[b]
      BY <3>3
    <3>5. QED
      BY <3>2, <3>4
  <2>3. \A a, b \in S : a # b => a < b \/ b < a
    OBVIOUS
  <2>4. Cardinality(upTo[i]) = Cardinality(upTo[k])
    BY <1>3
  <2> HIDE DEF upTo
  <2>5. QED
    BY <1>1, <2>1, <2>2, <2>3, <2>4, RanksDiffer
<1>4. ASSUME NEW n \in 1..c PROVE \E k \in S : rank[k] = n
  <2>1. SUFFICES ASSUME \A k \in S : rank[k] # n PROVE FALSE
    OBVIOUS
  <2> DEFINE T == (1..c) \ {n}
  <2>2. rank \in [S -> T]
    BY <1>2, <2>1
  <2>3. IsFiniteSet(1..c) /\ Cardinality(1..c) = c
    BY <1>1, FS_Interval
  <2>4. IsFiniteSet(T) /\ Cardinality(T) = c - 1
    BY <2>3, FS_RemoveElement
  <2> HIDE DEF T, rank, upTo
  <2>5. Cardinality(T) < Cardinality(S)
    BY <1>1, <2>4
  <2>6. IsFiniteSet(S)
    BY <1>1
  <2>7. \E x, y \in S : x # y /\ rank[x] = rank[y]
    BY <2>2, <2>4, <2>5, <2>6, FS_PigeonHole
  <2>8. QED
    BY <1>3, <2>7
<1>5. ASSUME NEW n \in 1..c PROVE o[n] \in S /\ rank[o[n]] = n
  <2>1. \E k \in S : rank[k] = n
    BY <1>4
  <2>2. o[n] = CHOOSE k \in S : rank[k] = n
    BY DEF InPlanOrder
  <2>3. QED
    BY <2>1, <2>2
<1>6. DOMAIN o = 1..c /\ Len(o) = c /\ o \in Seq(S)
  <2>1. o = [n \in 1..c |-> o[n]]
    BY DEF InPlanOrder
  <2> HIDE DEF o, c, rank
  <2>2. QED
    BY <1>1, <1>5, <2>1
<1>7. \A k \in S : rank[k] \in 1..c
  BY <1>2
<1> HIDE DEF o, c, rank
<1>8. Distinct(o)
  <2>1. \A i, k \in 1..c : o[i] = o[k] => i = k
    BY <1>5
  <2>2. QED
    BY <1>6, <2>1 DEF Distinct
<1>9. SeqRange(o) = S
  <2>1. ASSUME NEW k \in S PROVE \E n \in 1..c : o[n] = k
    <3>1. rank[k] \in 1..c
      BY <1>7
    <3>2. o[rank[k]] \in S /\ rank[o[rank[k]]] = rank[k]
      BY <1>5, <3>1
    <3>3. o[rank[k]] = k
      BY <1>3, <3>2
    <3>4. QED
      BY <3>1, <3>3
  <2>2. \A n \in 1..c : o[n] \in S
    BY <1>5
  <2>3. QED
    BY <1>6, <2>1, <2>2 DEF SeqRange
<1>10. QED
  BY <1>6, <1>8, <1>9 DEF o, c

\* No more episodes are rendered than the video may have.
LEMMA FewAreRendered ==
    ASSUME IsSeq(plan), MaxVideo \in Nat
    PROVE  Cardinality({i \in DOMAIN plan : Rendered(i)}) <= MaxVideo
<1> DEFINE D == DOMAIN plan
           S == {i \in D : Rendered(i)}
           ahead == [k \in D |-> {i \in D : Before(i, k)}]
<1>1. Len(plan) \in Nat /\ D = 1..Len(plan) /\ IsFiniteSet(D)
  BY FS_Interval DEF IsSeq
<1>2. ASSUME NEW i \in D PROVE Nth(i) \in Nat
  <2>1. IsFiniteSet(1..i) /\ {k \in 1..i : plan[k] = plan[i]} \in SUBSET (1..i)
    BY <1>1, FS_Interval
  <2>2. IsFiniteSet({k \in 1..i : plan[k] = plan[i]})
    BY <2>1, FS_Subset
  <2>3. QED
    BY <2>2, FS_CardinalityType DEF Nth
<1>3. \A i, k \in D : i # k => Before(i, k) \/ Before(k, i)
  BY <1>1, <1>2 DEF Before
<1>4. \A i \in D : ~Before(i, i)
  BY <1>1, <1>2 DEF Before
<1>5. \A i, j, k \in D : Before(i, j) /\ Before(j, k) => Before(i, k)
  BY <1>1, <1>2 DEF Before
<1> HIDE DEF D
<1>6. ASSUME NEW a \in D, NEW b \in D, Before(a, b) PROVE ahead[a] \subseteq ahead[b] /\ ahead[a] # ahead[b]
  BY <1>4, <1>5, <1>6
<1>7. \A i, k \in D : Cardinality(ahead[i]) = Cardinality(ahead[k]) => i = k
  <2>1. ahead \in [D -> SUBSET D]
    OBVIOUS
  <2> HIDE DEF ahead
  <2>2. QED
    BY <1>1, <1>3, <1>6, <2>1, RanksDiffer
<1>8. ASSUME NEW k \in S PROVE Cardinality(ahead[k]) \in 0..MaxVideo - 1
  <2>1. k \in D /\ Cardinality(ahead[k]) < MaxVideo
    BY DEF Rendered, D
  <2>2. IsFiniteSet(ahead[k])
    BY <1>1, <2>1, FS_Subset
  <2>3. Cardinality(ahead[k]) \in Nat
    BY <2>2, FS_CardinalityType
  <2>4. QED
    BY <2>1, <2>3
<1> DEFINE rank == [k \in S |-> Cardinality(ahead[k])]
<1>9. rank \in [S -> 0..MaxVideo - 1] /\ \A i, k \in S : rank[i] = rank[k] => i = k
  BY <1>7, <1>8
<1>10. IsFiniteSet(0..MaxVideo - 1) /\ Cardinality(0..MaxVideo - 1) = MaxVideo
  <2>1. CASE MaxVideo = 0
    BY <2>1, FS_Interval
  <2>2. CASE MaxVideo # 0
    BY <2>2, FS_Interval
  <2>3. QED
    BY <2>1, <2>2
<1>11. IsFiniteSet(S) /\ Cardinality(S) \in Nat
  <2>1. IsFiniteSet(S)
    BY <1>1, FS_Subset DEF D
  <2>2. QED
    BY <2>1, FS_CardinalityType
<1> HIDE DEF rank, S
<1>12. Cardinality(S) <= MaxVideo
  <2>1. SUFFICES ASSUME MaxVideo < Cardinality(S) PROVE FALSE
    BY <1>11
  <2>2. QED
    BY <1>9, <1>10, <1>11, <2>1, FS_PigeonHole
<1>13. QED
  BY <1>12 DEF S, D

-----------------------------------------------------------------------------
(***************************************************************************)
(* The evaluation job.                                                     *)
(***************************************************************************)
Jobs == DOMAIN plan
\* The jobs that may get into the video.
Filmed == {i \in Jobs : Rendered(i)}

\* The evaluation job's variables have their types.
EvalType ==
    /\ epc \in {"idle", "split", "frames", "filming", "rerun", "again", "plain", "rolling"}
                  \cup Ended
    /\ IsSeq(plan) /\ rows \in Seq(Jobs) /\ todo \in Seq(Jobs)
    /\ usage \in [SeqRange(plan) -> Nat]
    /\ epc \in {"idle", "split"} => rows = <<>> /\ todo = <<>>

\* Where the job is with its video.
VideoIs ==
    /\ epc \in {"frames", "filming"} => video = "on"
    /\ epc \in {"rerun", "again"} => video = "failed"
    /\ epc \in {"plain", "rolling"} /\ Filmed # {} => video # "on"
    /\ epc \in {"idle", "split"} => video \in {"off", "on"}

\* What has a row, and what still has to run.
RunsOnce ==
    /\ Distinct(rows) /\ Distinct(todo) /\ SeqRange(rows) \cap SeqRange(todo) = {}
    /\ epc \in {"frames", "filming", "rerun", "again"} => SeqRange(rows) \cup SeqRange(todo) = Filmed
    /\ epc \in {"plain", "rolling", "done"} => SeqRange(rows) \cup SeqRange(todo) = Jobs
    /\ epc \in {"filming", "rolling", "again"} => todo # <<>>
    /\ epc = "done" => todo = <<>>

\* The counts are those of the rows.
CountsAreRight ==
    \A g \in Counted : usage[g] = Cardinality({i \in DOMAIN rows : plan[rows[i]] = g})

\* The inductive invariant of the evaluation's episodes.
EpisodesInv == EvalType /\ VideoIs /\ RunsOnce /\ CountsAreRight

\* Episodes begun since the stop and those that may still begin unread are a
\* burst, and the rendered ones of a failed video come on top of it.
LateIs ==
    /\ late \in Nat /\ fresh \in 0..Burst
    /\ ~Asked => late = 0
    /\ video # "failed" => late + fresh <= Burst
    /\ late + fresh <= Burst + MaxVideo
    /\ epc = "rerun" => late + fresh + Len(todo) <= Burst + MaxVideo
    /\ epc = "again" => late + fresh + Len(todo) <= Burst + MaxVideo + 1

\* Episodes and frames are counted from one.
LEMMA EvalSizes == Episodes \in Nat \ {0} /\ MaxVideo \in Nat \ {0} /\ Burst \in Nat
BY EvalAssumption DEF EvalAssumption

\* The plan is split into two lists that share nothing.
LEMMA ListsAre ==
    ASSUME IsSeq(plan)
    PROVE  /\ RenderedJobs \in Seq(Jobs) /\ Distinct(RenderedJobs)
           /\ SeqRange(RenderedJobs) = Filmed /\ Len(RenderedJobs) <= MaxVideo
           /\ PlainJobs \in Seq(Jobs) /\ Distinct(PlainJobs) /\ SeqRange(PlainJobs) = Jobs \ Filmed
<1> DEFINE Rest == {i \in DOMAIN plan : ~Rendered(i)}
<1>1. Len(plan) \in Nat /\ Jobs = 1..Len(plan)
  BY DEF IsSeq, Jobs
<1>2. RenderedJobs = InPlanOrder(Filmed) /\ PlainJobs = InPlanOrder(Rest)
  BY DEF RenderedJobs, PlainJobs, Filmed, Jobs
<1>3. Filmed \in SUBSET Jobs /\ Rest \in SUBSET Jobs /\ Rest = Jobs \ Filmed
  BY DEF Filmed, Jobs
<1> HIDE DEF Rest
<1>4. /\ RenderedJobs \in Seq(Filmed) /\ Len(RenderedJobs) = Cardinality(Filmed)
      /\ Distinct(RenderedJobs) /\ SeqRange(RenderedJobs) = Filmed
  BY <1>1, <1>2, <1>3, PlanOrderIs
<1>5. PlainJobs \in Seq(Rest) /\ Distinct(PlainJobs) /\ SeqRange(PlainJobs) = Rest
  BY <1>1, <1>2, <1>3, PlanOrderIs
<1>6. Cardinality(Filmed) <= MaxVideo
  BY EvalSizes, FewAreRendered DEF Filmed, Jobs
<1>7. RenderedJobs \in Seq(Jobs) /\ PlainJobs \in Seq(Jobs)
  BY <1>3, <1>4, <1>5, SeqMonotonic
<1>8. QED
  BY <1>3, <1>4, <1>5, <1>6, <1>7

\* The head of one sequence goes to the end of another that shares nothing with it.
LEMMA HeadMoves ==
    ASSUME NEW J, NEW r \in Seq(J), NEW t \in Seq(J), t # <<>>,
           Distinct(r), Distinct(t), SeqRange(r) \cap SeqRange(t) = {}
    PROVE  /\ Append(r, Head(t)) \in Seq(J) /\ Tail(t) \in Seq(J)
           /\ Distinct(Append(r, Head(t))) /\ Distinct(Tail(t))
           /\ SeqRange(Append(r, Head(t))) \cap SeqRange(Tail(t)) = {}
           /\ SeqRange(Append(r, Head(t))) \cup SeqRange(Tail(t)) = SeqRange(r) \cup SeqRange(t)
           /\ Len(Tail(t)) = Len(t) - 1 /\ Len(t) \in Nat \ {0} /\ Head(t) \in J
<1> DEFINE h == Head(t)
           a == Append(r, h)
           e == Tail(t)
           m == Len(r)
           n == Len(t)
<1>1. m \in Nat /\ n \in Nat \ {0} /\ DOMAIN r = 1..m /\ DOMAIN t = 1..n
  BY EmptySeq, LenProperties
<1>2. h = t[1] /\ h \in J /\ e \in Seq(J) /\ Len(e) = n - 1 /\ DOMAIN e = 1..(n - 1)
      /\ \A i \in 1..(n - 1) : e[i] = t[i + 1]
  BY <1>1, HeadTailProperties, LenProperties
<1>3. a \in Seq(J) /\ Len(a) = m + 1 /\ DOMAIN a = 1..(m + 1) /\ a[m + 1] = h
      /\ \A i \in 1..m : a[i] = r[i]
  BY <1>1, <1>2, AppendProperties, LenProperties
<1> HIDE DEF a, e, h, m, n
<1>4. SeqRange(t) = SeqRange(e) \cup {h}
  <2>1. ASSUME NEW i \in 1..n PROVE t[i] = h \/ \E k \in 1..(n - 1) : e[k] = t[i]
    <3>1. CASE i = 1
      BY <1>2, <3>1
    <3>2. CASE i # 1
      <4>1. i - 1 \in 1..(n - 1) /\ (i - 1) + 1 = i
        BY <1>1, <3>2
      <4>2. e[i - 1] = t[i]
        BY <1>2, <4>1
      <4>3. QED
        BY <4>1, <4>2
    <3>3. QED
      BY <3>1, <3>2
  <2>2. \A i \in 1..(n - 1) : e[i] = t[i + 1] /\ i + 1 \in 1..n
    BY <1>1, <1>2
  <2>3. 1 \in 1..n
    BY <1>1
  <2>4. SeqRange(t) \subseteq SeqRange(e) \cup {h}
    <3>1. \A k \in 1..(n - 1) : e[k] \in SeqRange(e)
      BY <1>2 DEF SeqRange
    <3>2. \A i \in 1..n : t[i] \in SeqRange(e) \cup {h}
      BY <2>1, <3>1
    <3>3. QED
      BY <1>1, <3>2 DEF SeqRange
  <2>5. SeqRange(e) \subseteq SeqRange(t)
    BY <1>1, <1>2, <2>2 DEF SeqRange
  <2>6. h \in SeqRange(t)
    BY <1>1, <1>2, <2>3 DEF SeqRange
  <2>7. QED
    BY <2>4, <2>5, <2>6
<1>5. SeqRange(a) = SeqRange(r) \cup {h}
  <2>1. 1..(m + 1) = 1..m \cup {m + 1}
    BY <1>1
  <2>2. QED
    BY <1>1, <1>3, <2>1 DEF SeqRange
<1>6. h \in SeqRange(t) /\ h \notin SeqRange(r)
  BY <1>4
<1>7. h \notin SeqRange(e)
  <2>1. ASSUME NEW i \in 1..(n - 1) PROVE e[i] # h
    <3>1. i + 1 \in DOMAIN t /\ 1 \in DOMAIN t /\ i + 1 # 1
      BY <1>1
    <3>2. QED
      BY <1>2, <3>1 DEF Distinct
  <2>2. QED
    BY <1>2, <2>1 DEF SeqRange
<1>8. Distinct(e)
  <2>1. ASSUME NEW i \in 1..(n - 1), NEW k \in 1..(n - 1), e[i] = e[k] PROVE i = k
    <3>1. i + 1 \in DOMAIN t /\ k + 1 \in DOMAIN t /\ t[i + 1] = t[k + 1]
      BY <1>1, <1>2, <2>1
    <3>2. i + 1 = k + 1
      BY <3>1 DEF Distinct
    <3>3. QED
      BY <3>2
  <2>2. QED
    BY <1>2, <2>1 DEF Distinct
<1>9. Distinct(a)
  <2>1. \A i \in 1..m : a[i] \in SeqRange(r)
    BY <1>1, <1>3 DEF SeqRange
  <2>2. ASSUME NEW i \in 1..(m + 1), NEW k \in 1..(m + 1), a[i] = a[k] PROVE i = k
    <3>1. i \in 1..m \/ i = m + 1
      BY <1>1
    <3>2. k \in 1..m \/ k = m + 1
      BY <1>1
    <3>3. CASE i \in 1..m /\ k \in 1..m
      BY <1>1, <1>3, <2>2, <3>3 DEF Distinct
    <3>4. QED
      BY <1>3, <1>6, <2>1, <2>2, <3>1, <3>2, <3>3
  <2>3. QED
    BY <1>3, <2>2 DEF Distinct
<1>10. SeqRange(a) \cap SeqRange(e) = {} /\ SeqRange(a) \cup SeqRange(e) = SeqRange(r) \cup SeqRange(t)
  BY <1>4, <1>5, <1>6, <1>7
<1>11. QED
  BY <1>1, <1>2, <1>3, <1>8, <1>9, <1>10 DEF a, e, h, n

\* One more row counts for its own group.
RowsOf(r, f, g) == {i \in DOMAIN r : f[r[i]] = g}

\* One more row is one more of its group, and of no other.
LEMMA OneMore ==
    ASSUME NEW J, NEW r \in Seq(J), NEW x \in J, NEW f, NEW g
    PROVE  Cardinality(RowsOf(Append(r, x), f, g))
             = Cardinality(RowsOf(r, f, g)) + (IF f[x] = g THEN 1 ELSE 0)
<1> DEFINE a == Append(r, x)
           m == Len(r)
           A == {i \in DOMAIN a : f[a[i]] = g}
           R == {i \in DOMAIN r : f[r[i]] = g}
<1>1. m \in Nat /\ DOMAIN r = 1..m
  BY LenProperties
<1>2. DOMAIN a = 1..(m + 1) /\ a[m + 1] = x /\ \A i \in 1..m : a[i] = r[i]
  BY <1>1, AppendProperties, LenProperties
<1>3. IsFiniteSet(R) /\ m + 1 \notin R
  <2>1. IsFiniteSet(1..m)
    BY <1>1, FS_Interval
  <2>2. R \in SUBSET (1..m) /\ m + 1 \notin 1..m
    BY <1>1
  <2>3. QED
    BY <2>1, <2>2, FS_Subset
<1>4. Cardinality(R) \in Nat
  BY <1>3, FS_CardinalityType
<1>5. 1..(m + 1) = 1..m \cup {m + 1}
  BY <1>1
<1> HIDE DEF a, m
<1>6. CASE f[x] = g
  <2>1. A = R \cup {m + 1}
    BY <1>1, <1>2, <1>5, <1>6
  <2> HIDE DEF A, R
  <2>2. Cardinality(A) = Cardinality(R) + 1
    BY <1>3, <2>1, FS_AddElement
  <2>3. QED
    BY <1>6, <2>2 DEF A, R, a, RowsOf
<1>7. CASE f[x] # g
  <2>1. A = R
    BY <1>1, <1>2, <1>5, <1>7
  <2> HIDE DEF A, R
  <2>2. Cardinality(A) = Cardinality(R) + 0
    BY <1>4, <2>1
  <2>3. QED
    BY <1>7, <2>2 DEF A, R, a, RowsOf
<1>8. QED
  BY <1>6, <1>7

\* The lists depend on the plan only.
LEMMA PlanStays ==
    ASSUME UNCHANGED <<lesson, plan>>, video = "off" <=> video' = "off"
    PROVE  Jobs' = Jobs /\ Filmed' = Filmed /\ Counted' = Counted /\ SeqRange(plan)' = SeqRange(plan)
<1>1. \A i \in Jobs : Rendered(i)' = Rendered(i)
  BY DEF Rendered, Before, Nth
<1>2. QED
  BY <1>1 DEF Jobs, Filmed, Counted, SeqRange

\* The rows, their counts and the list stay: an episode begins, or is under way.
LEMMA RowsStay ==
    ASSUME EpisodesInv, UNCHANGED <<lesson, plan, video, todo, rows, usage>>,
           \/ epc' = epc
           \/ epc = "frames" /\ epc' = "filming"
           \/ epc = "plain" /\ epc' = "rolling"
           \/ epc = "rerun" /\ epc' = "again",
           epc' # epc => todo # <<>>
    PROVE  EpisodesInv'
<1>1. Jobs' = Jobs /\ Filmed' = Filmed /\ Counted' = Counted /\ SeqRange(plan)' = SeqRange(plan)
  BY PlanStays
<1>2. EvalType' /\ VideoIs'
  BY <1>1 DEF EpisodesInv, EvalType, VideoIs, Ended
<1>3. RunsOnce'
  <2>1. RunsOnce
    BY DEF EpisodesInv
  <2>2. /\ SeqRange(rows)' = SeqRange(rows) /\ SeqRange(todo)' = SeqRange(todo)
        /\ Distinct(rows)' = Distinct(rows) /\ Distinct(todo)' = Distinct(todo)
    BY DEF SeqRange, Distinct
  <2>3. CASE epc' = epc
    BY <1>1, <2>1, <2>2, <2>3 DEF RunsOnce
  <2>4. CASE epc' # epc
    BY <1>1, <2>1, <2>2, <2>4 DEF RunsOnce
  <2>5. QED
    BY <2>3, <2>4
<1>4. CountsAreRight'
  BY <1>1 DEF EpisodesInv, CountsAreRight
<1>5. QED
  BY <1>2, <1>3, <1>4 DEF EpisodesInv

\* A job that stops, fails or dies leaves its rows and their counts as they are.
LEMMA JobStops ==
    ASSUME EpisodesInv, UNCHANGED <<lesson, plan, rows, usage>>,
           epc' \in {"stopped", "failed", "killed"}, todo' \in {todo, <<>>}
    PROVE  EpisodesInv'
<1>1. Jobs' = Jobs /\ Counted' = Counted /\ SeqRange(plan)' = SeqRange(plan)
  BY DEF Jobs, Counted, SeqRange
<1>2. EvalType /\ RunsOnce /\ CountsAreRight
  BY DEF EpisodesInv
<1>3. <<>> \in Seq(Jobs) /\ Distinct(<<>>) /\ SeqRange(<<>>) = {}
  BY EmptySeq DEF Distinct, SeqRange
<1>4. todo' \in Seq(Jobs) /\ Distinct(todo') /\ SeqRange(rows) \cap SeqRange(todo') = {}
  <2>1. CASE todo' = todo
    BY <1>2, <2>1, Zenon DEF EvalType, RunsOnce
  <2>2. CASE todo' = <<>>
    BY <1>3, <2>2
  <2>3. QED
    BY <2>1, <2>2
<1>5. EvalType'
  BY <1>1, <1>2, <1>4 DEF EvalType, Ended
<1>6. VideoIs'
  BY DEF VideoIs
<1>7. RunsOnce'
  BY <1>2, <1>4 DEF RunsOnce
<1>8. CountsAreRight'
  BY <1>1, <1>2 DEF CountsAreRight
<1>9. QED
  BY <1>5, <1>6, <1>7, <1>8 DEF EpisodesInv

\* The episodes without a video come after those with one.
LEMMA PlainBegins ==
    ASSUME EpisodesInv, UNCHANGED <<lesson, plan, rows, usage>>,
           SeqRange(rows) = Filmed, todo' = PlainJobs, epc' = "plain",
           video = "off" <=> video' = "off", Filmed # {} => video' # "on"
    PROVE  EpisodesInv'
<1>1. Jobs' = Jobs /\ Filmed' = Filmed /\ Counted' = Counted /\ SeqRange(plan)' = SeqRange(plan)
  BY PlanStays
<1>2. EvalType /\ RunsOnce /\ CountsAreRight
  BY DEF EpisodesInv
<1>3. PlainJobs \in Seq(Jobs) /\ Distinct(PlainJobs) /\ SeqRange(PlainJobs) = Jobs \ Filmed
  BY <1>2, ListsAre DEF EvalType
<1>4. Filmed \subseteq Jobs
  BY DEF Filmed
<1>5. EvalType'
  BY <1>1, <1>2, <1>3 DEF EvalType
<1>6. VideoIs'
  BY <1>1 DEF VideoIs
<1>7. RunsOnce'
  <2>1. SeqRange(rows)' = Filmed /\ SeqRange(todo)' = Jobs \ Filmed
    BY <1>3 DEF SeqRange
  <2>2. Distinct(rows)' /\ Distinct(todo)'
    BY <1>2, <1>3 DEF RunsOnce, Distinct
  <2>3. QED
    BY <1>1, <1>4, <2>1, <2>2, Zenon DEF RunsOnce
<1>8. CountsAreRight'
  BY <1>1, <1>2 DEF CountsAreRight
<1>9. QED
  BY <1>5, <1>6, <1>7, <1>8 DEF EpisodesInv

\* The rendered episodes begin: in the video, or once more without it.
LEMMA RenderedBegins ==
    ASSUME EpisodesInv, UNCHANGED <<lesson, plan>>, rows' = <<>>, todo' = RenderedJobs,
           usage' \in [SeqRange(plan) -> Nat], \A g \in Counted : usage'[g] = 0,
           video = "on",
           \/ epc' = "frames" /\ video' = "on"
           \/ epc' = "rerun" /\ video' = "failed"
    PROVE  EpisodesInv'
<1>1. Jobs' = Jobs /\ Filmed' = Filmed /\ Counted' = Counted /\ SeqRange(plan)' = SeqRange(plan)
  BY PlanStays
<1>2. EvalType
  BY DEF EpisodesInv
<1>3. /\ RenderedJobs \in Seq(Jobs) /\ Distinct(RenderedJobs)
      /\ SeqRange(RenderedJobs) = Filmed /\ Len(RenderedJobs) <= MaxVideo
  BY <1>2, ListsAre DEF EvalType
<1>4. <<>> \in Seq(Jobs) /\ Distinct(<<>>) /\ SeqRange(<<>>) = {} /\ DOMAIN <<>> = {}
  BY EmptySeq DEF Distinct, SeqRange
<1>5. EvalType'
  BY <1>1, <1>2, <1>3, <1>4 DEF EvalType
<1>6. VideoIs'
  BY DEF VideoIs
<1>7. RunsOnce'
  <2>1. SeqRange(rows)' = {} /\ SeqRange(todo)' = Filmed
    BY <1>3, <1>4 DEF SeqRange
  <2>2. Distinct(rows)' /\ Distinct(todo)'
    BY <1>3, <1>4 DEF Distinct
  <2>3. QED
    BY <1>1, <2>1, <2>2 DEF RunsOnce
<1>8. CountsAreRight'
  <2>1. SUFFICES ASSUME NEW g \in Counted
                 PROVE  usage'[g] = Cardinality({i \in DOMAIN rows' : plan[rows'[i]] = g})
    BY <1>1 DEF CountsAreRight
  <2>2. {i \in DOMAIN rows' : plan[rows'[i]] = g} = {}
    BY <1>4
  <2>3. QED
    BY <2>2, FS_EmptySet
<1>9. QED
  BY <1>5, <1>6, <1>7, <1>8 DEF EpisodesInv

\* An episode ends with its row, counted if its group is.
LEMMA RowIsAdded ==
    ASSUME EpisodesInv, UNCHANGED <<lesson, plan, video>>, todo # <<>>,
           rows' = Append(rows, Head(todo)), todo' = Tail(todo),
           usage' \in [SeqRange(plan) -> Nat],
           \A g \in Counted : usage'[g] = usage[g] + (IF Current = g THEN 1 ELSE 0),
           \/ epc = "filming" /\ epc' = "frames"
           \/ epc = "rolling" /\ epc' = "plain"
           \/ epc = "again" /\ epc' = "rerun"
    PROVE  EpisodesInv'
<1>1. Jobs' = Jobs /\ Filmed' = Filmed /\ Counted' = Counted /\ SeqRange(plan)' = SeqRange(plan)
  BY PlanStays
<1>2. EvalType /\ VideoIs /\ RunsOnce /\ CountsAreRight
  BY DEF EpisodesInv
<1>3. rows \in Seq(Jobs) /\ todo \in Seq(Jobs) /\ Distinct(rows) /\ Distinct(todo)
      /\ SeqRange(rows) \cap SeqRange(todo) = {}
  BY <1>2 DEF EvalType, RunsOnce
<1>4. /\ rows' \in Seq(Jobs) /\ todo' \in Seq(Jobs) /\ Distinct(rows') /\ Distinct(todo')
      /\ SeqRange(rows') \cap SeqRange(todo') = {}
      /\ SeqRange(rows') \cup SeqRange(todo') = SeqRange(rows) \cup SeqRange(todo)
      /\ Len(todo') = Len(todo) - 1 /\ Len(todo) \in Nat \ {0} /\ Head(todo) \in Jobs
  BY <1>3, HeadMoves
<1>5. EvalType'
  BY <1>1, <1>2, <1>4 DEF EvalType
<1>6. VideoIs'
  BY <1>1, <1>2 DEF VideoIs
<1>7. RunsOnce'
  <2>1. /\ SeqRange(rows)' = SeqRange(rows') /\ SeqRange(todo)' = SeqRange(todo')
        /\ Distinct(rows)' = Distinct(rows') /\ Distinct(todo)' = Distinct(todo')
    BY DEF SeqRange, Distinct
  <2>2. /\ epc' \in {"frames", "rerun"} => SeqRange(rows) \cup SeqRange(todo) = Filmed
        /\ epc' = "plain" => SeqRange(rows) \cup SeqRange(todo) = Jobs
    BY <1>2 DEF RunsOnce
  <2>3. QED
    BY <1>1, <1>4, <2>1, <2>2 DEF RunsOnce
<1>8. CountsAreRight'
  <2>1. SUFFICES ASSUME NEW g \in Counted
                 PROVE  usage'[g] = Cardinality({i \in DOMAIN rows' : plan[rows'[i]] = g})
    BY <1>1 DEF CountsAreRight
  <2>2. usage[g] = Cardinality({i \in DOMAIN rows : plan[rows[i]] = g})
    BY <1>2 DEF CountsAreRight
  <2> DEFINE h == Head(todo)
  <2>3. h \in Jobs /\ rows' = Append(rows, h) /\ usage'[g] = usage[g] + (IF plan[h] = g THEN 1 ELSE 0)
    BY <1>4 DEF Current
  <2> HIDE DEF h
  <2>4. Cardinality(RowsOf(Append(rows, h), plan, g))
          = Cardinality(RowsOf(rows, plan, g)) + (IF plan[h] = g THEN 1 ELSE 0)
    BY <1>3, <2>3, OneMore
  <2>5. QED
    BY <2>2, <2>3, <2>4 DEF RowsOf
<1>9. QED
  BY <1>5, <1>6, <1>7, <1>8 DEF EpisodesInv

-----------------------------------------------------------------------------
\* A job starts with a plan and nothing run.
LEMMA StartKeeps ==
    ASSUME EpisodesInv, NEW eps, IsSeq(eps), StartWith(eps), UNCHANGED lesson
    PROVE  EpisodesInv'
<1>1. /\ epc = "idle" /\ epc' = "split" /\ plan' = eps /\ video' \in {"off", "on"}
      /\ usage' = [g \in SeqRange(eps) |-> 0] /\ UNCHANGED <<todo, rows>>
  BY DEF StartWith
<1>2. rows = <<>> /\ todo = <<>>
  BY <1>1 DEF EpisodesInv, EvalType
<1>3. rows' = <<>> /\ todo' = <<>>
  BY <1>1, <1>2
<1>4. <<>> \in Seq(Jobs') /\ Distinct(<<>>) /\ SeqRange(<<>>) = {} /\ DOMAIN <<>> = {}
  BY EmptySeq DEF Distinct, SeqRange
<1>5. EvalType'
  <2>1. IsSeq(plan)' /\ SeqRange(plan)' = SeqRange(eps)
    BY <1>1 DEF IsSeq, SeqRange
  <2>2. usage' \in [SeqRange(plan)' -> Nat]
    BY <1>1, <2>1
  <2>3. QED
    BY <1>1, <1>3, <1>4, <2>1, <2>2 DEF EvalType
<1>6. VideoIs'
  BY <1>1 DEF VideoIs
<1>7. RunsOnce'
  BY <1>1, <1>3, <1>4 DEF RunsOnce
<1>8. CountsAreRight'
  <2>1. SUFFICES ASSUME NEW g \in Counted'
                 PROVE  usage'[g] = Cardinality({i \in DOMAIN rows' : plan'[rows'[i]] = g})
    BY DEF CountsAreRight
  <2>2. g \in SeqRange(eps)
    BY <1>1 DEF Counted, SeqRange
  <2>3. {i \in DOMAIN rows' : plan'[rows'[i]] = g} = {}
    BY <1>3, <1>4
  <2>4. QED
    BY <1>1, <2>2, <2>3, FS_EmptySet
<1>9. QED
  BY <1>5, <1>6, <1>7, <1>8 DEF EpisodesInv

\* An episode begins.
LEMMA BeginKeeps ==
    ASSUME EpisodesInv, BeginPolled \/ Rerun, UNCHANGED lesson
    PROVE  EpisodesInv'
<1>1. UNCHANGED <<lesson, plan, video, todo, rows, usage>> /\ todo # <<>>
  BY DEF BeginPolled, Rerun, Begin
<1>2. \/ epc = "frames" /\ epc' = "filming"
      \/ epc = "plain" /\ epc' = "rolling"
      \/ epc = "rerun" /\ epc' = "again"
  BY DEF BeginPolled, Rerun, Polled
<1>3. QED
  BY <1>1, <1>2, RowsStay

\* A decision of a router or a gate is noted for the episode at hand.
LEMMA DecidesKeeps ==
    ASSUME EpisodesInv, Decide17 \/ Decide18, UNCHANGED lesson
    PROVE  EpisodesInv'
<1>1. UNCHANGED <<lesson, epc, plan, video, todo, rows, usage>>
  BY DEF Decide17, Decide18, Decides
<1>2. QED
  BY <1>1, RowsStay

\* An episode ends with a row.
LEMMA EpisodeEndsKeeps ==
    ASSUME EpisodesInv, EpisodeEnds, UNCHANGED lesson
    PROVE  EpisodesInv'
<1>1. \/ epc = "filming" /\ epc' = "frames"
      \/ epc = "rolling" /\ epc' = "plain"
      \/ epc = "again" /\ epc' = "rerun"
  BY DEF EpisodeEnds
<1>2. /\ rows' = Append(rows, Head(todo)) /\ todo' = Tail(todo)
      /\ UNCHANGED <<plan, video>>
  BY DEF EpisodeEnds, Episode15, Episode16, Episode17, Episode18, Recorded
<1>3. EvalType /\ todo # <<>>
  BY <1>1 DEF EpisodesInv, RunsOnce
<1>4. usage \in [SeqRange(plan) -> Nat] /\ Current \in SeqRange(plan)
  <2>1. Head(todo) \in Jobs
    BY <1>3, HeadTailProperties DEF EvalType
  <2>2. QED
    BY <1>3, <2>1 DEF EvalType, Jobs, Current, SeqRange
<1>5. /\ usage' \in [SeqRange(plan) -> Nat]
      /\ \A g \in Counted : usage'[g] = usage[g] + (IF Current = g THEN 1 ELSE 0)
  <2>1. Counted \subseteq SeqRange(plan)
    BY DEF Counted
  <2>2. CASE Count
    <3>1. CASE partial
      <4>1. usage' = [usage EXCEPT ![Current] = usage[Current] + 1]
        BY <2>2, <3>1 DEF Count
      <4>2. usage' \in [SeqRange(plan) -> Nat]
        BY <1>4, <4>1
      <4>3. ASSUME NEW g \in SeqRange(plan)
            PROVE  usage'[g] = usage[g] + (IF Current = g THEN 1 ELSE 0)
        BY <1>4, <4>1
      <4>4. QED
        BY <2>1, <4>2, <4>3
    <3>2. CASE ~partial
      <4>1. usage' = usage /\ Current \notin Counted
        BY <2>2, <3>2 DEF Count
      <4>2. ASSUME NEW g \in Counted PROVE usage[g] \in Nat /\ Current # g
        BY <1>4, <2>1, <4>1
      <4>3. QED
        BY <1>4, <4>1, <4>2
    <3>3. QED
      BY <3>1, <3>2
  <2>3. CASE lesson \in {15, 16} /\ NoCount
    BY <1>4, <2>3 DEF NoCount, Counted
  <2>4. QED
    BY <2>2, <2>3 DEF EpisodeEnds, Episode15, Episode16, Episode17, Episode18
<1>6. QED
  BY <1>1, <1>2, <1>3, <1>5, RowIsAdded

\* The rendered episodes come first, if there is a video.
LEMMA SplitKeeps ==
    ASSUME EpisodesInv, Split, UNCHANGED lesson
    PROVE  EpisodesInv'
<1>1. /\ epc = "split" /\ UNCHANGED <<lesson, plan, video, rows, usage>>
      /\ \/ video = "on" /\ todo' = RenderedJobs /\ epc' = "frames"
         \/ video # "on" /\ todo' = PlainJobs /\ epc' = "plain"
  BY DEF Split
<1>2. rows = <<>> /\ video \in {"off", "on"} /\ usage \in [SeqRange(plan) -> Nat]
  BY <1>1 DEF EpisodesInv, EvalType, VideoIs
<1>3. DOMAIN rows = {} /\ SeqRange(rows) = {}
  BY <1>2 DEF SeqRange
<1>4. CASE video = "on"
  <2>1. \A g \in Counted : usage[g] = 0
    <3>1. SUFFICES ASSUME NEW g \in Counted PROVE usage[g] = 0
      OBVIOUS
    <3>2. usage[g] = Cardinality({i \in DOMAIN rows : plan[rows[i]] = g})
      BY DEF EpisodesInv, CountsAreRight
    <3>3. {i \in DOMAIN rows : plan[rows[i]] = g} = {}
      BY <1>3
    <3>4. QED
      BY <3>2, <3>3, FS_EmptySet
  <2>2. QED
    BY <1>1, <1>2, <1>4, <2>1, RenderedBegins
<1>5. CASE video = "off"
  <2>1. Filmed = {}
    BY <1>5 DEF Filmed, Rendered
  <2>2. QED
    BY <1>1, <1>2, <1>3, <1>5, <2>1, PlainBegins
<1>6. QED
  BY <1>2, <1>4, <1>5

\* The video ends, whole or not.
LEMMA VideoEndsKeeps ==
    ASSUME EpisodesInv, FramesEnd \/ VideoFails, UNCHANGED lesson
    PROVE  EpisodesInv'
<1>1. epc \in {"frames", "filming"} /\ UNCHANGED <<lesson, plan>>
  BY DEF FramesEnd, VideoFails
<1>2. EvalType /\ video = "on" /\ SeqRange(rows) \cup SeqRange(todo) = Filmed
  BY <1>1 DEF EpisodesInv, EvalType, VideoIs, RunsOnce
<1>3. CASE FramesEnd
  <2>1. epc' \in {"plain", "stopped"} /\ video' = "ok" /\ UNCHANGED <<rows, usage>>
    BY <1>3 DEF FramesEnd
  <2>2. CASE epc' = "stopped"
    <3>1. todo' = <<>>
      BY <1>3, <2>2 DEF FramesEnd
    <3>2. QED
      BY <1>1, <1>2, <2>1, <2>2, <3>1, JobStops
  <2>3. CASE epc' = "plain"
    <3>1. todo = <<>> /\ todo' = PlainJobs
      BY <1>3, <2>3 DEF FramesEnd
    <3>2. SeqRange(todo) = {}
      BY <3>1 DEF SeqRange
    <3>3. SeqRange(rows) = Filmed
      BY <1>2, <3>2
    <3>4. video' # "on" /\ (video = "off" <=> video' = "off")
      BY <1>2, <2>1
    <3>5. QED
      BY <1>1, <1>2, <2>1, <2>3, <3>1, <3>3, <3>4, PlainBegins
  <2>4. QED
    BY <2>1, <2>2, <2>3
<1>4. CASE VideoFails
  <2>1. /\ epc' = "rerun" /\ video' = "failed" /\ todo' = RenderedJobs /\ rows' = <<>>
    BY <1>4 DEF VideoFails, Clear15, Clear16, Clear17, Clear18
  <2>2. usage \in [SeqRange(plan) -> Nat] /\ Counted \subseteq SeqRange(plan)
    BY <1>2 DEF EvalType, Counted
  <2>3. usage' \in [SeqRange(plan) -> Nat] /\ \A g \in Counted : usage'[g] = 0
    <3>1. CASE usage' = Zero
      BY <2>2, <3>1 DEF Zero
    <3>2. CASE lesson \in {15, 16} /\ usage' = usage
      BY <2>2, <3>2 DEF Counted
    <3>3. QED
      BY <1>4, <3>1, <3>2 DEF VideoFails, Clear15, Clear16, Clear17, Clear18, NoCount
  <2>4. QED
    BY <1>1, <1>2, <2>1, <2>3, RenderedBegins
<1>5. QED
  BY <1>3, <1>4

\* The episodes that missed the video run once more.
LEMMA RerunEndsKeeps ==
    ASSUME EpisodesInv, RerunEnds, UNCHANGED lesson
    PROVE  EpisodesInv'
<1>1. /\ epc = "rerun" /\ todo = <<>> /\ UNCHANGED <<lesson, plan, video, rows, usage>>
      /\ \/ epc' = "stopped" /\ todo' = <<>>
         \/ epc' = "plain" /\ todo' = PlainJobs
  BY DEF RerunEnds
<1>2. video = "failed" /\ SeqRange(rows) \cup SeqRange(todo) = Filmed
  BY <1>1 DEF EpisodesInv, VideoIs, RunsOnce
<1>3. SeqRange(todo) = {}
  BY <1>1 DEF SeqRange
<1>4. QED
  BY <1>1, <1>2, <1>3, JobStops, PlainBegins

\* The job stops, fails or dies between the episodes, or is done.
LEMMA EndKeeps ==
    ASSUME EpisodesInv, PlainStops \/ EvalRaises \/ EvalKilled \/ EvalDone, UNCHANGED lesson
    PROVE  EpisodesInv'
<1>1. UNCHANGED <<lesson, plan, video, todo, rows, usage>>
  BY DEF PlainStops, EvalRaises, EvalKilled, EvalDone
<1>2. CASE PlainStops \/ EvalRaises \/ EvalKilled
  <2>1. epc' \in {"stopped", "failed", "killed"}
    BY <1>2 DEF PlainStops, EvalRaises, EvalKilled
  <2>2. QED
    BY <1>1, <2>1, JobStops
<1>3. CASE EvalDone
  <2>1. epc = "plain" /\ epc' = "done" /\ todo = <<>>
    BY <1>3 DEF EvalDone
  <2>2. Jobs' = Jobs /\ Filmed' = Filmed /\ Counted' = Counted /\ SeqRange(plan)' = SeqRange(plan)
    BY <1>1, PlanStays
  <2>3. EvalType' /\ VideoIs'
    BY <1>1, <2>1, <2>2 DEF EpisodesInv, EvalType, VideoIs, Ended
  <2>4. RunsOnce'
    <3>1. RunsOnce
      BY DEF EpisodesInv
    <3>2. /\ SeqRange(rows)' = SeqRange(rows) /\ SeqRange(todo)' = SeqRange(todo)
          /\ Distinct(rows)' = Distinct(rows) /\ Distinct(todo)' = Distinct(todo)
      BY <1>1 DEF SeqRange, Distinct
    <3>3. QED
      BY <1>1, <2>1, <2>2, <3>1, <3>2 DEF RunsOnce
  <2>5. CountsAreRight'
    BY <1>1, <2>1, <2>2 DEF EpisodesInv, CountsAreRight
  <2>6. QED
    BY <2>3, <2>4, <2>5 DEF EpisodesInv
<1>4. QED
  BY <1>2, <1>3

\* Every step of the evaluation keeps the invariant.
LEMMA EvaluateKeeps == EpisodesInv /\ Evaluate => EpisodesInv'
<1> SUFFICES ASSUME EpisodesInv, Evaluate PROVE EpisodesInv'
  OBVIOUS
<1>1. UNCHANGED lesson
  BY DEF Evaluate, trainVars
<1>2. QED
  BY <1>1, SplitKeeps, BeginKeeps, DecidesKeeps, EpisodeEndsKeeps, VideoEndsKeeps,
     RerunEndsKeeps, EndKeeps DEF Evaluate

\* It is about the evaluation only.
LEMMA EpisodesStay == EpisodesInv /\ UNCHANGED <<lesson, evalVars>> => EpisodesInv'
<1> SUFFICES ASSUME EpisodesInv, UNCHANGED <<lesson, evalVars>> PROVE EpisodesInv'
  OBVIOUS
<1>1. UNCHANGED <<lesson, epc, plan, video, todo, rows, usage>>
  BY DEF evalVars
<1>2. QED
  BY <1>1, RowsStay

\* It holds at first.
LEMMA EpisodesHoldAtFirst == EvalInit => EpisodesInv
<1> SUFFICES ASSUME EvalInit PROVE EpisodesInv
  OBVIOUS
<1>1. /\ epc = "idle" /\ plan = <<>> /\ video = "off" /\ todo = <<>> /\ rows = <<>>
      /\ usage = [g \in {} |-> 0]
  BY DEF EvalInit
<1>2. <<>> \in Seq(Jobs) /\ <<>> \in Seq({}) /\ Distinct(<<>>) /\ SeqRange(<<>>) = {} /\ DOMAIN <<>> = {}
  BY EmptySeq DEF Distinct, SeqRange
<1>3. EvalType
  <2>1. IsSeq(plan) /\ SeqRange(plan) = {}
    BY <1>1, <1>2 DEF IsSeq
  <2>2. usage \in [SeqRange(plan) -> Nat]
    BY <1>1, <2>1
  <2>3. QED
    BY <1>1, <1>2, <2>1, <2>2 DEF EvalType
<1>4. VideoIs /\ RunsOnce
  BY <1>1, <1>2 DEF VideoIs, RunsOnce
<1>5. CountsAreRight
  BY <1>1, <1>2 DEF CountsAreRight, Counted
<1>6. QED
  BY <1>3, <1>4, <1>5 DEF EpisodesInv

\* It gives EachEpisodeOnce.
LEMMA EpisodesAreRight == EpisodesInv => EachEpisodeOnce
<1> SUFFICES ASSUME EpisodesInv PROVE EachEpisodeOnce
  OBVIOUS
<1>1. epc = "done" => SeqRange(rows) = DOMAIN plan
  <2>1. SUFFICES ASSUME epc = "done" PROVE SeqRange(rows) = DOMAIN plan
    OBVIOUS
  <2>2. todo = <<>> /\ SeqRange(rows) \cup SeqRange(todo) = Jobs
    BY <2>1 DEF EpisodesInv, RunsOnce
  <2>3. SeqRange(todo) = {}
    BY <2>2 DEF SeqRange
  <2>4. QED
    BY <2>2, <2>3 DEF Jobs
<1>2. QED
  BY <1>1 DEF EpisodesInv, RunsOnce, CountsAreRight, Distinct, EachEpisodeOnce

-----------------------------------------------------------------------------
(***************************************************************************)
(* What a stop still lets begin.                                           *)
(***************************************************************************)
\* Nothing begins: the list is emptied, is the rendered episodes of a video that
\* just failed, or loses the episode that ended.
LEMMA LateStays ==
    ASSUME LateIs, UNCHANGED <<late, fresh>>, Asked => Asked',
           video = "failed" => video' = "failed",
           epc' = "again" => epc = "again" /\ todo' = todo,
           epc' = "rerun" => \/ epc = "rerun" /\ todo' = todo
                             \/ epc = "again" /\ Len(todo) \in Nat /\ Len(todo') = Len(todo) - 1
                             \/ video # "failed" /\ Len(todo') \in Nat /\ Len(todo') <= MaxVideo
    PROVE  LateIs'
<1>1. /\ late' = late /\ fresh' = fresh /\ late \in Nat /\ fresh \in Nat
      /\ Burst \in Nat /\ MaxVideo \in Nat
  BY EvalSizes DEF LateIs
<1>2. epc' = "again" => late + fresh + Len(todo') <= Burst + MaxVideo + 1
  BY DEF LateIs
<1>3. epc' = "rerun" => late + fresh + Len(todo') <= Burst + MaxVideo
  BY <1>1 DEF LateIs
<1>4. QED
  BY <1>1, <1>2, <1>3 DEF LateIs

\* An episode begins: unread, before the stop, or as one of the failed video.
LEMMA LateBegins ==
    ASSUME EpisodesInv, LateIs, BeginPolled \/ Rerun, UNCHANGED stopAsked
    PROVE  LateIs'
<1>1. /\ todo # <<>> /\ todo' = todo /\ video' = video /\ (Asked <=> Asked')
      /\ late' = IF Asked THEN late + 1 ELSE late
  BY DEF BeginPolled, Rerun, Begin, Asked
<1>2. /\ late \in Nat /\ fresh \in Nat /\ Burst \in Nat /\ MaxVideo \in Nat
      /\ Len(todo) \in Nat /\ Len(todo) > 0
  BY <1>1, EvalSizes, EmptySeq, LenProperties DEF LateIs, EpisodesInv, EvalType
<1>3. CASE BeginPolled
  <2>1. epc' \in {"filming", "rolling"}
    BY <1>3 DEF BeginPolled
  <2>2. CASE ~Asked /\ fresh' = Burst
    BY <1>1, <1>2, <2>1, <2>2 DEF LateIs
  <2>3. CASE fresh > 0 /\ fresh' = fresh - 1
    BY <1>1, <1>2, <2>1, <2>3 DEF LateIs
  <2>4. QED
    BY <1>3, <2>2, <2>3 DEF BeginPolled, Poll
<1>4. CASE Rerun
  <2>1. epc = "rerun" /\ epc' = "again" /\ video = "failed" /\ fresh' = fresh
    BY <1>4 DEF Rerun, EpisodesInv, VideoIs
  <2>2. QED
    BY <1>1, <1>2, <2>1 DEF LateIs
<1>5. QED
  BY <1>3, <1>4

\* Every step of the evaluation.
LEMMA LateKeeps ==
    ASSUME EpisodesInv, LateIs, Evaluate
    PROVE  LateIs'
<1>1. UNCHANGED stopAsked /\ (Asked <=> Asked')
  BY DEF Evaluate, demoVars, Asked
<1>2. CASE BeginPolled \/ Rerun
  BY <1>1, <1>2, LateBegins
<1>3. CASE EpisodeEnds
  <2>1. /\ UNCHANGED <<late, fresh, video>> /\ todo' = Tail(todo)
        /\ epc' # "again" /\ (epc' = "rerun" => epc = "again")
    BY <1>3 DEF EpisodeEnds, Episode15, Episode16, Episode17, Episode18, Recorded, NoCount, Count
  <2>2. epc = "again" => Len(todo) \in Nat /\ Len(Tail(todo)) = Len(todo) - 1
    BY HeadTailProperties, LenProperties DEF EpisodesInv, EvalType, RunsOnce
  <2>3. QED
    BY <1>1, <2>1, <2>2, LateStays
<1>4. CASE VideoFails
  <2>1. /\ UNCHANGED <<late, fresh>> /\ epc' = "rerun" /\ todo' = RenderedJobs
        /\ video' = "failed" /\ epc \in {"frames", "filming"}
    BY <1>4 DEF VideoFails
  <2>2. video # "failed" /\ IsSeq(plan)
    BY <2>1 DEF EpisodesInv, EvalType, VideoIs
  <2>3. Len(RenderedJobs) \in Nat /\ Len(RenderedJobs) <= MaxVideo
    BY <2>2, ListsAre, LenProperties
  <2>4. QED
    BY <1>1, <2>1, <2>2, <2>3, LateStays
<1>5. CASE FramesEnd
  <2>1. UNCHANGED <<late, fresh>> /\ epc' \in {"stopped", "plain"} /\ epc = "frames"
    BY <1>5 DEF FramesEnd
  <2>2. video # "failed"
    BY <2>1 DEF EpisodesInv, VideoIs
  <2>3. QED
    BY <1>1, <2>1, <2>2, LateStays
<1>6. CASE Split \/ RerunEnds \/ PlainStops \/ EvalRaises \/ EvalDone \/ EvalKilled
  <2>1. UNCHANGED <<late, fresh, video>> /\ epc' \notin {"again", "rerun"}
    BY <1>6 DEF Split, RerunEnds, PlainStops, EvalRaises, EvalDone, EvalKilled
  <2>2. QED
    BY <1>1, <2>1, LateStays
<1>7. CASE Decide17 \/ Decide18
  <2>1. UNCHANGED <<late, fresh, video, epc, todo>>
    BY <1>7 DEF Decide17, Decide18, Decides
  <2>2. QED
    BY <1>1, <2>1, LateStays
<1>8. QED
  BY <1>2, <1>3, <1>4, <1>5, <1>6, <1>7 DEF Evaluate

\* It is about the evaluation and its stop only, and a stop that was asked stays.
LEMMA LateKept ==
    ASSUME LateIs, UNCHANGED evalVars, stopAsked \subseteq stopAsked'
    PROVE  LateIs'
<1>1. UNCHANGED <<late, fresh, video, epc, todo>> /\ (Asked => Asked')
  BY DEF evalVars, Asked
<1>2. QED
  BY <1>1, LateStays

\* Nothing of the kind when an evaluation starts.
LEMMA LateAtStart ==
    ASSUME EpisodesInv, LateIs, EvalStarts
    PROVE  LateIs'
<1>1. UNCHANGED <<late, fresh, stopAsked>> /\ epc = "idle" /\ epc' = "split"
  BY DEF EvalStarts, Eval15, Eval16, Eval17, Eval18, StartWith, demoVars
<1>2. video # "failed" /\ (Asked => Asked')
  BY <1>1 DEF EpisodesInv, VideoIs, Asked
<1>3. QED
  BY <1>1, <1>2, LateStays

\* It holds at first, and gives StopCostsFewEpisodes.
LEMMA LateHoldsAtFirst == EvalInit => LateIs
BY EvalSizes DEF EvalInit, LateIs

LEMMA StopsAreRead == LateIs => StopCostsFewEpisodes
BY EvalSizes DEF LateIs, StopCostsFewEpisodes


-----------------------------------------------------------------------------
(***************************************************************************)
(* The claims: the arms a lesson evaluates are the ones its claims name.   *)
(***************************************************************************)
Lesson == {15, 16, 17, 18}

\* The names of a lesson's arms.
ArmNames(l) ==
    CASE l = 15 -> {"t0", "t1", "t2", "t3", "kp 150", "kp 800", "position", "hybrid",
                    "dz -8", "dz 0", "dz 8"}
      [] l = 16 -> {"A t0 default", "B t1 default", "C t1 no-language"}
      [] l = 17 -> {"none", "prefix_linear", "prefix_moe", "concat_after", "fvlmoe"}
      [] l = 18 -> {"A fvlmoe+position", "B forcevla2+hybrid", "C forcevla2+position"}

\* The claims of a lesson.
ClaimsOf(l) ==
    CASE l = 15 -> Claims15 [] l = 16 -> Claims16 [] l = 17 -> Claims17 [] l = 18 -> Claims18

\* A checkpoint holds arms of its lesson only.
CkptArms ==
    \A n \in DOMAIN ckpts : /\ IsSeq(ckpts[n].arms)
                            /\ SeqRange(ckpts[n].arms) \subseteq ArmNames(lesson)

\* The episodes of a plan are of arms of its lesson.
PlanIs == \A g \in SeqRange(plan) : lesson \in Lesson /\ g.arm \in ArmNames(lesson)

\* Only a finished evaluation has a result: what its lesson's claims can be told from
\* its plan.
ResultIs ==
    /\ epc # "done" => result = {"none"}
    /\ epc = "done" =>
          /\ lesson \in Lesson
          /\ \E open \in SUBSET Unsure :
                result = Answered(ClaimsOf(lesson), SeqRange(plan)) \ open

\* The names of the suites' arms.
LEMMA SuiteNames ==
    ASSUME NEW i \in DOMAIN Suite, Suite # <<>>
    PROVE  Suite[i][1] \in ArmNames(lesson)
<1>1. lesson \in {16, 17, 18}
  BY SuitesAre
<1>2. CASE lesson = 16
  <2>1. Suite = Arms16
    BY <1>2 DEF Suite
  <2>2. DOMAIN Arms16 = 1..3 /\ Arms16[1][1] = "A t0 default" /\ Arms16[2][1] = "B t1 default"
        /\ Arms16[3][1] = "C t1 no-language"
    BY DEF Arms16
  <2>3. ArmNames(16) = {"A t0 default", "B t1 default", "C t1 no-language"}
    BY DEF ArmNames
  <2>4. i \in 1..3
    BY <2>1, <2>2
  <2>5. Arms16[i][1] \in ArmNames(16)
    <3>1. i = 1 \/ i = 2 \/ i = 3
      BY <2>4
    <3>2. QED
      BY <2>2, <2>3, <3>1
  <2>6. QED
    BY <1>2, <2>1, <2>5
<1>3. CASE lesson = 17
  <2>1. Suite = Arms17
    BY <1>3 DEF Suite
  <2>2. DOMAIN Arms17 = 1..5 /\ Arms17[1][1] = "none" /\ Arms17[2][1] = "prefix_linear"
        /\ Arms17[3][1] = "prefix_moe" /\ Arms17[4][1] = "concat_after" /\ Arms17[5][1] = "fvlmoe"
    BY DEF Arms17
  <2>3. ArmNames(17) = {"none", "prefix_linear", "prefix_moe", "concat_after", "fvlmoe"}
    BY DEF ArmNames
  <2>4. i \in 1..5
    BY <2>1, <2>2
  <2>5. Arms17[i][1] \in ArmNames(17)
    BY <2>2, <2>3, <2>4
  <2>6. QED
    BY <1>3, <2>1, <2>5
<1>4. CASE lesson = 18
  <2>1. Suite = Arms18
    BY <1>4 DEF Suite
  <2>2. DOMAIN Arms18 = 1..3 /\ Arms18[1][1] = "A fvlmoe+position"
        /\ Arms18[2][1] = "B forcevla2+hybrid" /\ Arms18[3][1] = "C forcevla2+position"
    BY DEF Arms18
  <2>3. ArmNames(18) = {"A fvlmoe+position", "B forcevla2+hybrid", "C forcevla2+position"}
    BY DEF ArmNames
  <2>4. i \in 1..3
    BY <2>1, <2>2
  <2>5. Arms18[i][1] \in ArmNames(18)
    <3>1. i = 1 \/ i = 2 \/ i = 3
      BY <2>4
    <3>2. QED
      BY <2>2, <2>3, <3>1
  <2>6. QED
    BY <1>4, <2>1, <2>5
<1>5. QED
  BY <1>1, <1>2, <1>3, <1>4

\* The arms of a suite have names of its lesson.
LEMMA ArmsHaveNames ==
    ASSUME NEW i \in DOMAIN Arms, Suite # <<>>
    PROVE  Arms[i][1] \in ArmNames(lesson)
<1>1. CASE preset # "single"
  BY <1>1, SuiteNames DEF Arms
<1>2. CASE preset = "single"
  <2> DEFINE k == IF lesson = 16 THEN 1 ELSE Len(Suite)
  <2>1. k \in DOMAIN Suite
    BY SuitesAre
  <2>2. Arms = <<Suite[k]>>
    BY <1>2 DEF Arms
  <2> HIDE DEF k
  <2>3. i = 1 /\ Arms[1] = Suite[k]
    BY <2>2
  <2>4. QED
    BY <2>1, <2>3, SuiteNames
<1>3. QED
  BY <1>1, <1>2

\* Training saves arms of its lesson only.
LEMMA CkptArmsKeep ==
    ASSUME TrainInv, CkptArms, Training
    PROVE  CkptArms'
<1>1. TrainType /\ IsSeq(ckpts) /\ UNCHANGED lesson
  BY DEF TrainInv, TrainType, Training, TrainStarts, LoadIndex, LoadShard, FitStep, FitEnds,
         ArmSaved, NextArm, TrainKilled
<1>2. CASE ckpts' = ckpts
  BY <1>1, <1>2 DEF CkptArms, SeqRange, IsSeq
<1>3. CASE ckpts' # ckpts
  <2>1. tpc \in {"fit", "save"} /\ arm \in DOMAIN Arms /\ Suite # <<>> /\ arm \in Nat \ {0}
    BY <1>1, <1>3 DEF TrainType, Training, TrainStarts, LoadIndex, LoadShard, FitStep, FitEnds,
         ArmSaved, NextArm, TrainKilled
  <2>2. \E l, at : ckpts' = Append(ckpts, Ckpt(l, at))
    BY <1>3, Zenon DEF Training, TrainStarts, LoadIndex, LoadShard, FitStep, FitEnds,
         ArmSaved, NextArm, TrainKilled, Save16, Save17, Save18, SaveSingle, SaveSuite
  <2>3. PICK l, at : ckpts' = Append(ckpts, Ckpt(l, at))
    BY <2>2
  <2> DEFINE c == Ckpt(l, at)
             s == [i \in 1..arm |-> Arms[i][1]]
  <2>4. c.arms = s
    BY DEF Ckpt
  <2>5. DOMAIN Arms = 1..Len(Arms) /\ Len(Arms) \in Nat
    BY <2>1, ArmsAre
  <2>6. \A i \in 1..arm : s[i] \in ArmNames(lesson)
    BY <2>1, <2>5, ArmsHaveNames
  <2>7. IsSeq(s) /\ SeqRange(s) \subseteq ArmNames(lesson)
    <3>1. DOMAIN s = 1..arm
      OBVIOUS
    <3> HIDE DEF s
    <3>2. SeqRange(s) \subseteq ArmNames(lesson)
      BY <2>6, <3>1 DEF SeqRange
    <3>3. \A i \in 1..arm : s[i] \in SeqRange(s)
      BY <3>1 DEF SeqRange
    <3>4. s = [i \in 1..arm |-> s[i]]
      BY DEF s
    <3>5. s \in Seq(SeqRange(s))
      BY <2>1, <3>3, <3>4
    <3>6. QED
      BY <3>2, <3>5 DEF IsSeq
  <2> HIDE DEF c, s
  <2>8. /\ Len(ckpts) \in Nat /\ DOMAIN ckpts' = 1..(Len(ckpts) + 1)
        /\ \A i \in 1..Len(ckpts) : ckpts'[i] = ckpts[i]
        /\ ckpts'[Len(ckpts) + 1] = c
    <3>1. /\ IsSeq(ckpts') /\ Len(ckpts) \in Nat /\ Len(ckpts') = Len(ckpts) + 1
          /\ \A i \in 1..Len(ckpts) : ckpts'[i] = ckpts[i]
          /\ ckpts'[Len(ckpts) + 1] = c
      BY <1>1, <2>3, AppendToAny DEF c
    <3>2. DOMAIN ckpts' = 1..Len(ckpts')
      BY <3>1 DEF IsSeq
    <3>3. QED
      BY <3>1, <3>2
  <2>9. ASSUME NEW n \in DOMAIN ckpts'
        PROVE  IsSeq(ckpts'[n].arms) /\ SeqRange(ckpts'[n].arms) \subseteq ArmNames(lesson)
    <3>1. CASE n = Len(ckpts) + 1
      BY <2>4, <2>7, <2>8, <3>1
    <3>2. CASE n # Len(ckpts) + 1
      <4>1. n \in DOMAIN ckpts /\ ckpts'[n] = ckpts[n]
        BY <1>1, <2>8, <3>2 DEF IsSeq
      <4>2. QED
        BY <4>1 DEF CkptArms
    <3>3. QED
      BY <3>1, <3>2
  <2>10. QED
    BY <1>1, <2>9 DEF CkptArms, IsSeq, SeqRange
<1>4. QED
  BY <1>2, <1>3

\* PerGroup repeats the groups it is given and adds none.
LEMMA PerGroupIs ==
    ASSUME NEW gs, IsSeq(gs)
    PROVE  IsSeq(PerGroup(gs)) /\ SeqRange(PerGroup(gs)) \subseteq SeqRange(gs)
<1> DEFINE n == Len(gs)
           p == PerGroup(gs)
           Q(i) == ((i - 1) \div Episodes) + 1
<1>1. n \in Nat /\ DOMAIN gs = 1..n /\ Episodes \in Nat \ {0}
  BY EvalSizes DEF IsSeq
<1>2. n * Episodes \in Nat
  BY <1>1
<1>3. ASSUME NEW i \in 1..n * Episodes PROVE Q(i) \in 1..n
  <2>1. i - 1 \in Nat /\ i - 1 < n * Episodes
    BY <1>2
  <2>2. (i - 1) \div Episodes \in Nat /\ (i - 1) \div Episodes < n
    <3>1. ASSUME NEW a \in Nat, NEW b \in Nat \ {0}, NEW m \in Nat, a < m * b
          PROVE  a \div b \in Nat /\ a \div b < m
      BY <3>1, Z3
    <3> HIDE DEF n
    <3>2. QED
      BY <1>1, <2>1, <3>1
  <2>3. QED
    BY <1>1, <2>2
<1>4. p = [i \in 1..n * Episodes |-> gs[Q(i)]]
  BY DEF PerGroup
<1> HIDE DEF n, p, Q
<1>5. \A i \in 1..n * Episodes : p[i] \in SeqRange(gs)
  BY <1>1, <1>3, <1>4 DEF SeqRange
<1>6. DOMAIN p = 1..n * Episodes /\ p \in Seq(SeqRange(p))
  <2> DEFINE m == n * Episodes
  <2>1. m \in Nat /\ p = [i \in 1..m |-> p[i]]
    BY <1>2, <1>4
  <2> HIDE DEF m
  <2>2. DOMAIN p = 1..m
    BY <2>1
  <2>3. \A i \in 1..m : p[i] \in SeqRange(p)
    BY <2>2 DEF SeqRange
  <2>4. QED
    BY <2>1, <2>2, <2>3 DEF m
<1>7. SeqRange(p) \subseteq SeqRange(gs)
  BY <1>5, <1>6 DEF SeqRange
<1>8. QED
  BY <1>6, <1>7 DEF IsSeq, p

\* eps are episodes of the lesson's arms.
IsPlan(eps) == IsSeq(eps) /\ \A g \in SeqRange(eps) : g.arm \in ArmNames(lesson)

\* The groups of a checkpoint are of its arms.
LEMMA GroupsOfArms ==
    ASSUME NEW c, IsSeq(c.arms), SeqRange(c.arms) \subseteq ArmNames(lesson), NEW noise, NEW b
    PROVE  IsPlan(ArmGroups(c, noise, b))
<1> DEFINE a == c.arms
           n == Len(a)
           s == ArmGroups(c, noise, b)
<1>1. n \in Nat /\ DOMAIN a = 1..n
  BY DEF IsSeq
<1>2. s = [i \in 1..n |-> Group(a[i], noise, b)]
  BY <1>1 DEF ArmGroups
<1> HIDE DEF s, n
<1>3. DOMAIN s = 1..n /\ \A i \in 1..n : s[i] \in SeqRange(s)
  BY <1>2 DEF SeqRange
<1>4. s \in Seq(SeqRange(s))
  <2>1. s = [i \in 1..n |-> s[i]]
    BY <1>2
  <2>2. QED
    BY <1>1, <1>3, <2>1
<1>5. ASSUME NEW i \in 1..n PROVE s[i].arm \in ArmNames(lesson)
  <2>1. s[i].arm = a[i]
    BY <1>2 DEF Group
  <2>2. a[i] \in SeqRange(a)
    BY <1>1 DEF SeqRange
  <2>3. QED
    BY <2>1, <2>2
<1>6. QED
  BY <1>3, <1>4, <1>5 DEF IsPlan, IsSeq, SeqRange, s

\* Two plans one after the other are a plan.
LEMMA PlansJoin ==
    ASSUME NEW s, NEW t, IsPlan(s), IsPlan(t)
    PROVE  IsPlan(s \o t)
<1> DEFINE S == SeqRange(s) \cup SeqRange(t)
           r == s \o t
<1>1. s \in Seq(S) /\ t \in Seq(S)
  BY DEF IsPlan, IsSeq
<1>2. \A g \in S : g.arm \in ArmNames(lesson)
  BY DEF IsPlan
<1> HIDE DEF S
<1>3. r \in Seq(S)
  BY <1>1, ConcatProperties
<1> HIDE DEF r
<1>4. r \in [1..Len(r) -> S] /\ DOMAIN r = 1..Len(r) /\ Len(r) \in Nat
  BY <1>3
<1>5. r \in [1..Len(r) -> SeqRange(r)] /\ SeqRange(r) \subseteq S
  BY <1>4 DEF SeqRange
<1>6. IsSeq(r)
  BY <1>4, <1>5 DEF IsSeq
<1>7. QED
  BY <1>2, <1>5, <1>6 DEF IsPlan, r

\* So does a plan of them.
LEMMA PlanPerGroup ==
    ASSUME NEW gs, IsPlan(gs)
    PROVE  IsPlan(PerGroup(gs))
BY PerGroupIs DEF IsPlan

\* Every scenario of lesson 15 is a plan of its arms.
LEMMA PlansOf15 ==
    ASSUME lesson = 15, NEW eps \in Scenarios
    PROVE  IsPlan(eps)
<1> DEFINE A == {"t0", "t1", "t2", "t3", "kp 150", "kp 800", "position", "hybrid",
                 "dz -8", "dz 0", "dz 8"}
<1>1. ArmNames(lesson) = A
  BY DEF ArmNames
<1>2. ASSUME NEW names, names \in Seq(A) PROVE IsPlan(Plain(names))
  <2> DEFINE n == Len(names)
             s == Plain(names)
  <2> HIDE DEF A
  <2>1. n \in Nat /\ DOMAIN names = 1..n /\ \A i \in 1..n : names[i] \in A
    BY <1>2
  <2>2. s = [i \in 1..n |-> Group(names[i], "off", FALSE)]
    BY <2>1 DEF Plain
  <2> HIDE DEF s, n
  <2>3. DOMAIN s = 1..n /\ (\A i \in 1..n : s[i] \in SeqRange(s) /\ s[i].arm = names[i])
    BY <2>2 DEF SeqRange, Group
  <2>4. s \in Seq(SeqRange(s))
    <3>1. s = [i \in 1..n |-> s[i]]
      BY <2>2
    <3>2. QED
      BY <2>1, <2>3, <3>1
  <2>5. QED
    BY <1>1, <2>1, <2>3, <2>4 DEF IsPlan, IsSeq, SeqRange, s
<1>3. <<"t0", "t1", "t2", "t3">> \in Seq(A) /\ <<"t0">> \in Seq(A) /\ <<"kp 150", "kp 800">> \in Seq(A)
      /\ <<"position", "hybrid">> \in Seq(A) /\ <<"dz -8", "dz 0", "dz 8">> \in Seq(A)
  OBVIOUS
<1> HIDE DEF A
<1>4. CASE \E names \in {<<"t0", "t1", "t2", "t3">>, <<"t0">>, <<"kp 150", "kp 800">>,
                         <<"position", "hybrid">>} : eps = PerGroup(Plain(names))
  BY <1>2, <1>3, <1>4, PlanPerGroup
<1>5. CASE eps = [i \in 1..Episodes |-> Heights[((i - 1) % Len(Heights)) + 1]]
  <2>1. IsPlan(Heights) /\ Len(Heights) = 3 /\ DOMAIN Heights = 1..3
    <3>1. Heights = Plain(<<"dz -8", "dz 0", "dz 8">>)
      BY DEF Heights
    <3>2. Len(Heights) = 3 /\ DOMAIN Heights = 1..3
      BY DEF Heights, Plain
    <3>3. QED
      BY <1>2, <1>3, <3>1, <3>2
  <2>2. ASSUME NEW i \in 1..Episodes PROVE ((i - 1) % 3) + 1 \in 1..3
    <3>1. i - 1 \in Nat
      BY EvalSizes
    <3>2. QED
      BY <3>1
  <2>3. \A i \in 1..Episodes : eps[i] \in SeqRange(Heights)
    BY <1>5, <2>1, <2>2 DEF SeqRange
  <2>4. DOMAIN eps = 1..Episodes /\ eps = [i \in 1..Episodes |-> eps[i]]
    BY <1>5
  <2>5. SeqRange(eps) \subseteq SeqRange(Heights)
    BY <2>3, <2>4 DEF SeqRange
  <2>6. eps \in Seq(SeqRange(eps))
    <3>1. \A i \in 1..Episodes : eps[i] \in SeqRange(eps)
      BY <2>4 DEF SeqRange
    <3>2. QED
      BY <2>4, <3>1, EvalSizes
  <2>7. QED
    BY <2>1, <2>5, <2>6 DEF IsPlan, IsSeq
<1>6. QED
  BY <1>4, <1>5 DEF Scenarios

\* The plan of lesson 17 is of its arms.
LEMMA PlansOf17 ==
    ASSUME lesson = 17, NEW c, NEW b, NEW noise,
           IsSeq(c.arms), SeqRange(c.arms) \subseteq ArmNames(lesson),
           IsSeq(b.arms), SeqRange(b.arms) \subseteq ArmNames(lesson)
    PROVE  IsPlan(Groups17(c, b, noise))
<1>1. IsPlan(ArmGroups(c, noise, FALSE)) /\ IsPlan(ArmGroups(b, noise, TRUE))
  BY GroupsOfArms
<1>2. IsPlan(Twins(c, noise))
  <2> DEFINE z == Group("fvlmoe", "zero", FALSE)
             g == Group("fvlmoe", "gaussian", FALSE)
  <2>1. z.arm \in ArmNames(lesson) /\ g.arm \in ArmNames(lesson)
    BY DEF Group, ArmNames
  <2>2. Twins(c, noise) \in {<<z, g>>, <<>>}
    BY DEF Twins
  <2> HIDE DEF z, g
  <2>3. IsPlan(<<z, g>>) /\ IsPlan(<<>>)
    <3>1. SeqRange(<<z, g>>) = {z, g} /\ SeqRange(<<>>) = {}
      BY DEF SeqRange
    <3>2. <<z, g>> \in Seq({z, g}) /\ <<>> \in Seq({})
      OBVIOUS
    <3>3. IsSeq(<<z, g>>) /\ IsSeq(<<>>)
      BY <3>1, <3>2 DEF IsSeq
    <3>4. QED
      BY <2>1, <3>1, <3>3 DEF IsPlan
  <2>4. QED
    BY <2>2, <2>3
<1>3. QED
  BY <1>1, <1>2, PlansJoin DEF Groups17

\* An evaluation that starts has a plan of its lesson's arms.
LEMMA StartsWithPlan ==
    ASSUME EpisodesInv, CkptArms, TrainInv, EvalStarts
    PROVE  EpisodesInv' /\ PlanIs' /\ lesson \in Lesson
<1>1. UNCHANGED lesson
  BY DEF EvalStarts, trainVars
<1>2. ASSUME NEW eps, IsPlan(eps), StartWith(eps), lesson \in Lesson
      PROVE  EpisodesInv' /\ PlanIs' /\ lesson \in Lesson
  <2>1. IsSeq(eps) /\ plan' = eps
    BY <1>2 DEF IsPlan, StartWith
  <2>2. EpisodesInv'
    BY <1>1, <1>2, <2>1, StartKeeps
  <2>3. PlanIs'
    BY <1>1, <1>2, <2>1 DEF PlanIs, IsPlan, SeqRange
  <2>4. QED
    BY <1>2, <2>2, <2>3
<1>3. ASSUME NEW n \in DOMAIN ckpts
      PROVE  /\ IsSeq(ckpts[n].arms) /\ SeqRange(ckpts[n].arms) \subseteq ArmNames(lesson)
             /\ IsPlan(PerGroup(ArmGroups(ckpts[n], "off", FALSE)))
  <2>1. IsSeq(ckpts[n].arms) /\ SeqRange(ckpts[n].arms) \subseteq ArmNames(lesson)
    BY DEF CkptArms
  <2>2. QED
    BY <2>1, GroupsOfArms, PlanPerGroup
<1>4. CASE Eval15
  BY <1>2, <1>4, PlansOf15 DEF Eval15, Lesson
<1>5. CASE Eval16 \/ Eval18
  BY <1>2, <1>3, <1>5 DEF Eval16, Eval18, Lesson
<1>6. CASE Eval17
  <2>1. PICK n \in DOMAIN ckpts, noise \in {"off", "zero"} :
               \E b \in {[arms |-> <<>>], ckpts[Len(ckpts)]} :
                  StartWith(PerGroup(Groups17(ckpts[n], b, noise)))
    BY <1>6 DEF Eval17
  <2>2. PICK b \in {[arms |-> <<>>], ckpts[Len(ckpts)]} :
               StartWith(PerGroup(Groups17(ckpts[n], b, noise)))
    BY <2>1
  <2>3. Len(ckpts) \in DOMAIN ckpts
    <3>1. IsSeq(ckpts)
      BY DEF TrainInv, TrainType
    <3>2. QED
      BY <3>1 DEF IsSeq
  <2>4. IsSeq(b.arms) /\ SeqRange(b.arms) \subseteq ArmNames(lesson)
    <3>1. CASE b = [arms |-> <<>>]
      <4>1. b.arms = <<>> /\ SeqRange(<<>>) = {}
        BY <3>1 DEF SeqRange
      <4>2. QED
        BY <4>1 DEF IsSeq
    <3>2. CASE b = ckpts[Len(ckpts)]
      BY <1>3, <2>3, <3>2
    <3>3. QED
      BY <3>1, <3>2
  <2>5. IsPlan(PerGroup(Groups17(ckpts[n], b, noise)))
    BY <1>3, <1>6, <2>4, PlansOf17, PlanPerGroup DEF Eval17
  <2>6. QED
    BY <1>2, <1>6, <2>2, <2>5 DEF Eval17, Lesson
<1>7. QED
  BY <1>4, <1>5, <1>6 DEF EvalStarts


\* The plan stays that of its lesson.
LEMMA PlanKept ==
    ASSUME PlanIs, UNCHANGED <<lesson, plan>>
    PROVE  PlanIs'
BY DEF PlanIs, SeqRange

\* The names of one lesson's arms are not those of another.
LEMMA NamesApart ==
    /\ ArmNames(15) \cap ArmNames(16) = {} /\ ArmNames(15) \cap ArmNames(17) = {}
    /\ ArmNames(15) \cap ArmNames(18) = {} /\ ArmNames(16) \cap ArmNames(17) = {}
    /\ ArmNames(16) \cap ArmNames(18) = {} /\ ArmNames(17) \cap ArmNames(18) = {}
<1>1. ArmNames(15) = {"t0", "t1", "t2", "t3", "kp 150", "kp 800", "position", "hybrid",
                      "dz -8", "dz 0", "dz 8"}
  BY DEF ArmNames
<1>2. ArmNames(16) = {"A t0 default", "B t1 default", "C t1 no-language"}
  BY DEF ArmNames
<1>3. ArmNames(17) = {"none", "prefix_linear", "prefix_moe", "concat_after", "fvlmoe"}
  BY DEF ArmNames
<1>4. ArmNames(18) = {"A fvlmoe+position", "B forcevla2+hybrid", "C forcevla2+position"}
  BY DEF ArmNames
<1>5. ArmNames(15) \cap ArmNames(16) = {}
  BY <1>1, <1>2, Zenon
<1>6. ArmNames(15) \cap ArmNames(17) = {}
  BY <1>1, <1>3, Zenon
<1>7. ArmNames(15) \cap ArmNames(18) = {}
  BY <1>1, <1>4, Zenon
<1>8. ArmNames(16) \cap ArmNames(17) = {} /\ ArmNames(16) \cap ArmNames(18) = {}
  BY <1>2, <1>3, <1>4, Zenon
<1>9. ArmNames(17) \cap ArmNames(18) = {}
  BY <1>3, <1>4, Zenon
<1>10. QED
  BY <1>5, <1>6, <1>7, <1>8, <1>9

\* Claims of different lessons speak of different arms, and no two have one name.
LEMMA NamesDiffer ==
    ASSUME NEW l \in Lesson, NEW k \in Lesson, NEW a, a \in ArmNames(l), a \in ArmNames(k)
    PROVE  l = k
<1>1. l \in {15, 16, 17, 18} /\ k \in {15, 16, 17, 18}
  BY DEF Lesson
<1>2. QED
  BY <1>1, NamesApart

\* What a claim asks for: groups of its lesson's arms, at least one.
AsksFor(l, c) == \A of \in c.of : \E g \in of : g.arm \in ArmNames(l)

\* What a claim asks for has a group of each arm it names.
LEMMA OffAsks ==
    ASSUME NEW l, NEW a \in ArmNames(l), NEW arms, a \in arms
    PROVE  \E g \in Off(arms) : g.arm \in ArmNames(l)
<1>1. Group(a, "off", FALSE) \in Off(arms) /\ Group(a, "off", FALSE).arm = a
  BY DEF Off, Group
<1>2. QED
  BY <1>1

\* Every kind of claim asks for a group of its lesson.
LEMMA ClaimAsks ==
    ASSUME NEW l, NEW id, NEW arms
    PROVE  /\ \A a \in arms : a \in ArmNames(l) => AsksFor(l, Claim(id, arms))
           /\ arms \subseteq ArmNames(l) => AsksFor(l, AnyOf(id, arms))
           /\ \A noise : "fvlmoe" \in ArmNames(l) => AsksFor(l, Drop(id, noise))
           /\ Claim(id, arms).id = id /\ AnyOf(id, arms).id = id
           /\ \A noise : Drop(id, noise).id = id
<1>1. ASSUME NEW a \in arms, a \in ArmNames(l) PROVE AsksFor(l, Claim(id, arms))
  <2>1. Claim(id, arms).of = {Off(arms)}
    BY DEF Claim
  <2>2. QED
    BY <1>1, <2>1, OffAsks DEF AsksFor
<1>2. ASSUME arms \subseteq ArmNames(l) PROVE AsksFor(l, AnyOf(id, arms))
  <2>1. AnyOf(id, arms).of = {Off({a}) : a \in arms}
    BY DEF AnyOf
  <2>2. \A a \in arms : \E g \in Off({a}) : g.arm \in ArmNames(l)
    BY <1>2, OffAsks
  <2>3. QED
    BY <2>1, <2>2 DEF AsksFor
<1>3. ASSUME NEW noise, "fvlmoe" \in ArmNames(l) PROVE AsksFor(l, Drop(id, noise))
  <2>1. \E g \in Off({"fvlmoe"}) : g.arm \in ArmNames(l)
    BY <1>3, OffAsks
  <2>2. Drop(id, noise).of = {Off({"fvlmoe"}) \cup {Group("fvlmoe", noise, FALSE)}}
    BY DEF Drop
  <2>3. QED
    BY <2>1, <2>2 DEF AsksFor
<1>4. QED
  BY <1>1, <1>2, <1>3 DEF Claim, AnyOf, Drop

\* The names of a lesson's claims.
Ids(l) ==
    CASE l = 15 -> {"expert_solves_every_task", "hybrid_holds_5n", "position_cannot_hold_force"}
      [] l = 16 -> {"nanovla_solves_visible", "hidden_threshold_blinds_vla",
                    "language_is_load_bearing"}
      [] l = 17 -> {"fvlmoe_gate", "force_in_beats_none", "twin_gap", "noise_drop",
                    "moe_before_vlm_collapses"}
      [] l = 18 -> {"hybrid_tracks_force", "position_head_cannot", "force_output_is_the_lever",
                    "beats_forcevla", "gate_tilts_to_force"}

\* Claims of different lessons have different names.
LEMMA IdsDiffer ==
    ASSUME NEW l \in Lesson, NEW k \in Lesson, NEW id, id \in Ids(l), id \in Ids(k)
    PROVE  l = k
<1>1. SUFFICES ASSUME l # k PROVE FALSE
  OBVIOUS
<1>2. CASE id \in Ids(15)
  BY <1>1, <1>2 DEF Lesson, Ids
<1>3. CASE id \in Ids(16)
  BY <1>1, <1>3 DEF Lesson, Ids
<1>4. CASE id \in Ids(17)
  BY <1>1, <1>4 DEF Lesson, Ids
<1>5. CASE id \in Ids(18)
  BY <1>1, <1>5 DEF Lesson, Ids
<1>6. QED
  BY <1>2, <1>3, <1>4, <1>5 DEF Lesson

\* What a claim of a lesson asks for is in its lesson.
LEMMA ClaimsAsk ==
    ASSUME NEW l \in Lesson
    PROVE  /\ \A c \in ClaimsOf(l) : AsksFor(l, c) /\ c.id \in Ids(l)
           /\ \A c, d \in ClaimsOf(l) : c.id = d.id => c = d
<1>1. CASE l = 15
  <2> DEFINE x == AnyOf("expert_solves_every_task", {"t0", "t1", "t2", "t3"})
             y == AnyOf("hybrid_holds_5n", {"dz -8", "dz 0", "dz 8"})
             z == Claim("position_cannot_hold_force", {"position", "hybrid"})
  <2>1. ClaimsOf(l) = {x, y, z}
    BY <1>1 DEF ClaimsOf, Claims15
  <2>2. {"t0", "t1", "t2", "t3"} \subseteq ArmNames(15) /\ {"dz -8", "dz 0", "dz 8"} \subseteq ArmNames(15)
        /\ "hybrid" \in ArmNames(15)
    BY DEF ArmNames
  <2>3. AsksFor(15, x) /\ AsksFor(15, y) /\ AsksFor(15, z)
    BY <2>2, ClaimAsks
  <2>4. x.id = "expert_solves_every_task" /\ y.id = "hybrid_holds_5n"
        /\ z.id = "position_cannot_hold_force"
    BY ClaimAsks
  <2> HIDE DEF x, y, z
  <2>5. QED
    BY <1>1, <2>1, <2>3, <2>4 DEF Ids
<1>2. CASE l = 16
  <2> DEFINE x == Claim("nanovla_solves_visible", {"A t0 default"})
             y == Claim("hidden_threshold_blinds_vla", {"B t1 default"})
             z == Claim("language_is_load_bearing", {"B t1 default", "C t1 no-language"})
  <2>1. ClaimsOf(l) = {x, y, z}
    BY <1>2 DEF ClaimsOf, Claims16
  <2>2. "A t0 default" \in ArmNames(16) /\ "B t1 default" \in ArmNames(16)
    BY DEF ArmNames
  <2>3. AsksFor(16, x) /\ AsksFor(16, y) /\ AsksFor(16, z)
    BY <2>2, ClaimAsks
  <2>4. x.id = "nanovla_solves_visible" /\ y.id = "hidden_threshold_blinds_vla"
        /\ z.id = "language_is_load_bearing"
    BY ClaimAsks
  <2> HIDE DEF x, y, z
  <2>5. QED
    BY <1>2, <2>1, <2>3, <2>4 DEF Ids
<1>3. CASE l = 17
  <2> DEFINE u == Claim("fvlmoe_gate", {"fvlmoe"})
             v == Claim("force_in_beats_none", {"fvlmoe", "none"})
             x == Drop("twin_gap", "zero")
             y == Drop("noise_drop", "gaussian")
             z == Claim("moe_before_vlm_collapses", {"prefix_moe", "concat_after"})
  <2>1. ClaimsOf(l) = {u, v, x, y, z}
    BY <1>3 DEF ClaimsOf, Claims17
  <2>2. "fvlmoe" \in ArmNames(17) /\ "prefix_moe" \in ArmNames(17)
    BY DEF ArmNames
  <2>3. AsksFor(17, u) /\ AsksFor(17, v) /\ AsksFor(17, x) /\ AsksFor(17, y) /\ AsksFor(17, z)
    BY <2>2, ClaimAsks
  <2>4. u.id = "fvlmoe_gate" /\ v.id = "force_in_beats_none" /\ x.id = "twin_gap"
        /\ y.id = "noise_drop" /\ z.id = "moe_before_vlm_collapses"
    BY ClaimAsks
  <2> HIDE DEF u, v, x, y, z
  <2>5. QED
    BY <1>3, <2>1, <2>3, <2>4 DEF Ids
<1>4. CASE l = 18
  <2> DEFINE u == Claim("hybrid_tracks_force", {"B forcevla2+hybrid"})
             v == Claim("position_head_cannot", {"C forcevla2+position"})
             x == Claim("force_output_is_the_lever", {"B forcevla2+hybrid", "C forcevla2+position"})
             y == Claim("beats_forcevla", {"A fvlmoe+position", "B forcevla2+hybrid"})
             z == Claim("gate_tilts_to_force", {"B forcevla2+hybrid"})
  <2>1. ClaimsOf(l) = {u, v, x, y, z}
    BY <1>4 DEF ClaimsOf, Claims18
  <2>2. "B forcevla2+hybrid" \in ArmNames(18) /\ "C forcevla2+position" \in ArmNames(18)
    BY DEF ArmNames
  <2>3. AsksFor(18, u) /\ AsksFor(18, v) /\ AsksFor(18, x) /\ AsksFor(18, y) /\ AsksFor(18, z)
    BY <2>2, ClaimAsks
  <2>4. u.id = "hybrid_tracks_force" /\ v.id = "position_head_cannot"
        /\ x.id = "force_output_is_the_lever" /\ y.id = "beats_forcevla"
        /\ z.id = "gate_tilts_to_force"
    BY ClaimAsks
  <2> HIDE DEF u, v, x, y, z
  <2>5. QED
    BY <1>4, <2>1, <2>3, <2>4 DEF Ids
<1>5. QED
  BY <1>1, <1>2, <1>3, <1>4 DEF Lesson


\* An evaluation that ends leaves a result of its lesson.
LEMMA ResultKeeps ==
    ASSUME EpisodesInv, PlanIs, ResultIs, Evaluate
    PROVE  ResultIs'
<1>1. UNCHANGED lesson
  BY DEF Evaluate, trainVars
<1>2. CASE ~EvalDone
  <2>1. epc # "done" /\ epc' # "done" /\ result' = result
    BY <1>2 DEF Evaluate, Split, BeginPolled, Decide17, Decide18, Decides, EpisodeEnds, Episode15,
       Episode16, Episode17, Episode18, Recorded, FramesEnd, VideoFails, Rerun, RerunEnds,
       PlainStops, EvalRaises, EvalKilled, Begin, Polled
  <2>2. QED
    BY <2>1 DEF ResultIs
<1>3. CASE EvalDone
  <2>1. epc = "plain" /\ epc' = "done" /\ todo = <<>> /\ plan' = plan
    BY <1>3 DEF EvalDone
  <2>2. SeqRange(rows) = DOMAIN plan
    <3>1. SeqRange(rows) \cup SeqRange(todo) = Jobs
      BY <2>1 DEF EpisodesInv, RunsOnce
    <3>2. SeqRange(todo) = {}
      BY <2>1 DEF SeqRange
    <3>3. QED
      BY <3>1, <3>2 DEF Jobs
  <2>3. Measured = SeqRange(plan)
    BY <2>2 DEF Measured, SeqRange
  <2>4. /\ lesson \in Lesson
        /\ \E open \in SUBSET Unsure :
              result' = Answered(ClaimsOf(lesson), SeqRange(plan)) \ open
    <3> DEFINE Told(C) == \E open \in SUBSET Unsure : result' = Answered(C, Measured) \ open
    <3>1. \A C : result' = Answered(C, Measured) => Told(C)
      <4>1. {} \in SUBSET Unsure /\ \A C : Answered(C, Measured) \ {} = Answered(C, Measured)
        OBVIOUS
      <4>2. QED
        BY <4>1, Zenon
    <3>2. \/ lesson = 15 /\ Told(Claims15)
          \/ lesson = 16 /\ Told(Claims16)
          \/ lesson = 17 /\ Told(Claims17)
          \/ lesson = 18 /\ Told(Claims18)
      BY <1>3, <3>1, Zenon DEF EvalDone, Result15, Result16, Result17, Result18
    <3> HIDE DEF Told
    <3>3. lesson \in Lesson /\ Told(ClaimsOf(lesson))
      BY <3>2 DEF ClaimsOf, Lesson
    <3>4. QED
      BY <2>3, <3>3 DEF Told
  <2>5. SeqRange(plan)' = SeqRange(plan)
    BY <2>1 DEF SeqRange
  <2>6. QED
    BY <1>1, <2>1, <2>4, <2>5 DEF ResultIs, Answered
<1>4. QED
  BY <1>2, <1>3

\* A result stays as long as nothing is evaluated.
LEMMA ResultStays ==
    ASSUME ResultIs, UNCHANGED <<lesson, epc, plan, result>>
    PROVE  ResultIs'
<1>1. SeqRange(plan)' = SeqRange(plan)
  BY DEF SeqRange
<1>2. QED
  BY <1>1 DEF ResultIs, Answered

\* It gives ClaimsAreMeasured.
LEMMA ClaimsHold == EpisodesInv /\ PlanIs /\ ResultIs => ClaimsAreMeasured
<1> SUFFICES ASSUME EpisodesInv, PlanIs, ResultIs PROVE ClaimsAreMeasured
  OBVIOUS
<1>1. result # {"none"} => epc = "done"
  BY DEF ResultIs
<1>2. ASSUME epc = "done", NEW c \in Claims15 \cup Claims16 \cup Claims17 \cup Claims18
      PROVE  LET complete == \E of \in c.of : \A g \in of :
                     /\ g \in SeqRange(plan)
                     /\ \A i \in DOMAIN plan : plan[i] = g => i \in SeqRange(rows)
             IN  /\ c.id \in result => complete
                 /\ complete => c.id \in result \cup Unsure
  <2> DEFINE M == SeqRange(plan)
             asked == \E of \in c.of : of \subseteq M
             complete == \E of \in c.of : \A g \in of :
                            /\ g \in SeqRange(plan)
                            /\ \A i \in DOMAIN plan : plan[i] = g => i \in SeqRange(rows)
             A == Answered(ClaimsOf(lesson), M)
  <2>1. SeqRange(rows) = DOMAIN plan
    BY <1>2, EpisodesAreRight DEF EachEpisodeOnce
  <2>2. complete <=> asked
    BY <2>1
  <2>3. lesson \in Lesson /\ \E open \in SUBSET Unsure : result = A \ open
    BY <1>2 DEF ResultIs
  <2>4. \A x : x \in A <=> \E d \in ClaimsOf(lesson) : x = d.id /\ \E of \in d.of : of \subseteq M
    BY Zenon DEF Answered
  <2>5. PICK l \in Lesson : c \in ClaimsOf(l)
    BY DEF ClaimsOf, Lesson
  <2>6. AsksFor(l, c) /\ c.id \in Ids(l)
    BY <2>5, ClaimsAsk
  <2>7. ASSUME asked PROVE l = lesson
    <3>1. PICK of \in c.of : of \subseteq M
      BY <2>7
    <3>2. PICK g \in of : g.arm \in ArmNames(l)
      BY <2>6 DEF AsksFor
    <3>3. g.arm \in ArmNames(lesson)
      BY <3>1, <3>2 DEF PlanIs
    <3>4. QED
      BY <2>3, <2>5, <3>2, <3>3, NamesDiffer
  <2> HIDE DEF A, M
  <2>8. ASSUME c.id \in A PROVE asked
    <3>1. PICK d \in ClaimsOf(lesson) : c.id = d.id /\ \E of \in d.of : of \subseteq M
      BY <2>4, <2>8
    <3>2. d.id \in Ids(lesson)
      BY <2>3, ClaimsAsk
    <3>3. l = lesson
      BY <2>3, <2>5, <2>6, <3>1, <3>2, IdsDiffer
    <3>4. c = d
      BY <2>3, <2>5, <3>1, <3>3, ClaimsAsk
    <3>5. QED
      BY <3>1, <3>4
  <2>9. ASSUME asked PROVE c.id \in A
    BY <2>4, <2>5, <2>7, <2>9
  <2> HIDE DEF asked, complete
  <2>10. /\ c.id \in result => complete
         /\ complete => c.id \in result \cup Unsure
    BY <2>2, <2>3, <2>8, <2>9
  <2>11. QED
    BY <2>10 DEF complete
<1>3. QED
  BY <1>1, <1>2 DEF ClaimsAreMeasured


-----------------------------------------------------------------------------
(***************************************************************************)
(* The three jobs together.                                                *)
(***************************************************************************)
SuitesInv == DemoInv /\ TrainInv /\ CkptArms /\ EpisodesInv /\ LateIs /\ PlanIs /\ ResultIs

\* It holds at first.
LEMMA SuitesInit == Init => SuitesInv
<1> SUFFICES ASSUME Init PROVE SuitesInv
  OBVIOUS
<1>1. DemoInv /\ EpisodesInv /\ LateIs
  BY RecordHoldsAtFirst, EpisodesHoldAtFirst, LateHoldsAtFirst DEF Init
<1>2. lesson \in {16, 17, 18} => preset \in {"suite", "single"}
  BY DEF Init
<1>3. TrainInv
  BY <1>2, TrainHoldsAtFirst DEF Init
<1>4. ckpts = <<>> /\ plan = <<>> /\ epc = "idle" /\ result = {"none"}
  BY DEF Init, TrainInit, EvalInit
<1>5. CkptArms /\ PlanIs /\ ResultIs
  BY <1>4 DEF CkptArms, PlanIs, ResultIs, SeqRange
<1>6. QED
  BY <1>1, <1>3, <1>5 DEF SuitesInv

\* The recording's invariant is about the recording only.
LEMMA DemoStays == DemoInv /\ UNCHANGED <<recVars, diskVars>> => DemoInv'
<1> SUFFICES ASSUME DemoInv, UNCHANGED <<recVars, diskVars>> PROVE DemoInv'
  OBVIOUS
<1>1. UNCHANGED <<rpc, ti, pos, tried, chunk, episodes, shard, index>>
  BY DEF recVars, diskVars
<1>2. Task' = Task /\ Pool' = Pool /\ PoolStart' = PoolStart /\ Want' = Want
  BY <1>1, PoolStays DEF Want
<1>3. RecType' /\ Gathered' /\ TasksListed'
  BY <1>1, <1>2 DEF DemoInv, RecType, Gathered, TasksListed, Here, OnDisk, WholeOf
<1>4. TornIsCurrent' /\ Counts'
  BY <1>1, <1>2 DEF DemoInv, TornIsCurrent, Writing, Counts, Here
<1>5. \A t \in Names : Listed(t)'
  BY <1>1 DEF DemoInv, Listed, Begun, OnDisk
<1>6. QED
  BY <1>3, <1>4, <1>5 DEF DemoInv

\* The checkpoints stay those of the lesson.
LEMMA CkptArmsStay == CkptArms /\ UNCHANGED <<lesson, ckpts>> => CkptArms'
BY DEF CkptArms, IsSeq, SeqRange

\* Every step keeps it.
LEMMA SuitesStep == SuitesInv /\ [Next]_vars => SuitesInv'
<1> SUFFICES ASSUME SuitesInv, [Next]_vars PROVE SuitesInv'
  OBVIOUS
<1>1. DemoInv /\ TrainInv /\ CkptArms /\ EpisodesInv /\ LateIs /\ PlanIs /\ ResultIs
  BY DEF SuitesInv
<1>2. ASSUME UNCHANGED <<trainVars, evalVars>>, DemoInv', rpc # "idle" => rpc' # "idle",
             stopAsked \subseteq stopAsked'
      PROVE  SuitesInv'
  <2>1. UNCHANGED <<lesson, ckpts, plan, epc, result>>
    BY <1>2 DEF trainVars, evalVars
  <2>2. QED
    BY <1>1, <1>2, <2>1, TrainInvStays, CkptArmsStay, EpisodesStay, LateKept, PlanKept, ResultStays
       DEF SuitesInv
<1>3. CASE Record /\ UNCHANGED <<trainVars, evalVars>>
  <2>1. DemoInv'
    BY <1>1, <1>3, RecordKeeps
  <2>2. rpc # "idle" => rpc' # "idle"
    BY <1>1, <1>3, RecordLeavesTraining
  <2>3. stopAsked' = stopAsked
    BY <1>3 DEF Record
  <2>4. QED
    BY <1>2, <1>3, <2>1, <2>2, <2>3
<1>4. CASE Training /\ UNCHANGED evalVars
  <2>1. UNCHANGED <<recVars, diskVars, stopAsked>>
    BY <1>4 DEF Training, demoVars
  <2>2. UNCHANGED <<lesson, plan, epc, result>>
    BY <1>4 DEF evalVars, Training, TrainStarts, LoadIndex, LoadShard, FitStep, FitEnds,
                ArmSaved, NextArm, TrainKilled
  <2>3. QED
    BY <1>1, <1>4, <2>1, <2>2, DemoStays, TrainingKeeps, CkptArmsKeep, EpisodesStay, LateKept, PlanKept,
       ResultStays DEF SuitesInv
<1>5. CASE EvalStarts
  <2>1. UNCHANGED <<demoVars, trainVars>>
    BY <1>5 DEF EvalStarts
  <2>2. UNCHANGED <<recVars, diskVars, rpc, lesson, ckpts>>
    BY <2>1 DEF demoVars, trainVars, recVars
  <2>3. epc # "done" /\ epc' # "done" /\ result' = result
    BY <1>5 DEF EvalStarts, Eval15, Eval16, Eval17, Eval18, StartWith
  <2>4. ResultIs'
    BY <1>1, <2>3 DEF ResultIs
  <2>5. QED
    BY <1>1, <1>5, <2>1, <2>2, <2>4, DemoStays, TrainInvStays, CkptArmsStay, StartsWithPlan,
       LateAtStart DEF SuitesInv
<1>6. CASE Evaluate
  <2>1. UNCHANGED <<demoVars, trainVars>>
    BY <1>6 DEF Evaluate
  <2>2. UNCHANGED <<recVars, diskVars, rpc, lesson, ckpts>>
    BY <2>1 DEF demoVars, trainVars, recVars
  <2>3. plan' = plan
    BY <1>6 DEF Evaluate, Split, BeginPolled, Decide17, Decide18, Decides, EpisodeEnds, Episode15,
       Episode16, Episode17, Episode18, Recorded, FramesEnd, VideoFails, Rerun, RerunEnds,
       PlainStops, EvalRaises, EvalKilled, EvalDone, Begin
  <2>4. QED
    BY <1>1, <1>6, <2>1, <2>2, <2>3, DemoStays, TrainInvStays, CkptArmsStay, EvaluateKeeps,
       LateKeeps, PlanKept, ResultKeeps DEF SuitesInv
<1>7. CASE AskStop
  <2>1. UNCHANGED <<recVars, diskVars, trainVars, evalVars>>
    BY <1>7 DEF AskStop
  <2>2. DemoInv' /\ rpc' = rpc
    BY <1>1, <2>1, DemoStays DEF recVars
  <2>3. stopAsked \subseteq stopAsked'
    BY <1>7 DEF AskStop
  <2>4. QED
    BY <1>2, <2>1, <2>2, <2>3
<1>8. CASE UNCHANGED vars
  <2>1. UNCHANGED <<recVars, diskVars, trainVars, evalVars, stopAsked>>
    BY <1>8 DEF vars, demoVars
  <2>2. DemoInv' /\ rpc' = rpc
    BY <1>1, <2>1, DemoStays DEF recVars
  <2>3. QED
    BY <1>2, <2>1, <2>2
<1>9. QED
  BY <1>3, <1>4, <1>5, <1>6, <1>7, <1>8 DEF Next, Works

\* It always holds.
LEMMA SuitesHold == Spec => []SuitesInv
BY SuitesInit, SuitesStep, PTL DEF Spec

(***************************************************************************)
(* Whatever earlier jobs left and wherever this one fails, stops or is     *)
(* killed, a demo set is what its index says: listed demos are on disk but *)
(* for the one being written, an index with provenance lists as many demos *)
(* as were asked for, in the order of their seeds and from that task's     *)
(* window, and a recording that is done left one for each of its tasks.    *)
(***************************************************************************)
THEOREM MovementDemos == Spec => []SetIsWhole
BY SuitesHold, DemosAreWhole, PTL DEF SuitesInv

(***************************************************************************)
(* A suite's checkpoints list the arms begun so far, all trained in full   *)
(* but the last one of a job that stops there, and a job that is done      *)
(* trained every arm, for any number of steps and demos and any interval   *)
(* of checkpoints.                                                         *)
(***************************************************************************)
THEOREM MovementArms == Spec => []OnlyTheLastArmIsPartial
BY SuitesHold, ArmsAreTrained, PTL DEF SuitesInv

(***************************************************************************)
(* No episode of an evaluation has two rows, the decisions counted are     *)
(* those of the rows, and a finished evaluation has a row of every         *)
(* episode, whether its video fails or not, for any number of episodes and *)
(* any length of the video.                                                *)
(***************************************************************************)
THEOREM MovementEpisodes == Spec => []EachEpisodeOnce
BY SuitesHold, EpisodesAreRight, PTL DEF SuitesInv

(***************************************************************************)
(* After the user's stop an evaluation begins no more episodes than come   *)
(* less than POLL_S after its last look, and MaxVideo more if its video    *)
(* fails, for any number of episodes, any length of the video and however  *)
(* many episodes come between two looks.                                   *)
(***************************************************************************)
THEOREM MovementStops == Spec => []StopCostsFewEpisodes
BY SuitesHold, StopsAreRead, PTL DEF SuitesInv

(***************************************************************************)
(* A claim is answered only by a finished evaluation that ran every        *)
(* episode of the arms it speaks of, of the lesson and the checkpoint      *)
(* under evaluation, and such a claim is answered, unless it is of Unsure. *)
(***************************************************************************)
THEOREM MovementClaims == Spec => []ClaimsAreMeasured
BY SuitesHold, ClaimsHold, PTL DEF SuitesInv
=============================================================================
