-------------------------- MODULE DelegationProofs --------------------------
(***************************************************************************)
(* What the delegation of children guarantees for every number of calls    *)
(* and setbacks: one child is never driven by two tasks, and every return  *)
(* record closes a spawn that was open, except for a child that a pass     *)
(* judged while a task was building it; an ending is reported at most once *)
(* and is never dropped.                                                   *)
(*                                                                         *)
(* None is inductive.  A return by the child's task closes its spawn       *)
(* because the task is the only one of its child (OneDriver) and no pass   *)
(* that saw the child idle still owes it a return (ScanSound).  A second   *)
(* task is only started for a child the model has heard of, so a child     *)
(* that is still being built must have left nothing in the log that names  *)
(* it: no notice, no return, no answer of its call (EntrySound).           *)
(*                                                                         *)
(* A report is single because whoever may still write one, the task, the   *)
(* turn, the queue or a pass, finds that nobody else has or will (RInv).   *)
(* An ending is kept because every place that gives it up hands it to the  *)
(* next one: the task to its result or the queue, the queue to the turn,   *)
(* the turn to the log or back, a restart to the next pass (KInv).         *)
(***************************************************************************)
EXTENDS Delegation, FiniteSetTheorems, WellFoundedInduction, TLAPS

Hows == {"none", "live", "orphan", "answer", "ack", "refused", "interrupted"}
Entries == [t : Kinds, c : Calls \cup {0}, k : Kids \cup {0}, how : Hows]
Tasks == [pc : {"none", "start", "built", "end"} \cup Running,
          kid : Kids \cup {0}, back : BOOLEAN, resume : BOOLEAN,
          ending : {"undecided", "caller", "notify"}, refused : BOOLEAN]
Turns == [pc : {"idle", "scan", "reconcile", "boundary", "notices", "model",
                "spawn", "wait", "result"},
          call : Calls \cup {0}, how : Hows, todo : Seq(Calls), last : BOOLEAN]
Scans == [at : Nat, gen : Nat, left : SUBSET Kids, cur : Kids \cup {0},
          step : {"off", "read", "pick", "check", "return", "record"},
          ok : BOOLEAN]

Types ==
    /\ log \in Seq(Entries)
    /\ task \in [Calls -> Tasks]
    /\ turn \in Turns
    /\ scan \in Scans
    /\ gen \in [requested : Nat, scanned : Nat] /\ gen.scanned <= gen.requested
    /\ queue \in Seq(Calls)
    /\ gap \in [spilt : SUBSET Calls, hasty : SUBSET Kids,
                unreturned : SUBSET Calls]
    /\ setbacks \in Nat

\* The delegation calls of a log, and how many there are.
CallsAt(p) == {n \in 1..Len(p) : p[n].t = "call"}
Delegated == Cardinality(CallsAt(log))

\* A child its own call is still building, that no pass judged meanwhile.
Newborn(k) ==
    /\ k \notin gap.hasty
    /\ task[k].kid = k
    /\ task[k].pc \in {"start", "built"}

\* The task has recorded its spawn and its return is still to come.
Opened == {"built", "run", "tail", "hold"}

\* What one call's task has to do with its child: the child has a task of its
\* own number, a newborn has no other, and the spawn is open until the return.
TaskSound(i) ==
    /\ task[i].pc = "none" <=> task[i].kid = 0
    /\ task[i].pc # "none" =>
         /\ task[task[i].kid].pc # "none"
         /\ task[task[i].kid].kid = task[i].kid
         /\ Newborn(task[i].kid) => task[i].kid = i
    /\ Busy(i) => (task[i].resume <=> task[i].kid # i)
    /\ i > Delegated => task[i].pc = "none"
    /\ (task[i].pc \in Opened /\ task[i].kid \notin gap.hasty)
         => Depth(log, task[i].kid) > 0

\* What one record of the log tells about the tasks.
EntrySound(e) ==
    /\ e.c <= Delegated
    /\ e.k # 0 => task[e.k].pc # "none" /\ task[e.k].kid = e.k
    /\ e.t \in {"spawn", "notice"} =>
         /\ e.k # 0 /\ e.c # 0
         /\ task[e.c].kid = e.k
         /\ task[e.c].pc \notin {"none", "start"}
    /\ e.t \in {"notice", "return"} => e.k # 0 /\ ~Newborn(e.k)
    /\ (e.t = "result" /\ e.c # 0 /\ e.how # "interrupted") => ~Newborn(e.c)

\* The turn: a call about to spawn is new, and no answer is on its way for a
\* child that is still being built.  A queued notice is of a child that ended.
TurnSound ==
    /\ turn.call <= Delegated
    /\ turn.pc = "spawn" =>
         /\ turn.call # 0
         /\ task[turn.call].pc = "none"
         /\ Results(log, turn.call) = {}
    /\ (turn.pc = "result" /\ turn.call # 0 /\ turn.how # "interrupted")
         => task[turn.call].pc \notin {"start", "built"}
    /\ turn.pc = "notices" => turn.todo # <<>>
    /\ \A n \in 1..Len(queue) : task[queue[n]].pc \in {"tail", "hold", "end"}
    /\ \A n \in 1..Len(turn.todo) :
          task[turn.todo[n]].pc \in {"tail", "hold", "end"}

\* The pass: it runs inside the turn, over a prefix of the log, and acts on a
\* child only when no task drives it, or after it counted the child as hasty.
ScanSound ==
    /\ scan.at <= Len(log)
    /\ scan.step # "off" =>
         /\ turn.pc = "scan"
         /\ \A k \in Kids : (Newborn(k) /\ Spawns(Prefix, k) # {})
                              => Depth(Prefix, k) > 0
    /\ \A k \in scan.left : Spawns(Prefix, k) # {}
    /\ scan.step \in {"check", "return", "record"} =>
         scan.cur # 0 /\ Spawns(Prefix, scan.cur) # {}
    /\ scan.step = "return" =>
         \/ scan.cur \in gap.hasty
         \/ \A i \in Calls : task[i].kid = scan.cur => ~Busy(i)
    /\ scan.step = "record" => ~Newborn(scan.cur)

\* The inductive invariant.
IInv ==
    /\ Types
    /\ \A i \in Calls : TaskSound(i)
    /\ \A n \in 1..Len(log) : EntrySound(log[n])
    /\ TurnSound
    /\ ScanSound
    /\ OneDriver
    /\ OneReturnOnceBuilt

-----------------------------------------------------------------------------
(* Reading a log. *)

\* A set of numbers that has an element has a least one.
LEMMA LeastOf ==
    ASSUME NEW S \in SUBSET Nat, S # {}
    PROVE  \E x \in S : \A y \in S : x <= y
<1> DEFINE Less == {p \in Nat \X Nat : p[1] < p[2]}
<1>1. IsWellFoundedOn(Less, Nat)
  BY NatLessThanWellFounded DEF OpToRel
<1> HIDE DEF Less
<1>2. PICK x \in S : \A y \in S : <<y, x>> \notin Less
  BY <1>1, WFMin
<1>3. ASSUME NEW y \in S PROVE x <= y
  <2>1. y < x => <<y, x>> \in Less
    BY DEF Less
  <2> QED BY <1>2, <2>1
<1> QED BY <1>3

\* Oldest picks an element of a set of numbers.
LEMMA OldestIn == ASSUME NEW S \in SUBSET Nat, S # {} PROVE Oldest(S) \in S
BY LeastOf DEF Oldest

\* Newest picks an element of a bounded set of numbers.
LEMMA NewestIn ==
    ASSUME NEW L \in Nat, NEW S \in SUBSET (1..L), S # {}
    PROVE  Newest(S) \in S
<1> DEFINE T == {L - n : n \in S}
<1>1. T \in SUBSET Nat /\ T # {}
  <2>1. ASSUME NEW n \in S PROVE L - n \in Nat
    OBVIOUS
  <2> QED BY <2>1
<1>2. PICK x \in T : \A y \in T : x <= y
  BY <1>1, LeastOf
<1>3. PICK n \in S : x = L - n
  BY <1>2
<1>4. ASSUME NEW m \in S PROVE m <= n
  <2>1. L - m \in T
    OBVIOUS
  <2>2. L - n <= L - m
    BY <1>2, <1>3, <2>1
  <2>3. L \in Nat /\ m \in Nat /\ n \in Nat
    OBVIOUS
  <2> QED BY <2>2, <2>3
<1> HIDE DEF T
<1> QED BY <1>3, <1>4 DEF Newest

\* A running count: up at the positions in S, down at those in R, never below
\* zero.
Counts(S, R, L, f) ==
    f = [n \in 0..L |->
          IF n = 0 THEN 0
          ELSE IF n \in S THEN f[n - 1] + 1
          ELSE IF n \in R /\ f[n - 1] > 0 THEN f[n - 1] - 1
          ELSE f[n - 1]]

\* Depth is the last value of the count over a log.
LEMMA DepthCounts ==
    ASSUME NEW p, NEW k
    PROVE  Depth(p, k)
             = (CHOOSE f : Counts(Spawns(p, k), Returns(p, k), Len(p), f))[Len(p)]
BY DEF Depth, Counts

\* Where a count starts and how it goes on.
LEMMA CountsAt ==
    ASSUME NEW S, NEW R, NEW L \in Nat, NEW f, Counts(S, R, L, f)
    PROVE  /\ f[0] = 0
           /\ \A n \in 1..L :
                 f[n] = IF n \in S THEN f[n - 1] + 1
                        ELSE IF n \in R /\ f[n - 1] > 0 THEN f[n - 1] - 1
                        ELSE f[n - 1]
<1> DEFINE Rhs(n) == IF n = 0 THEN 0
                     ELSE IF n \in S THEN f[n - 1] + 1
                     ELSE IF n \in R /\ f[n - 1] > 0 THEN f[n - 1] - 1
                     ELSE f[n - 1]
<1>1. f = [n \in 0..L |-> Rhs(n)]
  BY DEF Counts
<1>2. ASSUME NEW n \in 0..L PROVE f[n] = Rhs(n)
  <2> HIDE DEF Rhs
  <2> QED BY <1>1
<1> QED BY <1>2

\* There is such a count, and its values are numbers.
LEMMA CountsExist ==
    ASSUME NEW S, NEW R, NEW L \in Nat
    PROVE  \E f \in [0..L -> Nat] : Counts(S, R, L, f)
<1> DEFINE Bad == {n \in Nat : ~ \E f \in [0..n -> Nat] : Counts(S, R, n, f)}
<1> SUFFICES ASSUME Bad # {} PROVE FALSE
  OBVIOUS
<1>1. PICK m \in Bad : \A y \in Bad : m <= y
  BY LeastOf
<1>2. CASE m = 0
  <2> DEFINE g == [n \in 0..0 |-> 0]
  <2>1. g \in [0..m -> Nat]
    BY <1>2
  <2>2. Counts(S, R, m, g)
    BY <1>2 DEF Counts
  <2> QED BY <1>1, <2>1, <2>2
<1>3. CASE m # 0
  <2>1. m \in Nat /\ m - 1 \in Nat /\ m - 1 \notin Bad
    BY <1>1, <1>3
  <2>2. PICK f \in [0..(m - 1) -> Nat] : Counts(S, R, m - 1, f)
    BY <2>1
  <2> DEFINE v == IF m \in S THEN f[m - 1] + 1
                  ELSE IF m \in R /\ f[m - 1] > 0 THEN f[m - 1] - 1
                  ELSE f[m - 1]
             g == [n \in 0..m |-> IF n = m THEN v ELSE f[n]]
  <2>3. v \in Nat
    BY <2>1, <2>2
  <2>4. g \in [0..m -> Nat]
    BY <2>1, <2>2, <2>3
  <2>5. g[m] = v /\ \A n \in 0..(m - 1) : g[n] = f[n]
    BY <2>1
  <2>6. ASSUME NEW n \in 0..m
        PROVE  g[n] = IF n = 0 THEN 0
                      ELSE IF n \in S THEN g[n - 1] + 1
                      ELSE IF n \in R /\ g[n - 1] > 0 THEN g[n - 1] - 1
                      ELSE g[n - 1]
    <3> HIDE DEF g
    <3>1. CASE n = 0
      BY <1>3, <2>1, <2>2, <2>5, <3>1, CountsAt
    <3>2. CASE n # 0 /\ n # m
      <4>1. n \in 1..(m - 1) /\ g[n] = f[n] /\ g[n - 1] = f[n - 1]
        BY <2>1, <2>5, <3>2
      <4>2. \A j \in 1..(m - 1) :
              f[j] = IF j \in S THEN f[j - 1] + 1
                     ELSE IF j \in R /\ f[j - 1] > 0 THEN f[j - 1] - 1
                     ELSE f[j - 1]
        <5> DEFINE L0 == m - 1
        <5>1. L0 \in Nat /\ Counts(S, R, L0, f)
          BY <2>1, <2>2
        <5> HIDE DEF L0
        <5>2. \A j \in 1..L0 :
                f[j] = IF j \in S THEN f[j - 1] + 1
                       ELSE IF j \in R /\ f[j - 1] > 0 THEN f[j - 1] - 1
                       ELSE f[j - 1]
          BY <5>1, CountsAt
        <5> QED BY <5>2 DEF L0
      <4> QED BY <3>2, <4>1, <4>2
    <3>3. CASE n = m
      <4>1. g[m - 1] = f[m - 1]
        BY <2>1, <2>5
      <4> QED BY <1>3, <2>5, <3>3, <4>1
    <3> QED BY <3>1, <3>2, <3>3
  <2>7. Counts(S, R, m, g)
    <3>1. g = [n \in 0..m |-> g[n]]
      OBVIOUS
    <3> HIDE DEF g
    <3> QED BY <2>6, <3>1 DEF Counts
  <2> HIDE DEF g
  <2> QED BY <1>1, <2>4, <2>7
<1> QED BY <1>2, <1>3

\* Two counts whose positions agree up to L have the same values up to L.
LEMMA CountsAgree ==
    ASSUME NEW S, NEW R, NEW U, NEW V, NEW L \in Nat, NEW M \in Nat, L <= M,
           NEW f, NEW g, Counts(S, R, L, f), Counts(U, V, M, g),
           \A n \in 1..L : (n \in S <=> n \in U) /\ (n \in R <=> n \in V)
    PROVE  \A n \in 0..L : f[n] = g[n]
<1> DEFINE Bad == {n \in 0..L : f[n] # g[n]}
<1> SUFFICES ASSUME Bad # {} PROVE FALSE
  OBVIOUS
<1>1. Bad \in SUBSET Nat
  OBVIOUS
<1>2. PICK m \in Bad : \A y \in Bad : m <= y
  BY <1>1, LeastOf
<1>3. f[0] = 0 /\ g[0] = 0
  BY CountsAt
<1>4. m \in 1..L /\ m - 1 \in 0..L /\ m \in 1..M
  BY <1>2, <1>3
<1>5. f[m - 1] = g[m - 1]
  BY <1>2, <1>4
<1>6. f[m] = IF m \in S THEN f[m - 1] + 1
             ELSE IF m \in R /\ f[m - 1] > 0 THEN f[m - 1] - 1
             ELSE f[m - 1]
  BY <1>4, CountsAt
<1>7. g[m] = IF m \in U THEN g[m - 1] + 1
             ELSE IF m \in V /\ g[m - 1] > 0 THEN g[m - 1] - 1
             ELSE g[m - 1]
  BY <1>4, CountsAt
<1>8. f[m] = g[m]
  BY <1>4, <1>5, <1>6, <1>7
<1> QED BY <1>2, <1>8

\* The depth of a child is a number.
LEMMA DepthNat == ASSUME NEW p \in Seq(Entries), NEW k PROVE Depth(p, k) \in Nat
<1> DEFINE S == Spawns(p, k)
           R == Returns(p, k)
           f == CHOOSE h : Counts(S, R, Len(p), h)
<1>0. Len(p) \in Nat
  OBVIOUS
<1> HIDE DEF S, R
<1>1. PICK g \in [0..Len(p) -> Nat] : Counts(S, R, Len(p), g)
  BY <1>0, CountsExist
<1>2. Counts(S, R, Len(p), f)
  BY <1>1
<1>3. f[Len(p)] = g[Len(p)]
  <2> HIDE DEF f
  <2>1. \A n \in 0..Len(p) : f[n] = g[n]
    BY <1>0, <1>1, <1>2, CountsAgree
  <2> QED BY <1>0, <2>1
<1> QED BY <1>0, <1>1, <1>3, DepthCounts DEF S, R

\* One more record raises the depth by a spawn, lowers it by a return, and
\* leaves it otherwise.
LEMMA DepthAppend ==
    ASSUME NEW p \in Seq(Entries), NEW e \in Entries, NEW k
    PROVE  Depth(Append(p, e), k) =
             IF e.t = "spawn" /\ e.k = k THEN Depth(p, k) + 1
             ELSE IF e.t = "return" /\ e.k = k /\ Depth(p, k) > 0
                  THEN Depth(p, k) - 1
             ELSE Depth(p, k)
<1> DEFINE q == Append(p, e)
           L == Len(p)
           f == CHOOSE h : Counts(Spawns(p, k), Returns(p, k), L, h)
           g == CHOOSE h : Counts(Spawns(q, k), Returns(q, k), Len(q), h)
<1>1. L \in Nat /\ Len(q) = L + 1 /\ q[L + 1] = e /\ \A n \in 1..L : q[n] = p[n]
  OBVIOUS
<1>2. Counts(Spawns(p, k), Returns(p, k), L, f)
  BY <1>1, CountsExist
<1>3. Counts(Spawns(q, k), Returns(q, k), L + 1, g)
  <2>1. L + 1 \in Nat
    BY <1>1
  <2> HIDE DEF q, L
  <2>2. \E h : Counts(Spawns(q, k), Returns(q, k), L + 1, h)
    BY <2>1, CountsExist
  <2>3. g = CHOOSE h : Counts(Spawns(q, k), Returns(q, k), L + 1, h)
    BY <1>1
  <2> HIDE DEF g
  <2> QED BY <2>2, <2>3
<1>4. Depth(p, k) = f[L] /\ Depth(q, k) = g[L + 1]
  BY <1>1, DepthCounts
<1>5. \A n \in 1..L : /\ n \in Spawns(p, k) <=> n \in Spawns(q, k)
                      /\ n \in Returns(p, k) <=> n \in Returns(q, k)
  <2> HIDE DEF q
  <2> QED BY <1>1 DEF Spawns, Returns, At
<1>6. /\ L + 1 \in Spawns(q, k) <=> (e.t = "spawn" /\ e.k = k)
      /\ L + 1 \in Returns(q, k) <=> (e.t = "return" /\ e.k = k)
  <2> HIDE DEF q
  <2> QED BY <1>1 DEF Spawns, Returns, At
<1> HIDE DEF f, g, q
<1>7. f[L] = g[L]
  <2> DEFINE S == Spawns(p, k)
             R == Returns(p, k)
             U == Spawns(q, k)
             V == Returns(q, k)
             M == L + 1
  <2>1. L \in Nat /\ M \in Nat /\ L <= M /\ L \in 0..L
    BY <1>1
  <2>2. Counts(S, R, L, f) /\ Counts(U, V, M, g)
    BY <1>2, <1>3
  <2>3. \A n \in 1..L : (n \in S <=> n \in U) /\ (n \in R <=> n \in V)
    BY <1>5
  <2> HIDE DEF L, S, R, U, V, M
  <2>4. \A n \in 0..L : f[n] = g[n]
    BY <2>1, <2>2, <2>3, CountsAgree
  <2> QED BY <2>1, <2>4
<1>8. g[L + 1] = IF L + 1 \in Spawns(q, k) THEN g[L] + 1
                 ELSE IF L + 1 \in Returns(q, k) /\ g[L] > 0 THEN g[L] - 1
                 ELSE g[L]
  BY <1>1, <1>3, CountsAt
<1> QED BY <1>4, <1>6, <1>7, <1>8 DEF q

\* A prefix of a log has the log's records.
LEMMA PrefixFacts ==
    ASSUME NEW p \in Seq(Entries), NEW a \in Nat, a <= Len(p)
    PROVE  /\ SubSeq(p, 1, a) \in Seq(Entries)
           /\ Len(SubSeq(p, 1, a)) = a
           /\ \A n \in 1..a : SubSeq(p, 1, a)[n] = p[n]
OBVIOUS

\* A longer log has the same prefixes.
LEMMA PrefixAppend ==
    ASSUME NEW p \in Seq(Entries), NEW e \in Entries, NEW a \in Nat, a <= Len(p)
    PROVE  SubSeq(Append(p, e), 1, a) = SubSeq(p, 1, a)
OBVIOUS

\* The call of a child that the read prefix spawned is one whose spawn record
\* is in the log.
LEMMA CallOfFacts ==
    ASSUME NEW p \in Seq(Entries), NEW a \in Nat, a <= Len(p), NEW k,
           Spawns(SubSeq(p, 1, a), k) # {}
    PROVE  \E n \in 1..Len(p) : /\ p[n].t = "spawn" /\ p[n].k = k
                                /\ p[n].c = CallOf(SubSeq(p, 1, a), k)
<1> DEFINE q == SubSeq(p, 1, a)
           n == Newest(Spawns(q, k))
<1>1. Len(q) = a /\ \A j \in 1..a : q[j] = p[j]
  BY PrefixFacts
<1> HIDE DEF q
<1>2. Spawns(q, k) \in SUBSET (1..a)
  BY <1>1 DEF Spawns, At
<1>3. n \in Spawns(q, k)
  BY <1>2, NewestIn DEF q
<1>4. n \in 1..a /\ p[n].t = "spawn" /\ p[n].k = k
  BY <1>1, <1>3 DEF Spawns, At
<1>5. CallOf(q, k) = p[n].c
  BY <1>1, <1>4 DEF CallOf
<1> HIDE DEF n
<1>6. n \in 1..Len(p)
  BY <1>4
<1> QED BY <1>4, <1>5, <1>6 DEF q

\* The calls of the log are finitely many.
LEMMA DelegatedNat == ASSUME Types PROVE Delegated \in Nat
<1>1. IsFiniteSet(1..Len(log))
  BY FS_Interval DEF Types
<1>2. CallsAt(log) \subseteq 1..Len(log)
  BY DEF CallsAt
<1>3. IsFiniteSet(CallsAt(log))
  BY <1>1, <1>2, FS_Subset
<1> QED BY <1>3, FS_CardinalityType DEF Delegated

\* It grows by one with every call record and with no other.
LEMMA DelegatedAppend ==
    ASSUME Types, NEW e \in Entries, log' = Append(log, e)
    PROVE  Delegated' = IF e.t = "call" THEN Delegated + 1 ELSE Delegated
<1> DEFINE A == CallsAt(log)
           B == CallsAt(log')
           L == Len(log)
<1>0. Delegated = Cardinality(A) /\ Delegated' = Cardinality(B)
  BY DEF Delegated, CallsAt
<1>1. /\ L \in Nat /\ Len(log') = L + 1 /\ log'[L + 1] = e
      /\ \A n \in 1..L : log'[n] = log[n]
  BY DEF Types
<1>2. A \subseteq 1..L /\ L + 1 \notin A
  BY <1>1 DEF CallsAt
<1>3. IsFiniteSet(A)
  <2>1. IsFiniteSet(1..L)
    BY <1>1, FS_Interval
  <2> HIDE DEF A, L
  <2> QED BY <1>2, <2>1, FS_Subset
<1>4. CASE e.t = "call"
  <2>1. B = A \cup {L + 1}
    BY <1>1, <1>4 DEF CallsAt
  <2> HIDE DEF A, B, L
  <2>2. Cardinality(A \cup {L + 1}) = Cardinality(A) + 1
    BY <1>2, <1>3, FS_AddElement
  <2> QED BY <1>0, <1>4, <2>1, <2>2
<1>5. CASE e.t # "call"
  <2>1. B = A
    BY <1>1, <1>5 DEF CallsAt
  <2> HIDE DEF A, B
  <2> QED BY <1>0, <1>5, <2>1
<1> QED BY <1>4, <1>5

-----------------------------------------------------------------------------
(* Steps that only move tasks on and append records.  RecordSpawn, Spawn and *)
(* Delegate are treated on their own.                                        *)

\* A task goes on: it keeps its child, and gets no nearer to its start.
Advances(t, u) ==
    /\ u.kid = t.kid
    /\ t.pc = "none" <=> u.pc = "none"
    /\ u.pc = "start" => t.pc = "start"
    /\ u.pc = "built" => t.pc = "built"
    /\ u.pc \in Opened => t.pc \in Opened
    /\ u.pc \in Running \cup {"start", "built"} =>
         t.pc \in Running \cup {"start", "built"} /\ u.resume = t.resume
    /\ t.pc \in {"tail", "hold", "end"} => u.pc \in {"tail", "hold", "end"}

TasksAdvance == \A i \in Calls : Advances(task[i], task'[i])

\* A record that tells nothing new of a newborn, and that closes, if it is a
\* return, a spawn no task still has open.
Harmless(e) ==
    /\ e.t \notin {"spawn", "call"}
    /\ EntrySound(e)
    /\ (e.t = "return" /\ e.k \notin gap.hasty) =>
         /\ Depth(log, e.k) > 0
         /\ \A i \in Calls : task[i].kid = e.k => task'[i].pc \notin Opened

LogGrows == \/ log' = log
            \/ \E e \in Entries : log' = Append(log, e) /\ Harmless(e)

HastyGrows == gap.hasty \subseteq gap'.hasty

\* Nobody becomes a newborn or busy, and the numbers of the calls stay.
LEMMA AdvanceFacts ==
    ASSUME IInv, TasksAdvance, LogGrows, HastyGrows, Types'
    PROVE  /\ Delegated' = Delegated
           /\ \A k \in Kids : Newborn(k)' => Newborn(k)
           /\ \A i \in Calls : Busy(i)' => Busy(i)
<1>1. Delegated' = Delegated
  <2>1. CASE log' = log
    BY <2>1 DEF Delegated, CallsAt
  <2>2. CASE log' # log
    <3>1. PICK e \in Entries : log' = Append(log, e) /\ Harmless(e)
      BY <2>2 DEF LogGrows
    <3> QED BY <3>1, DelegatedAppend DEF Harmless, IInv
  <2> QED BY <2>1, <2>2
<1>2. ASSUME NEW k \in Kids, Newborn(k)' PROVE Newborn(k)
  BY <1>2 DEF TasksAdvance, Advances, HastyGrows, Newborn, Kids
<1>3. ASSUME NEW i \in Calls, Busy(i)' PROVE Busy(i)
  BY <1>3 DEF TasksAdvance, Advances, Busy
<1> QED BY <1>1, <1>2, <1>3

\* What the log told about the tasks stays true.
LEMMA EntryAdvances ==
    ASSUME IInv, TasksAdvance, LogGrows, HastyGrows, Types',
           NEW e \in Entries, EntrySound(e)
    PROVE  EntrySound(e)'
<1>1. /\ Delegated' = Delegated
      /\ \A k \in Kids : Newborn(k)' => Newborn(k)
  BY AdvanceFacts
<1>2. e.c \in Calls \cup {0} /\ e.k \in Kids \cup {0} /\ Kids = Calls
  BY DEF Entries, Kids
<1>3. ASSUME NEW i \in Calls
      PROVE  /\ task'[i].kid = task[i].kid
             /\ task[i].pc # "none" => task'[i].pc # "none"
             /\ task[i].pc \notin {"none", "start"}
                  => task'[i].pc \notin {"none", "start"}
  BY DEF TasksAdvance, Advances
<1> QED BY <1>1, <1>2, <1>3 DEF EntrySound

\* A record is sound wherever it stands.
LEMMA EntryAt ==
    ASSUME NEW e, EntrySound(e)', NEW n, log'[n] = e
    PROVE  EntrySound(log[n])'
BY DEF EntrySound, Newborn

\* The records of the log afterwards.
LEMMA EntriesAdvance ==
    ASSUME IInv, TasksAdvance, LogGrows, HastyGrows, Types'
    PROVE  \A n \in 1..Len(log') : EntrySound(log[n])'
<1> SUFFICES ASSUME NEW n \in 1..Len(log') PROVE EntrySound(log[n])'
  OBVIOUS
<1>1. PICK e \in Entries : e = log'[n]
  BY DEF Types
<1>2. EntrySound(e)
  <2>1. CASE log' = log
    BY <1>1, <2>1 DEF IInv
  <2>2. CASE log' # log
    <3>1. PICK f \in Entries : log' = Append(log, f) /\ Harmless(f)
      BY <2>2 DEF LogGrows
    <3>2. \/ n \in 1..Len(log) /\ e = log[n]
          \/ e = f
      BY <1>1, <3>1 DEF IInv, Types
    <3> QED BY <3>1, <3>2 DEF IInv, Harmless
  <2> QED BY <2>1, <2>2
<1>3. EntrySound(e)'
  BY <1>2, EntryAdvances
<1> QED BY <1>1, <1>3, EntryAt

\* How the depths of the children move: only a harmless return lowers one.
LEMMA DepthAdvances ==
    ASSUME IInv, LogGrows, NEW k \in Kids, NEW i \in Calls, task[i].kid = k,
           task'[i].pc \in Opened, k \notin gap.hasty, Depth(log, k) > 0
    PROVE  Depth(log', k) > 0
<1>1. CASE log' = log
  BY <1>1
<1>2. CASE log' # log
  <2>1. PICK e \in Entries : log' = Append(log, e) /\ Harmless(e)
    BY <1>2 DEF LogGrows
  <2>2. ~(e.t = "return" /\ e.k = k)
    BY <2>1 DEF Harmless
  <2>3. Depth(log', k) \in {Depth(log, k), Depth(log, k) + 1}
    BY <2>1, <2>2, DepthAppend DEF IInv, Types
  <2>4. Depth(log, k) \in Nat
    BY DepthNat DEF IInv, Types
  <2> QED BY <2>3, <2>4
<1> QED BY <1>1, <1>2

\* The tasks stay sound.
LEMMA TasksStaySound ==
    ASSUME IInv, TasksAdvance, LogGrows, HastyGrows, Types'
    PROVE  \A i \in Calls : TaskSound(i)'
<1> SUFFICES ASSUME NEW i \in Calls PROVE TaskSound(i)'
  OBVIOUS
<1>1. /\ Delegated' = Delegated
      /\ \A k \in Kids : Newborn(k)' => Newborn(k)
      /\ Busy(i)' => Busy(i)
  BY AdvanceFacts
<1>2. \A j \in Calls : Advances(task[j], task'[j])
  BY DEF TasksAdvance
<1>3. TaskSound(i) /\ task[i].kid \in Kids \cup {0} /\ Kids = Calls
  BY DEF IInv, Types, Tasks, Kids
<1>4. /\ task'[i].kid = task[i].kid
      /\ task[i].pc = "none" <=> task'[i].pc = "none"
      /\ task'[i].pc \in Opened => task[i].pc \in Opened
  BY <1>2 DEF Advances
<1>5. task'[i].pc = "none" <=> task'[i].kid = 0
  BY <1>3, <1>4 DEF TaskSound
<1>6. ASSUME task'[i].pc # "none"
      PROVE  /\ task'[task'[i].kid].pc # "none"
             /\ task'[task'[i].kid].kid = task'[i].kid
             /\ Newborn(task[i].kid)' => task'[i].kid = i
  <2>1. task[i].kid \in Kids
    BY <1>3, <1>4, <1>6 DEF TaskSound
  <2>2. Advances(task[task[i].kid], task'[task[i].kid])
    BY <1>2, <1>3, <2>1
  <2>3. Newborn(task[i].kid)' => Newborn(task[i].kid)
    <3>1. PICK k \in Kids : k = task[i].kid
      BY <2>1
    <3> QED BY <1>1, <1>4, <3>1 DEF Newborn
  <2> QED BY <1>3, <1>4, <1>6, <2>2, <2>3 DEF TaskSound, Advances
<1>7. Busy(i)' => (task'[i].resume <=> task'[i].kid # i)
  <2>1. Busy(i)' => task'[i].resume = task[i].resume
    BY <1>2 DEF Busy, Advances
  <2> QED BY <1>1, <1>3, <1>4, <2>1 DEF TaskSound
<1>8. i > Delegated' => task'[i].pc = "none"
  BY <1>1, <1>3, <1>4 DEF TaskSound
<1>9. ASSUME task'[i].pc \in Opened, task'[i].kid \notin gap'.hasty
      PROVE  Depth(log', task'[i].kid) > 0
  <2>1. task[i].pc \in Opened /\ task[i].kid \notin gap.hasty /\ task[i].kid # 0
    BY <1>3, <1>4, <1>9 DEF HastyGrows, TaskSound, Opened
  <2>2. PICK k \in Kids : k = task[i].kid
    BY <1>3, <2>1
  <2>3. Depth(log, k) > 0
    BY <1>3, <2>1, <2>2 DEF TaskSound
  <2> QED BY <1>4, <1>9, <2>1, <2>2, <2>3, DepthAdvances
<1> QED BY <1>5, <1>6, <1>7, <1>8, <1>9 DEF TaskSound

\* No second driver appears.
LEMMA DriversAdvance ==
    ASSUME IInv, TasksAdvance, LogGrows, HastyGrows, Types'
    PROVE  OneDriver'
<1> SUFFICES ASSUME NEW i \in Calls, NEW j \in Calls, i # j, Busy(i)', Busy(j)',
                    task'[i].kid = task'[j].kid
             PROVE  task'[i].kid \in gap'.hasty
  BY DEF OneDriver
<1>1. Busy(i) /\ Busy(j)
  BY AdvanceFacts
<1>2. task'[i].kid = task[i].kid /\ task'[j].kid = task[j].kid
  BY DEF TasksAdvance, Advances
<1> QED BY <1>1, <1>2 DEF IInv, OneDriver, HastyGrows

\* A log that grows by at most one record, which closes a spawn if it is a
\* return of a child no pass was hasty about.
LEMMA ReturnsAdvance ==
    ASSUME IInv, HastyGrows,
           \/ log' = log
           \/ \E e \in Entries :
                 /\ log' = Append(log, e)
                 /\ (e.t = "return" /\ e.k \notin gap.hasty)
                      => Depth(log, e.k) > 0
    PROVE  OneReturnOnceBuilt'
<1>1. CASE log' = log
  BY <1>1 DEF IInv, OneReturnOnceBuilt, HastyGrows, Returns, At, Closes
<1>2. CASE log' # log
  <2>1. PICK e \in Entries :
          /\ log' = Append(log, e)
          /\ (e.t = "return" /\ e.k \notin gap.hasty) => Depth(log, e.k) > 0
    BY <1>2
  <2>2. /\ log \in Seq(Entries) /\ Len(log) \in Nat
        /\ Len(log') = Len(log) + 1 /\ log'[Len(log) + 1] = e
        /\ \A n \in 1..Len(log) : log'[n] = log[n]
    BY <2>1 DEF IInv, Types
  <2> SUFFICES ASSUME NEW k \in Kids, k \notin gap'.hasty,
                      NEW n \in 1..Len(log'), log'[n].t = "return",
                      log'[n].k = k
               PROVE  Depth(SubSeq(log', 1, n - 1), log'[n].k) > 0
    BY DEF OneReturnOnceBuilt, Returns, At, Closes
  <2>3. k \notin gap.hasty
    BY DEF HastyGrows
  <2>4. CASE n \in 1..Len(log)
    <3>1. log[n].t = "return" /\ log[n].k = k
      BY <2>2, <2>4
    <3>2. Depth(SubSeq(log, 1, n - 1), log[n].k) > 0
      BY <2>3, <2>4, <3>1 DEF IInv, OneReturnOnceBuilt, Returns, At, Closes
    <3>3. SubSeq(log', 1, n - 1) = SubSeq(log, 1, n - 1)
      BY <2>1, <2>2, <2>4, PrefixAppend
    <3> QED BY <2>2, <2>4, <3>2, <3>3
  <2>5. CASE n = Len(log) + 1
    <3>1. SubSeq(log', 1, n - 1) = log
      <4>1. SubSeq(log', 1, n - 1) = SubSeq(log, 1, Len(log))
        BY <2>1, <2>2, <2>5, PrefixAppend
      <4>2. SubSeq(log, 1, Len(log)) = log
        BY <2>2
      <4> QED BY <4>1, <4>2
    <3>2. e.t = "return" /\ e.k = k
      BY <2>2, <2>5
    <3> QED BY <2>1, <2>2, <2>3, <2>5, <3>1, <3>2
  <2> QED BY <2>2, <2>4, <2>5
<1> QED BY <1>1, <1>2

\* What the turn may do in such a step.  The runs in the queue are over.
Over == {"tail", "hold", "end"}
TurnMoves ==
    /\ turn'.call \in {0, turn.call}
    /\ turn'.pc = "spawn" =>
         /\ turn' = turn
         /\ \A e \in Entries : log' = Append(log, e) => e.t # "result"
    /\ turn'.pc = "result" =>
         \/ turn' = turn
         \/ turn'.how = "interrupted" \/ turn'.call = 0
         \/ task'[turn'.call].pc \notin {"start", "built"}
    /\ turn'.pc = "notices" => turn'.todo # <<>>
    /\ \A n \in 1..Len(queue') : task'[queue'[n]].pc \in Over
    /\ \A n \in 1..Len(turn'.todo) : task'[turn'.todo[n]].pc \in Over

\* The turn stays sound.
LEMMA TurnAdvances ==
    ASSUME IInv, TasksAdvance, LogGrows, HastyGrows, Types', TurnMoves
    PROVE  TurnSound'
<1>1. Delegated' = Delegated /\ Delegated \in Nat
  BY AdvanceFacts, DelegatedNat DEF IInv
<1>2. /\ turn.call \in Calls \cup {0}
      /\ turn'.call \in Calls \cup {0}
      /\ 0 \notin Calls
  BY DEF IInv, Types, Turns, Calls
<1>3. turn'.call <= Delegated'
  BY <1>1, <1>2 DEF TurnMoves, IInv, TurnSound
<1>4. ASSUME turn'.pc = "spawn"
      PROVE  /\ turn'.call # 0 /\ task'[turn'.call].pc = "none"
             /\ Results(log', turn'.call) = {}
  <2>1. turn' = turn /\ turn.call # 0 /\ task[turn.call].pc = "none"
        /\ Results(log, turn.call) = {}
    BY <1>4 DEF TurnMoves, IInv, TurnSound
  <2>2. task'[turn.call].pc = "none"
    BY <1>2, <2>1 DEF TasksAdvance, Advances
  <2>3. Results(log', turn.call) = {}
    <3>1. CASE log' = log
      BY <2>1, <3>1
    <3>2. CASE log' # log
      <4>1. PICK e \in Entries : log' = Append(log, e) /\ Harmless(e)
        BY <3>2 DEF LogGrows
      <4>2. e.t # "result"
        BY <1>4, <4>1 DEF TurnMoves
      <4>3. ASSUME NEW n \in 1..Len(log')
            PROVE  log'[n] = e \/ (n \in 1..Len(log) /\ log'[n] = log[n])
        BY <4>1 DEF IInv, Types
      <4> QED BY <2>1, <4>2, <4>3 DEF Results, At
    <3> QED BY <3>1, <3>2
  <2> QED BY <2>1, <2>2, <2>3
<1>5. (turn'.pc = "result" /\ turn'.call # 0 /\ turn'.how # "interrupted")
         => task'[turn'.call].pc \notin {"start", "built"}
  <2>1. CASE turn' = turn
    BY <1>2, <2>1 DEF IInv, TurnSound, TasksAdvance, Advances
  <2>2. CASE turn' # turn
    BY <2>2 DEF TurnMoves
  <2> QED BY <2>1, <2>2
<1> QED BY <1>3, <1>4, <1>5 DEF TurnSound, TurnMoves, Over, Results, At

\* The prefix a pass has read stays what it was.
LEMMA PrefixKept ==
    ASSUME IInv, log' = log \/ \E e \in Entries : log' = Append(log, e),
           scan'.at = scan.at
    PROVE  Prefix' = Prefix /\ scan'.at <= Len(log')
<1>1. log \in Seq(Entries) /\ scan.at \in Nat /\ scan.at <= Len(log)
  BY DEF IInv, Types, Scans, ScanSound
<1>2. CASE log' = log
  BY <1>1, <1>2 DEF Prefix
<1>3. CASE log' # log
  <2>1. PICK e \in Entries : log' = Append(log, e)
    BY <1>3
  <2>2. SubSeq(log', 1, scan.at) = SubSeq(log, 1, scan.at)
    BY <1>1, <2>1, PrefixAppend
  <2>3. Len(log') = Len(log) + 1
    BY <1>1, <2>1
  <2> QED BY <1>1, <2>2, <2>3 DEF Prefix
<1> QED BY <1>2, <1>3

\* What a pass that goes on may do: the children it still has to judge, and
\* the one it is at, are spawned in its prefix.
PassMoves ==
    /\ scan'.at = scan.at
    /\ scan'.step # "off" => scan.step # "off" /\ turn'.pc = "scan"
    /\ \A k \in scan'.left : Spawns(Prefix, k) # {}
    /\ scan'.step \in {"check", "return", "record"} =>
         scan'.cur # 0 /\ Spawns(Prefix, scan'.cur) # {}
    /\ scan'.step = "return" =>
         \/ scan'.cur \in gap'.hasty
         \/ \A i \in Calls : task'[i].kid = scan'.cur => ~Busy(i)'
    /\ scan'.step = "record" => ~Newborn(scan.cur)'

\* The pass stays sound.
LEMMA PassAdvances ==
    ASSUME IInv, TasksAdvance, LogGrows, HastyGrows, Types', PassMoves
    PROVE  ScanSound'
<1>1. Prefix' = Prefix /\ scan'.at <= Len(log')
  BY PrefixKept DEF PassMoves, LogGrows
<1>2. ASSUME scan'.step # "off", NEW k \in Kids, Newborn(k)',
             Spawns(Prefix', k) # {}
      PROVE  Depth(Prefix', k) > 0
  <2>1. Newborn(k)
    BY <1>2, AdvanceFacts
  <2> QED BY <1>1, <1>2, <2>1 DEF IInv, ScanSound, PassMoves
<1>3. /\ \A k \in scan'.left : Spawns(Prefix', k) # {}
      /\ scan'.step \in {"check", "return", "record"} =>
           scan'.cur # 0 /\ Spawns(Prefix', scan'.cur) # {}
  BY <1>1 DEF PassMoves
<1> QED BY <1>1, <1>2, <1>3 DEF ScanSound, PassMoves, Spawns, At, Busy

\* A pass that is left alone moves in that way.
LEMMA PassAlone ==
    ASSUME IInv, TasksAdvance, LogGrows, HastyGrows, Types', scan' = scan,
           scan.step # "off" => turn'.pc = "scan"
    PROVE  PassMoves
<1>1. \A i \in Calls : Busy(i)' => Busy(i)
  BY AdvanceFacts
<1>2. \A i \in Calls : task'[i].kid = task[i].kid
  BY DEF TasksAdvance, Advances
<1>3. scan.step = "record" => ~Newborn(scan.cur)'
  <2> SUFFICES ASSUME scan.step = "record" PROVE ~Newborn(scan.cur)'
    OBVIOUS
  <2>1. scan.cur \in Kids
    BY DEF IInv, Types, Scans, ScanSound
  <2>2. PICK k \in Kids : k = scan.cur
    BY <2>1
  <2>3. ~Newborn(k) /\ (Newborn(k)' => Newborn(k))
    BY <2>2, AdvanceFacts DEF IInv, ScanSound
  <2> QED BY <2>2, <2>3 DEF Newborn
<1> QED BY <1>1, <1>2, <1>3 DEF IInv, ScanSound, PassMoves, HastyGrows

\* No pass runs afterwards.
LEMMA PassOver ==
    ASSUME IInv, Types', scan' = NoScan
    PROVE  ScanSound'
<1>1. Len(log') \in Nat
  BY DEF Types
<1> QED BY <1>1 DEF ScanSound, NoScan, Prefix

\* A turn that is left alone.
LEMMA TurnAlone ==
    ASSUME IInv, TasksAdvance, turn' = turn, queue' = queue,
           turn.pc = "spawn" =>
              \A e \in Entries : log' = Append(log, e) => e.t # "result"
    PROVE  TurnMoves
<1>1. /\ queue \in Seq(Calls) /\ turn.todo \in Seq(Calls)
      /\ turn.call \in Calls \cup {0}
  BY DEF IInv, Types, Turns
<1>2. \A i \in Calls : task[i].pc \in Over => task'[i].pc \in Over
  BY DEF TasksAdvance, Advances, Over
<1> QED BY <1>1, <1>2 DEF TurnMoves, IInv, TurnSound, Over

\* The queue and the notices a turn has taken stay of runs that are over.
LEMMA QueueStays ==
    ASSUME IInv, task' = task
    PROVE  /\ \A n \in 1..Len(queue) : task'[queue[n]].pc \in Over
           /\ \A n \in 1..Len(turn.todo) : task'[turn.todo[n]].pc \in Over
BY DEF IInv, TurnSound, Over

\* Such a step keeps the invariant.
LEMMA StepKeeps ==
    ASSUME IInv, TasksAdvance, LogGrows, HastyGrows, Types', TurnMoves,
           scan' = NoScan \/ PassMoves
    PROVE  IInv'
<1>1. ScanSound'
  BY PassOver, PassAdvances
<1>2. OneReturnOnceBuilt'
  <2>1. \/ log' = log
        \/ \E e \in Entries :
              /\ log' = Append(log, e)
              /\ (e.t = "return" /\ e.k \notin gap.hasty) => Depth(log, e.k) > 0
    BY DEF LogGrows, Harmless
  <2> QED BY <2>1, ReturnsAdvance
<1>3. \A n \in 1..Len(log') : EntrySound(log[n])'
  BY EntriesAdvance
<1> QED BY <1>1, <1>2, <1>3, TasksStaySound, TurnAdvances, DriversAdvance DEF IInv

\* Nothing happens to the tasks, or to the log.
LEMMA TasksStay == ASSUME IInv, task' = task PROVE TasksAdvance
BY DEF IInv, TasksAdvance, Advances

-----------------------------------------------------------------------------
(* The turn. *)

\* The constants of the model have their types.
LEMMA NoneTyped == NoTurn \in Turns /\ NoScan \in Scans /\ NoTask \in Tasks
<1>1. NoTurn \in Turns
  BY DEF NoTurn, Turns, Hows
<1>2. NoScan \in Scans
  BY DEF NoScan, Scans
<1>3. NoTask \in Tasks
  BY DEF NoTask, Tasks
<1> QED BY <1>1, <1>2, <1>3

\* Steps that change the turn, the queue and the notes on it only.
LEMMA TurnOnly ==
    ASSUME IInv, log' = log, task' = task, turn' \in Turns, turn'.pc # "spawn",
           scan' = NoScan \/ (scan' = scan /\ (scan.step # "off" => turn'.pc = "scan")),
           gen' \in [requested : Nat, scanned : Nat],
           gen'.scanned <= gen'.requested,
           \/ queue' = queue /\ turn'.todo \in {<<>>, turn.todo}
           \/ queue' = <<>> /\ turn'.todo = queue
           \/ queue' = queue /\ turn.todo # <<>> /\ turn'.todo = Tail(turn.todo),
           gap' = gap \/ gap' = Spill, setbacks' \in Nat,
           turn'.call \in {0, turn.call},
           turn'.pc = "notices" => turn'.todo # <<>>,
           turn'.pc = "result" =>
             \/ turn'.how = "interrupted" \/ turn'.call = 0
             \/ task[turn'.call].pc \notin {"start", "built"}
    PROVE  IInv'
<1>1. queue' \in Seq(Calls)
  <2>1. <<>> \in Seq(Calls) /\ queue \in Seq(Calls)
    BY DEF IInv, Types
  <2> QED BY <2>1
<1>2. /\ gap' \in [spilt : SUBSET Calls, hasty : SUBSET Kids,
                   unreturned : SUBSET Calls]
      /\ gap'.hasty = gap.hasty
  <2>1. CASE gap' = gap
    BY <2>1 DEF IInv, Types
  <2>2. CASE gap' = Spill
    <3>1. {turn.todo[n] : n \in DOMAIN turn.todo} \subseteq Calls
      BY DEF IInv, Types, Turns
    <3> QED BY <2>2, <3>1 DEF Spill, IInv, Types
  <2> QED BY <2>1, <2>2
<1>3. Types'
  BY <1>1, <1>2, NoneTyped DEF IInv, Types
<1>4. TasksAdvance /\ LogGrows /\ HastyGrows
  BY <1>2, TasksStay DEF LogGrows, HastyGrows
<1>5. TurnMoves
  <2>1. turn.todo \in Seq(Calls) /\ queue \in Seq(Calls)
    BY DEF IInv, Types, Turns
  <2>2. /\ \A n \in 1..Len(queue) : task'[queue[n]].pc \in Over
        /\ \A n \in 1..Len(turn.todo) : task'[turn.todo[n]].pc \in Over
    BY QueueStays
  <2>3. \A n \in 1..Len(queue') : task'[queue'[n]].pc \in Over
    BY <2>1, <2>2
  <2>4. \A n \in 1..Len(turn'.todo) : task'[turn'.todo[n]].pc \in Over
    <3>1. CASE turn.todo # <<>> /\ turn'.todo = Tail(turn.todo)
      <4>1. /\ Len(turn'.todo) = Len(turn.todo) - 1
            /\ \A n \in 1..Len(turn'.todo) : turn'.todo[n] = turn.todo[n + 1]
        BY <2>1, <3>1
      <4>2. \A n \in 1..Len(turn'.todo) : n + 1 \in 1..Len(turn.todo)
        BY <2>1, <4>1
      <4> QED BY <2>2, <4>1, <4>2
    <3>2. CASE turn'.todo \in {<<>>, turn.todo, queue}
      BY <2>2, <3>2
    <3> QED BY <3>1, <3>2
  <2> QED BY <2>3, <2>4 DEF TurnMoves
<1>6. scan' = NoScan \/ PassMoves
  BY <1>3, <1>4, PassAlone
<1> QED BY <1>3, <1>4, <1>5, <1>6, StepKeeps

\* A turn starts, or the model answers.
LEMMA EnterKeeps ==
    ASSUME IInv, Enter \/ NotificationTurn \/ Finish
    PROVE  IInv'
<1> USE DEF IInv, Types
<1>1. /\ log' = log /\ task' = task /\ scan' = scan /\ gen' = gen
      /\ queue' = queue /\ gap' = gap /\ setbacks' = setbacks
      /\ turn.pc \in {"idle", "model"}
  BY DEF Enter, NotificationTurn, Finish
<1>2. scan.step = "off"
  BY <1>1 DEF ScanSound
<1>3. turn' = NoTurn \/ \E x \in {"scan", "reconcile", "boundary"} :
                           turn' = [NoTurn EXCEPT !.pc = x]
  BY DEF Enter, NotificationTurn, Finish
<1>4. /\ turn' \in Turns /\ turn'.pc \in {"idle", "scan", "reconcile", "boundary"}
      /\ turn'.call = 0 /\ turn'.todo = <<>>
  <2>1. CASE turn' = NoTurn
    BY <2>1, NoneTyped DEF NoTurn
  <2>2. ASSUME NEW x \in {"scan", "reconcile", "boundary"},
               turn' = [NoTurn EXCEPT !.pc = x]
        PROVE  /\ turn' \in Turns /\ turn'.pc = x
               /\ turn'.call = 0 /\ turn'.todo = <<>>
    BY <2>2, NoneTyped DEF NoTurn, Turns
  <2> QED BY <1>3, <2>1, <2>2
<1> QED BY <1>1, <1>2, <1>4, TurnOnly

\* The queue is taken.
LEMMA TakeNoticesKeeps ==
    ASSUME IInv, TakeNotices
    PROVE  IInv'
<1> USE DEF IInv, Types
<1>1. /\ log' = log /\ task' = task /\ scan' = scan /\ gen' = gen
      /\ queue' = <<>> /\ gap' = gap /\ setbacks' = setbacks
      /\ turn.pc = "boundary" /\ turn' = Drained(queue)
  BY DEF TakeNotices
<1>2. scan.step = "off"
  BY <1>1 DEF ScanSound
<1>3. /\ turn' \in Turns /\ turn'.pc \in {"model", "notices"}
      /\ turn'.call = turn.call /\ turn'.todo = queue
      /\ turn'.pc = "notices" => turn'.todo # <<>>
  BY <1>1 DEF Turns, Drained
<1> QED BY <1>1, <1>2, <1>3, TurnOnly

\* The waiting call is given its outcome, a call is refused or stopped: an
\* outcome that names the child is of one that was registered.
LEMMA OutcomeKeeps ==
    ASSUME IInv, turn.pc \in {"spawn", "wait"},
           turn' \in Turns, turn'.pc = "result", turn'.call = turn.call,
           turn'.todo = turn.todo,
           log' = log, task' = task, scan' = scan, gen' = gen, queue' = queue,
           gap' = gap, setbacks' \in Nat,
           \/ turn'.how = "interrupted"
           \/ task[turn.call].pc \notin {"start", "built"}
    PROVE  IInv'
<1>1. scan.step = "off"
  BY DEF IInv, ScanSound
<1> QED BY <1>1, TurnOnly DEF IInv, Types

\* The wait for the child ends, or the reader stops it.
LEMMA WaitEndsKeeps ==
    ASSUME IInv,
           StopTurn \/ \E i \in Calls : Launched(i) \/ Joined(i) \/ Released(i)
    PROVE  IInv'
<1> USE DEF IInv, Types
<1>1. CASE StopTurn
  <2>0. /\ log' = log /\ task' = task /\ scan' = scan /\ gen' = gen
        /\ queue' = queue /\ gap' = gap /\ setbacks' \in Nat
        /\ turn.pc \in {"spawn", "wait"}
    BY <1>1 DEF StopTurn, Setback
  <2>1. /\ turn' \in Turns /\ turn'.pc = "result" /\ turn'.how = "interrupted"
        /\ turn'.call = turn.call /\ turn'.todo = turn.todo
    BY <1>1 DEF StopTurn, Turns, Hows
  <2> QED BY <2>0, <2>1, OutcomeKeeps
<1>2. CASE \E i \in Calls : Launched(i) \/ Joined(i) \/ Released(i)
  <2>1. PICK i \in Calls : Launched(i) \/ Joined(i) \/ Released(i)
    BY <1>2
  <2>0. /\ log' = log /\ task' = task /\ scan' = scan /\ gen' = gen
        /\ queue' = queue /\ gap' = gap /\ setbacks' \in Nat
        /\ turn.pc = "wait"
    BY <2>1 DEF Launched, Joined, Released
  <2>2. turn.call = i /\ task[i].pc \notin {"start", "built"}
    BY <2>1 DEF Launched, Joined, Released, Running
  <2>3. PICK h \in Hows : turn' = [turn EXCEPT !.pc = "result", !.how = h]
    BY <2>1 DEF Launched, Joined, Released, SettledOutcome, Hows
  <2>4. /\ turn' \in Turns /\ turn'.pc = "result"
        /\ turn'.call = turn.call /\ turn'.todo = turn.todo
    BY <2>3 DEF Turns
  <2> QED BY <2>0, <2>2, <2>4, OutcomeKeeps
<1> QED BY <1>1, <1>2

\* The turn is dropped or fails, with a pass that is under way.
LEMMA TurnLostKeeps ==
    ASSUME IInv, DropTurn \/ TurnFails
    PROVE  IInv'
<1> USE DEF IInv, Types
<1>1. /\ log' = log /\ task' = task /\ gen' = gen /\ queue' = queue
      /\ gap' = gap \/ gap' = Spill
      /\ setbacks' \in Nat /\ turn' = NoTurn
  BY DEF DropTurn, TurnFails, Setback
<1>2. scan' = NoScan \/ (scan' = scan /\ scan.step = "off")
  BY DEF DropTurn, TurnFails, ScanSound
<1>3. /\ turn' \in Turns /\ turn'.pc = "idle" /\ turn'.call = 0
      /\ turn'.todo = <<>>
  BY <1>1, NoneTyped DEF NoTurn
<1> QED BY <1>1, <1>2, <1>3, TurnOnly

\* The turn goes on without a pass, or after it.
LEMMA ScanEndKeeps ==
    ASSUME IInv, ScanReadFails \/ ScanEnd
    PROVE  IInv'
<1> USE DEF IInv, Types
<1>1. /\ log' = log /\ task' = task /\ queue' = queue /\ gap' = gap
      /\ setbacks' \in Nat /\ turn' = [turn EXCEPT !.pc = "reconcile"]
      /\ scan' = NoScan \/ (scan' = scan /\ scan.step = "off")
  BY DEF ScanReadFails, ScanEnd, Setback
<1>2. gen' = gen \/ (gen' = Recorded /\ gen.requested = scan.gen)
  BY DEF ScanReadFails, ScanEnd, Recorded
<1>3. gen' \in [requested : Nat, scanned : Nat] /\ gen'.scanned <= gen'.requested
  BY <1>2 DEF Recorded, Scans
<1>4. /\ turn' \in Turns /\ turn'.pc = "reconcile" /\ turn'.call = turn.call
      /\ turn'.todo = turn.todo
  BY <1>1 DEF Turns
<1> QED BY <1>1, <1>3, <1>4, TurnOnly

\* The turn appends a record.
LEMMA TurnWrites ==
    ASSUME IInv, NEW e \in Entries, log' = Append(log, e), Harmless(e),
           task' = task, scan' = scan, scan.step = "off", gen' = gen,
           queue' = queue, gap' = gap, setbacks' \in Nat,
           turn' \in Turns, turn'.pc \notin {"spawn", "result"},
           turn'.call \in {0, turn.call},
           turn'.pc = "notices" => turn'.todo # <<>>,
           \/ turn'.todo \in {<<>>, turn.todo}
           \/ turn.todo # <<>> /\ turn'.todo = Tail(turn.todo)
    PROVE  IInv'
<1>1. Types'
  BY DEF IInv, Types
<1>2. TasksAdvance /\ LogGrows /\ HastyGrows
  BY TasksStay DEF LogGrows, HastyGrows
<1>3. TurnMoves
  <2>1. turn.todo \in Seq(Calls)
    BY DEF IInv, Types, Turns
  <2>2. /\ \A n \in 1..Len(queue) : task'[queue[n]].pc \in Over
        /\ \A n \in 1..Len(turn.todo) : task'[turn.todo[n]].pc \in Over
    BY QueueStays
  <2>3. \A n \in 1..Len(turn'.todo) : task'[turn'.todo[n]].pc \in Over
    <3>1. CASE turn.todo # <<>> /\ turn'.todo = Tail(turn.todo)
      <4>1. /\ Len(turn'.todo) = Len(turn.todo) - 1
            /\ \A n \in 1..Len(turn'.todo) : turn'.todo[n] = turn.todo[n + 1]
        BY <2>1, <3>1
      <4>2. \A n \in 1..Len(turn'.todo) : n + 1 \in 1..Len(turn.todo)
        BY <2>1, <4>1
      <4> QED BY <2>2, <4>1, <4>2
    <3>2. CASE turn'.todo \in {<<>>, turn.todo}
      BY <2>2, <3>2
    <3> QED BY <3>1, <3>2
  <2> QED BY <2>2, <2>3 DEF TurnMoves
<1>4. PassMoves
  BY <1>1, <1>2, PassAlone
<1> QED BY <1>1, <1>2, <1>3, <1>4, StepKeeps

\* An answer in place of one that is missing names a call of the log and says
\* nothing about its child.
LEMMA ReconcileKeeps ==
    ASSUME IInv, Reconcile
    PROVE  IInv'
<1> USE DEF IInv, Types
<1>1. /\ task' = task /\ scan' = scan /\ gen' = gen /\ queue' = queue
      /\ gap' = gap /\ setbacks' = setbacks /\ turn.pc = "reconcile"
  BY DEF Reconcile
<1>2. scan.step = "off"
  BY <1>1 DEF ScanSound
<1>3. CASE Unanswered(log) = {}
  <2>1. /\ log' = log /\ turn' \in Turns /\ turn'.pc = "boundary"
        /\ turn'.call = turn.call /\ turn'.todo = turn.todo
    BY <1>3 DEF Reconcile, Turns
  <2> QED BY <1>1, <1>2, <2>1, TurnOnly
<1>4. CASE Unanswered(log) # {}
  <2> DEFINE c == Oldest(Unanswered(log))
  <2>1. Unanswered(log) \in SUBSET Nat
    <3>1. Calls \subseteq Nat
      BY BoundsAssumption DEF Calls
    <3> QED BY <3>1 DEF Unanswered
  <2>2. c \in Unanswered(log)
    BY <1>4, <2>1, OldestIn
  <2>3. PICK n \in 1..Len(log) : log[n].t = "call" /\ log[n].c = c
    BY <2>2 DEF Unanswered, At
  <2>4. c \in Calls /\ c <= Delegated
    BY <2>2, <2>3 DEF Unanswered, EntrySound
  <2>5. log' = Append(log, Entry("result", c, 0, "interrupted")) /\ turn' = turn
    BY <1>4 DEF Reconcile, Write
  <2> HIDE DEF c
  <2>6. PICK e \in Entries : e = Entry("result", c, 0, "interrupted")
    BY <2>4 DEF Entry, Entries, Kinds, Hows
  <2>7. Harmless(e)
    BY <2>4, <2>6 DEF Harmless, EntrySound, Entry
  <2> QED BY <1>1, <1>2, <2>5, <2>6, <2>7, TurnWrites
<1> QED BY <1>3, <1>4

\* A notice of the queue is of a child that was registered.
LEMMA AppendNoticeKeeps ==
    ASSUME IInv, AppendNotice
    PROVE  IInv'
<1> USE DEF IInv, Types
<1> DEFINE i == Head(turn.todo)
<1>1. /\ task' = task /\ scan' = scan /\ gen' = gen /\ queue' = queue
      /\ gap' = gap /\ setbacks' = setbacks /\ turn.pc = "notices"
      /\ turn' = Drained(Tail(turn.todo))
  BY DEF AppendNotice
<1>2. scan.step = "off" /\ turn.todo # <<>>
  BY <1>1 DEF ScanSound, TurnSound
<1>3. /\ turn' \in Turns /\ turn'.pc \in {"model", "notices"}
      /\ turn'.call = turn.call /\ turn'.todo = Tail(turn.todo)
      /\ turn'.pc = "notices" => turn'.todo # <<>>
  <2>1. Tail(turn.todo) \in Seq(Calls)
    BY <1>2 DEF Turns
  <2> QED BY <1>1, <2>1 DEF Drained, Turns
<1>4. i \in Calls /\ task[i].pc \in {"tail", "hold", "end"}
  <2>1. turn.todo \in Seq(Calls)
    BY DEF Turns
  <2>2. i = turn.todo[1] /\ 1 \in 1..Len(turn.todo) /\ turn.todo[1] \in Calls
    BY <1>2, <2>1
  <2> HIDE DEF i
  <2> QED BY <2>2 DEF TurnSound
<1>5. CASE log' = log
  BY <1>1, <1>2, <1>3, <1>5, TurnOnly
<1>6. CASE log' # log
  <2>1. log' = Append(log, Entry("notice", i, task[i].kid, "none"))
    BY <1>6 DEF AppendNotice, Write
  <2> HIDE DEF i
  <2>2. task[i].kid \in Kids /\ TaskSound(i) /\ 0 \notin Calls
    BY <1>4 DEF Tasks, TaskSound, Calls
  <2>3. PICK e \in Entries : e = Entry("notice", i, task[i].kid, "none")
    BY <1>4, <2>2 DEF Entry, Entries, Kinds, Hows
  <2>4. i <= Delegated
    BY <1>4, <2>2, DelegatedNat, BoundsAssumption DEF TaskSound, Calls
  <2>5. ~Newborn(task[i].kid)
    BY <1>4, <2>2 DEF TaskSound, Newborn
  <2>6. Harmless(e)
    BY <1>4, <2>2, <2>3, <2>4, <2>5 DEF Harmless, EntrySound, Entry, TaskSound
  <2> QED BY <1>1, <1>2, <1>3, <2>1, <2>3, <2>6, TurnWrites
<1> QED BY <1>5, <1>6

\* The result of the call is of a child that is registered, or says nothing of
\* it.
LEMMA AppendResultKeeps ==
    ASSUME IInv, AppendResult
    PROVE  IInv'
<1> USE DEF IInv, Types
<1>1. /\ task' = task /\ scan' = scan /\ gen' = gen /\ queue' = queue
      /\ gap' = gap /\ setbacks' = setbacks /\ turn.pc = "result"
      /\ log' = Append(log, Entry("result", turn.call, 0, turn.how))
      /\ turn' = NoTurn \/ turn' = [NoTurn EXCEPT !.pc = "boundary"]
  BY DEF AppendResult, Write
<1>2. scan.step = "off"
  BY <1>1 DEF ScanSound
<1>3. /\ turn' \in Turns /\ turn'.pc \in {"idle", "boundary"}
      /\ turn'.call = 0 /\ turn'.todo = <<>>
  <2>1. CASE turn' = NoTurn
    BY <2>1, NoneTyped DEF NoTurn
  <2>2. CASE turn' = [NoTurn EXCEPT !.pc = "boundary"]
    BY <2>2, NoneTyped DEF NoTurn, Turns
  <2> QED BY <1>1, <2>1, <2>2
<1>4. PICK e \in Entries : e = Entry("result", turn.call, 0, turn.how)
  BY DEF Entry, Entries, Kinds, Turns
<1>5. Harmless(e)
  BY <1>1, <1>4 DEF Harmless, EntrySound, Entry, TurnSound, Newborn
<1> QED BY <1>1, <1>2, <1>3, <1>4, <1>5, TurnWrites

\* A clear names nobody.
LEMMA ClearKeeps ==
    ASSUME IInv, Clear
    PROVE  IInv'
<1> USE DEF IInv, Types
<1>1. /\ task' = task /\ scan' = scan /\ gen' = gen /\ queue' = queue
      /\ gap' = gap /\ setbacks' \in Nat /\ turn.pc = "idle" /\ turn' = turn
      /\ log' = Append(log, Entry("clear", 0, 0, "none"))
  BY DEF Clear, Write, Setback
<1>2. scan.step = "off"
  BY <1>1 DEF ScanSound
<1>3. PICK e \in Entries : e = Entry("clear", 0, 0, "none")
  BY DEF Entry, Entries, Kinds, Hows
<1>4. Delegated \in Nat
  BY DelegatedNat
<1>5. Harmless(e)
  BY <1>3, <1>4 DEF Harmless, EntrySound, Entry
<1> QED BY <1>1, <1>2, <1>3, <1>5, TurnWrites

-----------------------------------------------------------------------------
(* The tasks. *)

\* One task goes on.
LEMMA OneAdvances ==
    ASSUME IInv, NEW i \in Calls, NEW u \in Tasks, Advances(task[i], u),
           task' = [task EXCEPT ![i] = u]
    PROVE  TasksAdvance /\ task' \in [Calls -> Tasks] /\ task'[i] = u
<1>1. task \in [Calls -> Tasks]
  BY DEF IInv, Types
<1>2. \A j \in Calls : task'[j] = IF j = i THEN u ELSE task[j]
  BY <1>1
<1>3. \A j \in Calls : Advances(task[j], task[j])
  BY DEF Advances
<1> QED BY <1>1, <1>2, <1>3 DEF TasksAdvance

\* A task goes on and nothing else but the queue and the generation moves.
LEMMA TaskGoesOn ==
    ASSUME IInv, NEW i \in Calls, NEW u \in Tasks, Advances(task[i], u),
           task' = [task EXCEPT ![i] = u], log' = log, turn' = turn,
           scan' = scan, gen' \in [requested : Nat, scanned : Nat],
           gen'.scanned <= gen'.requested,
           queue' = queue \/ (queue' = Append(queue, i) /\ u.pc \in Over),
           gap' \in [spilt : SUBSET Calls, hasty : SUBSET Kids,
                     unreturned : SUBSET Calls],
           gap'.hasty = gap.hasty, setbacks' \in Nat
    PROVE  IInv'
<1>1. TasksAdvance /\ task' \in [Calls -> Tasks] /\ task'[i] = u
  BY OneAdvances
<1>2. queue \in Seq(Calls) /\ queue' \in Seq(Calls)
  <2>1. queue \in Seq(Calls)
    BY DEF IInv, Types
  <2>2. Append(queue, i) \in Seq(Calls)
    BY <2>1
  <2> QED BY <2>1, <2>2
<1>3. Types'
  BY <1>1, <1>2 DEF IInv, Types
<1>4. LogGrows /\ HastyGrows
  BY DEF LogGrows, HastyGrows
<1>5. TurnMoves
  <2>1. turn.todo \in Seq(Calls) /\ turn.call \in Calls \cup {0}
    BY DEF IInv, Types, Turns
  <2>2. \A j \in Calls : task[j].pc \in Over => task'[j].pc \in Over
    BY <1>1 DEF TasksAdvance, Advances, Over
  <2>3. \A n \in 1..Len(turn'.todo) : task'[turn'.todo[n]].pc \in Over
    BY <2>1, <2>2 DEF IInv, TurnSound, Over
  <2>4. \A n \in 1..Len(queue) : task'[queue[n]].pc \in Over
    BY <1>2, <2>2 DEF IInv, TurnSound, Over
  <2>5. \A n \in 1..Len(queue') : task'[queue'[n]].pc \in Over
    <3>1. CASE queue' = queue
      BY <2>4, <3>1
    <3>2. CASE queue' = Append(queue, i) /\ u.pc \in Over
      <4> SUFFICES ASSUME NEW n \in 1..Len(queue')
                   PROVE  task'[queue'[n]].pc \in Over
        OBVIOUS
      <4>1. queue'[n] = i \/ (n \in 1..Len(queue) /\ queue'[n] = queue[n])
        BY <1>2, <3>2
      <4> QED BY <1>1, <2>4, <3>2, <4>1
    <3> QED BY <3>1, <3>2
  <2>6. turn.pc = "spawn" => \A e \in Entries : log' = Append(log, e) => e.t # "result"
    <3>1. \A e \in Entries : log # Append(log, e)
      <4> SUFFICES ASSUME NEW e \in Entries, log = Append(log, e) PROVE FALSE
        OBVIOUS
      <4>1. Len(log) = Len(log) + 1 /\ Len(log) \in Nat
        BY DEF IInv, Types
      <4> QED BY <4>1
    <3> QED BY <3>1
  <2> QED BY <2>3, <2>5, <2>6 DEF TurnMoves, IInv, TurnSound
<1>6. PassMoves
  <2>1. scan.step # "off" => turn'.pc = "scan"
    BY DEF IInv, ScanSound
  <2> QED BY <1>1, <1>3, <1>4, <2>1, PassAlone
<1> QED BY <1>1, <1>3, <1>4, <1>5, <1>6, StepKeeps

\* The steps of a task that leave the log.
LEMMA TaskStepsKeep ==
    ASSUME IInv, NEW i \in Calls,
           \/ SpawnFails(i) \/ Announce(i) \/ Handover(i) \/ RunEnds(i)
           \/ ClaimReturn(i) \/ ReturnFails(i)
    PROVE  IInv'
<1> USE DEF IInv, Types
<1>0. task[i] \in Tasks /\ task \in [Calls -> Tasks]
  OBVIOUS
<1>1. CASE SpawnFails(i)
  <2> DEFINE u == [task[i] EXCEPT !.pc = "end", !.refused = TRUE]
  <2>1. u \in Tasks /\ Advances(task[i], u)
    BY <1>0, <1>1 DEF SpawnFails, Tasks, Advances, Opened, Running
  <2>2. /\ task' = [task EXCEPT ![i] = u] /\ log' = log /\ turn' = turn
        /\ scan' = scan /\ gen' = gen /\ queue' = queue /\ gap' = gap
    <3>1. \A v : [task EXCEPT ![i] = [task[i] EXCEPT !.pc = "end", !.refused = v]]
                = [task EXCEPT ![i].pc = "end", ![i].refused = v]
      BY <1>0
    <3> QED BY <1>0, <1>1, <3>1 DEF SpawnFails
  <2>3. setbacks' \in Nat
    BY <1>1 DEF SpawnFails, Setback
  <2> HIDE DEF u
  <2> QED BY <2>1, <2>2, <2>3, TaskGoesOn
<1>2. CASE Announce(i)
  <2> DEFINE u == [task[i] EXCEPT !.pc = "run"]
  <2>1. u \in Tasks /\ Advances(task[i], u)
    BY <1>0, <1>2 DEF Announce, Tasks, Advances, Opened, Running
  <2>2. /\ task' = [task EXCEPT ![i] = u] /\ log' = log /\ turn' = turn
        /\ scan' = scan /\ gen' = gen /\ queue' = queue /\ gap' = gap
        /\ setbacks' \in Nat
    BY <1>0, <1>2 DEF Announce
  <2> HIDE DEF u
  <2> QED BY <2>1, <2>2, TaskGoesOn
<1>3. CASE Handover(i)
  <2> DEFINE u == [task[i] EXCEPT !.ending = "notify"]
  <2>1. u \in Tasks /\ Advances(task[i], u)
    BY <1>0, <1>3 DEF Tasks, Advances
  <2>2. /\ task' = [task EXCEPT ![i] = u] /\ log' = log /\ turn' = turn
        /\ scan' = scan /\ gen' = gen /\ queue' = queue /\ gap' = gap
        /\ setbacks' \in Nat
    BY <1>0, <1>3 DEF Handover
  <2> HIDE DEF u
  <2> QED BY <2>1, <2>2, TaskGoesOn
<1>4. CASE RunEnds(i)
  <2> DEFINE x == Ending(task[i])
             u == [task[i] EXCEPT !.pc = "tail", !.ending = x]
  <2>1. x \in {"undecided", "caller", "notify"}
    BY <1>0 DEF Ending, Tasks
  <2>2. u \in Tasks /\ Advances(task[i], u) /\ u.pc = "tail"
    <3> HIDE DEF x
    <3> QED BY <1>0, <1>4, <2>1 DEF RunEnds, Tasks, Advances, Opened, Running
  <2>3. /\ task' = [task EXCEPT ![i] = u] /\ log' = log /\ turn' = turn
        /\ scan' = scan /\ gen' = gen /\ gap' = gap /\ setbacks' \in Nat
        /\ queue' = queue \/ queue' = Append(queue, i)
    BY <1>0, <1>4 DEF RunEnds
  <2> HIDE DEF u
  <2> QED BY <2>2, <2>3, TaskGoesOn DEF Over
<1>5. CASE ClaimReturn(i)
  <2>1. PICK x \in {"hold", "end"} :
          task' = [task EXCEPT ![i] = [task[i] EXCEPT !.pc = x]]
    BY <1>0, <1>5 DEF ClaimReturn
  <2> DEFINE u == [task[i] EXCEPT !.pc = x]
  <2>2. u \in Tasks /\ Advances(task[i], u)
    BY <1>0, <1>5 DEF ClaimReturn, Tasks, Advances, Opened, Running
  <2>3. /\ log' = log /\ turn' = turn /\ scan' = scan /\ queue' = queue
        /\ gap' = gap /\ setbacks' \in Nat
        /\ gen' = gen \/ gen' = Reopen
    BY <1>5 DEF ClaimReturn
  <2>4. /\ gen' \in [requested : Nat, scanned : Nat]
        /\ gen'.scanned <= gen'.requested
    BY <2>3 DEF Reopen
  <2> HIDE DEF u
  <2> QED BY <2>1, <2>2, <2>3, <2>4, TaskGoesOn DEF u
<1>6. CASE ReturnFails(i)
  <2> DEFINE u == [task[i] EXCEPT !.pc = "end"]
  <2>1. u \in Tasks /\ Advances(task[i], u)
    BY <1>0, <1>6 DEF ReturnFails, Tasks, Advances, Opened, Running
  <2>2. /\ task' = [task EXCEPT ![i] = u] /\ log' = log /\ turn' = turn
        /\ scan' = scan /\ queue' = queue /\ setbacks' \in Nat
    BY <1>0, <1>6 DEF ReturnFails, Setback
  <2>3. /\ gen' \in [requested : Nat, scanned : Nat]
        /\ gen'.scanned <= gen'.requested
    BY <1>6 DEF ReturnFails, Reopen
  <2>4. /\ gap' \in [spilt : SUBSET Calls, hasty : SUBSET Kids,
                     unreturned : SUBSET Calls]
        /\ gap'.hasty = gap.hasty
    BY <1>6 DEF ReturnFails
  <2> HIDE DEF u
  <2> QED BY <2>1, <2>2, <2>3, <2>4, TaskGoesOn
<1> QED BY <1>1, <1>2, <1>3, <1>4, <1>5, <1>6

\* The wait budget elapses: the call is acknowledged and the child runs on.
LEMMA BudgetKeeps ==
    ASSUME IInv, NEW i \in Calls, BudgetElapsed(i)
    PROVE  IInv'
<1> USE DEF IInv, Types
<1>0. task[i] \in Tasks /\ task \in [Calls -> Tasks]
  OBVIOUS
<1> DEFINE u == [task[i] EXCEPT !.ending = "notify"]
<1>1. u \in Tasks /\ Advances(task[i], u) /\ u.pc \in Running
  BY <1>0 DEF BudgetElapsed, Tasks, Advances
<1>2. /\ task' = [task EXCEPT ![i] = u] /\ log' = log /\ scan' = scan
      /\ gen' = gen /\ queue' = queue /\ gap' = gap /\ setbacks' = setbacks
      /\ turn.pc = "wait" /\ turn.call = i
      /\ turn' = [turn EXCEPT !.pc = "result", !.how = "ack"]
  BY <1>0 DEF BudgetElapsed
<1> HIDE DEF u
<1>3. TasksAdvance /\ task' \in [Calls -> Tasks] /\ task'[i] = u
  BY <1>1, <1>2, OneAdvances
<1>4. /\ turn' \in Turns /\ turn'.pc = "result" /\ turn'.call = i
      /\ turn'.todo = turn.todo
  BY <1>2 DEF Turns, Hows
<1>5. Types'
  BY <1>2, <1>3, <1>4
<1>6. LogGrows /\ HastyGrows
  BY <1>2 DEF LogGrows, HastyGrows
<1>7. TurnMoves
  <2>1. turn.todo \in Seq(Calls) /\ queue \in Seq(Calls)
    BY DEF Turns
  <2>2. \A j \in Calls : task[j].pc \in Over => task'[j].pc \in Over
    BY <1>3 DEF TasksAdvance, Advances, Over
  <2>3. /\ \A n \in 1..Len(turn'.todo) : task'[turn'.todo[n]].pc \in Over
        /\ \A n \in 1..Len(queue') : task'[queue'[n]].pc \in Over
    BY <1>2, <1>4, <2>1, <2>2 DEF TurnSound, Over
  <2> QED BY <1>1, <1>2, <1>3, <1>4, <2>3 DEF TurnMoves, Running
<1>8. PassMoves
  <2>1. scan.step = "off"
    BY <1>2 DEF ScanSound
  <2> QED BY <1>2, <1>3, <1>5, <1>6, <2>1, PassAlone
<1> QED BY <1>3, <1>5, <1>6, <1>7, <1>8, StepKeeps

\* The return of the child's own task: no other task drives the child, and its
\* spawn is open.
LEMMA WriteReturnKeeps ==
    ASSUME IInv, NEW i \in Calls, WriteReturn(i)
    PROVE  IInv'
<1> USE DEF IInv, Types
<1>0. task[i] \in Tasks /\ task \in [Calls -> Tasks] /\ 0 \notin Calls
  BY DEF Calls
<1> DEFINE u == [task[i] EXCEPT !.pc = "end"]
           k == task[i].kid
<1>1. u \in Tasks /\ Advances(task[i], u) /\ u.pc = "end"
  BY <1>0 DEF WriteReturn, Tasks, Advances, Opened, Running
<1>2. /\ task' = [task EXCEPT ![i] = u] /\ turn' = turn /\ scan' = scan
      /\ gen' = gen /\ queue' = queue /\ gap' = gap /\ setbacks' = setbacks
      /\ log' = Append(log, Entry("return", 0, k, "live"))
      /\ task[i].pc = "hold"
  BY <1>0 DEF WriteReturn, Write
<1> HIDE DEF u
<1>3. TasksAdvance /\ task' \in [Calls -> Tasks] /\ task'[i] = u
  BY <1>1, <1>2, OneAdvances
<1>4. TaskSound(i) /\ k \in Kids
  BY <1>0, <1>2 DEF TaskSound, Tasks
<1>5. PICK e \in Entries : e = Entry("return", 0, k, "live")
  BY <1>4 DEF Entry, Entries, Kinds, Hows
<1>6. Harmless(e)
  <2>1. ~Newborn(k)
    BY <1>2, <1>4 DEF TaskSound, Newborn
  <2>2. EntrySound(e)
    BY <1>2, <1>4, <1>5, <2>1, <1>0, DelegatedNat
       DEF EntrySound, Entry, TaskSound, Kids
  <2>3. ASSUME k \notin gap.hasty PROVE Depth(log, k) > 0
    BY <1>2, <1>4, <2>3 DEF TaskSound, Opened
  <2>4. ASSUME k \notin gap.hasty, NEW j \in Calls, task[j].kid = k
        PROVE  task'[j].pc \notin Opened
    <3>1. CASE j = i
      BY <1>1, <1>3, <3>1 DEF Opened
    <3>2. CASE j # i
      <4>1. task'[j] = task[j]
        BY <1>2, <3>2
      <4>2. Busy(i) /\ ~Busy(j)
        BY <1>2, <2>4, <3>2 DEF OneDriver, Busy, Running
      <4> QED BY <4>1, <4>2 DEF Busy, Opened, Running
    <3> QED BY <3>1, <3>2
  <2> QED BY <1>5, <2>2, <2>3, <2>4 DEF Harmless, Entry
<1>7. Types'
  BY <1>2, <1>3, <1>5
<1>8. LogGrows /\ HastyGrows
  BY <1>2, <1>5, <1>6 DEF LogGrows, HastyGrows
<1>9. TurnMoves
  <2>1. ASSUME NEW f \in Entries, log' = Append(log, f) PROVE f.t # "result"
    <3>1. f = e
      <4>1. Append(log, f)[Len(log) + 1] = f /\ Append(log, e)[Len(log) + 1] = e
        BY <1>5
      <4> QED BY <1>2, <1>5, <2>1, <4>1
    <3> QED BY <1>5, <3>1 DEF Entry
  <2> QED BY <1>2, <1>3, <2>1, TurnAlone
<1>10. PassMoves
  <2>1. scan.step # "off" => turn'.pc = "scan"
    BY <1>2 DEF ScanSound
  <2> QED BY <1>2, <1>3, <1>7, <1>8, <2>1, PassAlone
<1> QED BY <1>3, <1>7, <1>8, <1>9, <1>10, StepKeeps

\* A crash ends every task and every pass; what the log told stays true.
LEMMA CrashKeeps ==
    ASSUME IInv, Crash
    PROVE  IInv'
<1> USE DEF IInv, Types
<1>1. /\ log' = log /\ turn' = NoTurn /\ scan' = NoScan /\ queue' = <<>>
      /\ gen' = [requested |-> 1, scanned |-> 0] /\ gap' = gap
  BY DEF Crash
<1>0. setbacks' \in Nat
  <2>1. Setback
    BY DEF Crash
  <2> QED BY <2>1 DEF Setback
<1>2. ASSUME NEW j \in Calls
      PROVE  /\ task'[j] \in Tasks
             /\ Advances(task[j], task'[j])
  <2>1. task[j] \in Tasks
    OBVIOUS
  <2>2. task'[j] = IF task[j].pc = "none" THEN NoTask
                   ELSE [NoTask EXCEPT !.pc = "end", !.kid = task[j].kid]
    BY DEF Crash
  <2>3. CASE task[j].pc = "none"
    <3>1. task[j].kid = 0
      BY <2>3 DEF TaskSound
    <3> QED BY <2>1, <2>2, <2>3, <3>1, NoneTyped
            DEF NoTask, Advances, Opened, Running
  <2>4. CASE task[j].pc # "none"
    <3>1. /\ task'[j].pc = "end" /\ task'[j].kid = task[j].kid
          /\ task'[j] \in Tasks
      BY <2>1, <2>2, <2>4 DEF NoTask, Tasks
    <3> QED BY <2>4, <3>1 DEF Advances, Opened, Running
  <2> QED BY <2>3, <2>4
<1>3. task' \in [Calls -> Tasks]
  <2>1. task' = [j \in Calls |-> task'[j]]
    BY DEF Crash
  <2> QED BY <1>2, <2>1
<1>4. TasksAdvance
  BY <1>2 DEF TasksAdvance
<1>5. Types'
  BY <1>0, <1>1, <1>3, NoneTyped
<1>6. LogGrows /\ HastyGrows
  BY <1>1 DEF LogGrows, HastyGrows
<1>7. TurnMoves
  BY <1>1 DEF TurnMoves, NoTurn
<1> QED BY <1>1, <1>4, <1>5, <1>6, <1>7, StepKeeps

-----------------------------------------------------------------------------
(* A new call, a new task, a new child. *)

\* The model delegates: the call gets a number nothing mentions yet.
LEMMA DelegateKeeps ==
    ASSUME IInv, NEW i \in Calls, Delegate(i)
    PROVE  IInv'
<1> USE DEF IInv, Types
<1>1. /\ task' = task /\ scan' = scan /\ gen' = gen /\ queue' = queue
      /\ gap' = gap /\ setbacks' = setbacks /\ turn.pc = "model"
      /\ turn' = [turn EXCEPT !.pc = "spawn", !.call = i]
      /\ log' = Append(log, Entry("call", i, 0, "none"))
  BY DEF Delegate, Write
<1>2. i = Delegated + 1 /\ Delegated \in Nat /\ i \in Nat /\ i # 0
  BY DelegatedNat, BoundsAssumption DEF Delegate, Delegated, CallsAt, At, Calls
<1>3. PICK e \in Entries : e = Entry("call", i, 0, "none")
  BY DEF Entry, Entries, Kinds, Hows
<1>4. Delegated' = i
  BY <1>1, <1>2, <1>3, DelegatedAppend DEF Entry
<1>5. /\ turn' \in Turns /\ turn'.pc = "spawn" /\ turn'.call = i
      /\ turn'.todo = turn.todo
  BY <1>1 DEF Turns
<1>6. Types'
  BY <1>1, <1>3, <1>5
<1>7. scan.step = "off"
  BY <1>1 DEF ScanSound
<1>8. \A k : Newborn(k)' <=> Newborn(k)
  BY <1>1 DEF Newborn
<1>9. \A k : Depth(log', k) = Depth(log, k)
  BY <1>1, <1>3, DepthAppend DEF Entry
<1>10. ASSUME NEW j \in Calls PROVE TaskSound(j)'
  <2>1. TaskSound(j) /\ j \in Nat
    BY BoundsAssumption DEF Calls
  <2>2. Busy(j)' <=> Busy(j)
    BY <1>1 DEF Busy
  <2>3. Newborn(task[j].kid)' <=> Newborn(task[j].kid)
    BY <1>1 DEF Newborn
  <2> QED BY <1>1, <1>2, <1>4, <1>9, <2>1, <2>2, <2>3 DEF TaskSound
<1>11. \A n \in 1..Len(log') : EntrySound(log[n])'
  <2> SUFFICES ASSUME NEW n \in 1..Len(log') PROVE EntrySound(log[n])'
    OBVIOUS
  <2>1. PICK f \in Entries : f = log'[n]
    BY <1>6
  <2>2. (n \in 1..Len(log) /\ f = log[n]) \/ f = e
    BY <1>1, <1>3, <2>1
  <2>3. EntrySound(f)'
    <3>1. CASE f = e
      BY <1>2, <1>3, <1>4, <3>1 DEF EntrySound, Entry
    <3>2. CASE n \in 1..Len(log) /\ f = log[n]
      <4>1. EntrySound(f)
        BY <3>2
      <4>2. f.c \in Nat
        BY BoundsAssumption DEF Entries, Calls
      <4> QED BY <1>1, <1>2, <1>4, <1>8, <4>1, <4>2 DEF EntrySound
    <3> QED BY <2>2, <3>1, <3>2
  <2> QED BY <2>1, <2>3, EntryAt
<1>12. TurnSound'
  <2>1. task[i].pc = "none"
    BY <1>2 DEF TaskSound
  <2>2. Results(log', i) = {}
    <3> SUFFICES ASSUME NEW n \in 1..Len(log'), log'[n].t = "result", log'[n].c = i
                 PROVE  FALSE
      BY DEF Results, At
    <3>1. (n \in 1..Len(log) /\ log'[n] = log[n]) \/ log'[n] = e
      BY <1>1, <1>3
    <3>2. log'[n] # e
      BY <1>3 DEF Entry
    <3>3. log[n].c <= Delegated
      BY <3>1, <3>2 DEF EntrySound
    <3> QED BY <1>2, <3>1, <3>2, <3>3
  <2> QED BY <1>1, <1>2, <1>4, <1>5, <2>1, <2>2 DEF TurnSound, Results, At
<1>13. ScanSound'
  <2>1. Prefix' = Prefix /\ scan'.at <= Len(log')
    BY <1>1, <1>3, PrefixKept
  <2>2. \A k \in scan'.left : Spawns(Prefix', k) # {}
    BY <1>1, <2>1 DEF ScanSound
  <2> QED BY <1>1, <1>7, <2>1, <2>2 DEF ScanSound, Spawns, At
<1>14. OneDriver'
  BY <1>1 DEF OneDriver, Busy
<1>15. OneReturnOnceBuilt'
  <2>1. e.t # "return"
    BY <1>3 DEF Entry
  <2> QED BY <1>1, <1>3, <2>1, ReturnsAdvance DEF HastyGrows
<1> QED BY <1>6, <1>10, <1>11, <1>12, <1>13, <1>14, <1>15

\* A child the model can name exists, and its own task has registered it, or a
\* pass was hasty about it.
LEMMA NamedFacts ==
    ASSUME IInv, NEW k \in Kids, Named(k)
    PROVE  task[k].pc # "none" /\ task[k].kid = k /\ ~Newborn(k)
<1> USE DEF IInv
<1>1. CASE Notices(log, k) # {}
  <2>1. PICK n \in 1..Len(log) : log[n].t = "notice" /\ log[n].k = k
    BY <1>1 DEF Notices, At
  <2>2. EntrySound(log[n]) /\ k # 0
    BY <2>1 DEF Kids, Calls
  <2> QED BY <2>1, <2>2 DEF EntrySound
<1>2. CASE Notices(log, k) = {}
  <2>1. PICK i \in Calls :
          /\ At(log, LAMBDA e : e.t = "spawn" /\ e.c = i /\ e.k = k) # {}
          /\ \E n \in Results(log, i) : log[n].how # "interrupted"
    BY <1>2 DEF Named
  <2>2. PICK n \in 1..Len(log) : /\ log[n].t = "spawn"
                                 /\ log[n].c = i /\ log[n].k = k
    BY <2>1 DEF At
  <2>3. PICK m \in 1..Len(log) : /\ log[m].t = "result" /\ log[m].c = i
                                 /\ log[m].how # "interrupted"
    BY <2>1 DEF Results, At
  <2>4. EntrySound(log[n]) /\ EntrySound(log[m]) /\ i # 0 /\ k # 0
    BY DEF Kids, Calls
  <2>5. /\ task[k].pc # "none" /\ task[k].kid = k
        /\ task[i].kid = k /\ task[i].pc # "none" /\ ~Newborn(i)
    BY <2>2, <2>3, <2>4 DEF EntrySound
  <2>6. Newborn(k) => k = i
    BY <2>5 DEF TaskSound
  <2> QED BY <2>5, <2>6
<1> QED BY <1>1, <1>2

\* A task starts: for a new child, which nobody else drives, or for one that is
\* neither registered nor claimed.
LEMMA SpawnKeeps ==
    ASSUME IInv, NEW i \in Calls, NEW k \in Kids, NEW back \in BOOLEAN,
           Spawn(i, k, back)
    PROVE  IInv'
<1> USE DEF IInv, Types
<1>1. /\ log' = log /\ scan' = scan /\ gen' = gen /\ queue' = queue
      /\ gap' = gap /\ setbacks' = setbacks /\ turn.pc = "spawn"
      /\ turn.call = i
  BY DEF Spawn
<1>2. scan.step = "off" /\ task[i].pc = "none" /\ task[i].kid = 0
  BY <1>1 DEF ScanSound, TurnSound, TaskSound
<1>3. CASE k # i /\ (Live(k) \/ Reserved(k))
  <2>1. /\ task' = task
        /\ turn' = [turn EXCEPT !.pc = "result", !.how = "refused"]
    BY <1>3 DEF Spawn
  <2>2. /\ turn' \in Turns /\ turn'.pc = "result" /\ turn'.call = turn.call
        /\ turn'.todo = turn.todo
    BY <2>1 DEF Turns, Hows
  <2> QED BY <1>1, <1>2, <2>1, <2>2, OutcomeKeeps
<1>4. CASE ~(k # i /\ (Live(k) \/ Reserved(k)))
  <2> DEFINE x == IF back THEN "notify" ELSE "undecided"
             u == [NoTask EXCEPT !.pc = "start", !.kid = k, !.back = back,
                                 !.resume = (k # i), !.ending = x]
  <2>1. /\ u.pc = "start" /\ u.kid = k /\ (u.resume <=> k # i) /\ u \in Tasks
    BY DEF NoTask, Tasks, Running
  <2>2. task' = [task EXCEPT ![i] = u] /\ turn' = [turn EXCEPT !.pc = "wait"]
    BY <1>4 DEF Spawn, NoTask
  <2> HIDE DEF u, x
  <2>3. /\ task'[i] = u /\ task' \in [Calls -> Tasks]
        /\ \A j \in Calls : j # i => task'[j] = task[j]
    BY <2>1, <2>2
  <2>4. /\ turn' \in Turns /\ turn'.pc = "wait" /\ turn'.call = i
        /\ turn'.todo = turn.todo
    BY <1>1, <2>2 DEF Turns
  <2>5. Types'
    BY <1>1, <2>3, <2>4
  <2>6. k # i => task[k].pc # "none" /\ task[k].kid = k /\ ~Newborn(k)
    BY NamedFacts DEF Spawn
  <2>7. \A j \in Calls : j # i => (Newborn(j)' <=> Newborn(j))
    BY <1>1, <2>3 DEF Newborn
  <2>8. \A j \in Calls : task[j].pc # "none" =>
            /\ task[j].kid \in Calls /\ task[j].kid # i /\ j # i
            /\ task[j].kid # 0
    BY <1>2 DEF TaskSound, Tasks, Kids, Calls
  <2>9. /\ Delegated' = Delegated /\ Delegated \in Nat /\ i <= Delegated
    BY <1>1, DelegatedNat DEF TurnSound, Delegated, CallsAt
  <2>10. ASSUME NEW j \in Calls PROVE TaskSound(j)'
    <3>1. CASE j = i
      <4>1. task'[k].pc # "none" /\ task'[k].kid = k
        BY <2>1, <2>3, <2>6 DEF Kids
      <4>2. Newborn(k)' => k = i
        BY <2>6, <2>7 DEF Kids
      <4>3. Newborn(task[i].kid)' => k = i
        BY <2>1, <2>3, <4>2 DEF Newborn
      <4>4. ~(i > Delegated') /\ k # 0
        BY <2>9, BoundsAssumption DEF Calls, Kids
      <4> QED BY <2>1, <2>3, <3>1, <4>1, <4>3, <4>4 DEF TaskSound, Opened, Busy
    <3>2. CASE j # i
      <4>1. TaskSound(j) /\ task'[j] = task[j]
        BY <2>3, <3>2
      <4>2. Busy(j)' <=> Busy(j)
        BY <4>1 DEF Busy
      <4>3. task[j].pc # "none" =>
              /\ task'[task[j].kid] = task[task[j].kid]
              /\ Newborn(task[j].kid)' => Newborn(task[j].kid)
        <5> SUFFICES ASSUME task[j].pc # "none"
                     PROVE  /\ task'[task[j].kid] = task[task[j].kid]
                            /\ Newborn(task[j].kid)' => Newborn(task[j].kid)
          OBVIOUS
        <5>1. PICK m \in Calls : m = task[j].kid /\ m # i
          BY <2>8
        <5> QED BY <2>3, <2>7, <4>1, <5>1 DEF Newborn
      <4> QED BY <1>1, <2>9, <4>1, <4>2, <4>3 DEF TaskSound
    <3> QED BY <3>1, <3>2
  <2>11. \A n \in 1..Len(log') : EntrySound(log[n])'
    <3> SUFFICES ASSUME NEW n \in 1..Len(log') PROVE EntrySound(log[n])'
      OBVIOUS
    <3>1. PICK f \in Entries : f = log'[n]
      BY <2>5
    <3>2. EntrySound(f) /\ n \in 1..Len(log) /\ f = log[n]
      BY <1>1, <3>1
    <3>3. f.c \in Calls \cup {0} /\ f.k \in Calls \cup {0} /\ i # 0
      BY DEF Entries, Kids, Calls
    <3>4. f.k # 0 => f.k # i
      BY <1>2, <3>2 DEF EntrySound
    <3>5. f.t \in {"spawn", "notice"} => f.c # i
      BY <1>2, <3>2 DEF EntrySound
    <3>6. f.t = "result" => f.c # i
      BY <1>1, <3>2 DEF TurnSound, Results, At
    <3>7. EntrySound(f)'
      BY <2>3, <2>7, <2>9, <3>2, <3>3, <3>4, <3>5, <3>6 DEF EntrySound
    <3> QED BY <3>1, <3>7, EntryAt
  <2>12. TurnSound'
    <3>1. /\ turn.todo \in Seq(Calls) /\ queue \in Seq(Calls)
      BY DEF Turns
    <3>2. \A j \in Calls : task[j].pc \in Over => task'[j].pc \in Over
      BY <1>2, <2>3 DEF Over
    <3>3. /\ \A n \in 1..Len(turn'.todo) : task'[turn'.todo[n]].pc \in Over
          /\ \A n \in 1..Len(queue') : task'[queue'[n]].pc \in Over
      BY <1>1, <2>4, <3>1, <3>2 DEF TurnSound, Over
    <3> QED BY <2>4, <2>9, <3>3 DEF TurnSound, Over
  <2>13. ScanSound'
    <3>1. Prefix' = Prefix /\ scan'.at <= Len(log')
      BY <1>1, PrefixKept
    <3>2. \A j \in scan'.left : Spawns(Prefix', j) # {}
      BY <1>1, <3>1 DEF ScanSound
    <3> QED BY <1>1, <1>2, <3>1, <3>2 DEF ScanSound, Spawns, At
  <2>14. OneDriver'
    <3>1. ASSUME NEW j \in Calls, j # i, Busy(j), task[j].kid = k
          PROVE  k \in gap.hasty
      <4>1. task[j].pc # "none"
        BY <3>1 DEF Busy, Running
      <4>2. k # i
        BY <2>8, <3>1, <4>1
      <4>3. ~Live(k) /\ ~Reserved(k) /\ ~Newborn(k)
        BY <1>4, <2>6, <4>2
      <4>4. task[j].pc \in {"start", "built"} /\ ~task[j].resume
        BY <3>1, <4>3 DEF Live, Reserved, Busy
      <4>5. j = k
        BY <3>1, <4>4 DEF TaskSound
      <4> QED BY <3>1, <4>3, <4>4, <4>5 DEF Newborn
    <3>2. ASSUME NEW j \in Calls, j # i PROVE Busy(j)' <=> Busy(j)
      BY <2>3, <3>2 DEF Busy
    <3> SUFFICES ASSUME NEW a \in Calls, NEW b \in Calls, a # b, Busy(a)', Busy(b)',
                        task'[a].kid = task'[b].kid
                 PROVE  task'[a].kid \in gap'.hasty
      BY DEF OneDriver
    <3>3. CASE a = i
      BY <1>1, <2>1, <2>3, <3>1, <3>2, <3>3
    <3>4. CASE b = i
      BY <1>1, <2>1, <2>3, <3>1, <3>2, <3>4
    <3>5. CASE a # i /\ b # i
      BY <1>1, <2>3, <3>2, <3>5 DEF OneDriver
    <3> QED BY <3>3, <3>4, <3>5
  <2>15. OneReturnOnceBuilt'
    BY <1>1, ReturnsAdvance DEF HastyGrows
  <2> QED BY <2>5, <2>10, <2>11, <2>12, <2>13, <2>14, <2>15
<1> QED BY <1>3, <1>4

\* The spawn is recorded: it is open, and the child stays a newborn until it
\* is registered.
LEMMA RecordSpawnKeeps ==
    ASSUME IInv, NEW i \in Calls, RecordSpawn(i)
    PROVE  IInv'
<1> USE DEF IInv, Types
<1>0. task[i] \in Tasks /\ task \in [Calls -> Tasks] /\ 0 \notin Calls
  BY DEF Calls
<1> DEFINE u == [task[i] EXCEPT !.pc = "built"]
           k == task[i].kid
<1>1. u \in Tasks /\ u.pc = "built" /\ u.kid = k /\ u.resume = task[i].resume
  BY <1>0 DEF Tasks, Running
<1>2. /\ task' = [task EXCEPT ![i] = u] /\ turn' = turn /\ scan' = scan
      /\ gen' = gen /\ queue' = queue /\ gap' = gap /\ setbacks' = setbacks
      /\ log' = Append(log, Entry("spawn", i, k, "none"))
      /\ task[i].pc = "start"
  BY <1>0 DEF RecordSpawn, Write
<1> HIDE DEF u
<1>3. /\ task'[i] = u /\ task' \in [Calls -> Tasks]
      /\ \A j \in Calls : j # i => task'[j] = task[j]
  BY <1>0, <1>1, <1>2
<1>4. TaskSound(i) /\ k \in Kids /\ k # 0 /\ i # 0 /\ i <= Delegated
  BY <1>0, <1>2, DelegatedNat, BoundsAssumption DEF TaskSound, Tasks, Calls, Kids
<1>5. PICK e \in Entries : e = Entry("spawn", i, k, "none")
  BY <1>4 DEF Entry, Entries, Kinds, Hows, Kids
<1>6. Types'
  BY <1>2, <1>3, <1>5
<1>7. Delegated' = Delegated
  BY <1>2, <1>5, DelegatedAppend DEF Entry
<1>8. \A j \in Calls : /\ task'[j].kid = task[j].kid
                       /\ task'[j].resume = task[j].resume
                       /\ Busy(j)' <=> Busy(j)
                       /\ task'[j].pc = "none" <=> task[j].pc = "none"
                       /\ Newborn(j)' <=> Newborn(j)
  BY <1>1, <1>2, <1>3 DEF Busy, Newborn
<1>9. ASSUME NEW j \in Kids
      PROVE  Depth(log', j) = IF j = k THEN Depth(log, j) + 1 ELSE Depth(log, j)
  BY <1>2, <1>5, DepthAppend DEF Entry
<1>10. ASSUME NEW j \in Calls PROVE TaskSound(j)'
  <2>1. TaskSound(j) /\ task[j].kid \in Calls \cup {0}
    BY DEF Tasks, Kids
  <2>2. task[j].pc # "none" =>
          /\ task'[task[j].kid].pc # "none"
          /\ task'[task[j].kid].kid = task[j].kid
          /\ Newborn(task[j].kid)' => task[j].kid = j
    <3> SUFFICES ASSUME task[j].pc # "none"
                 PROVE  /\ task'[task[j].kid].pc # "none"
                        /\ task'[task[j].kid].kid = task[j].kid
                        /\ Newborn(task[j].kid)' => task[j].kid = j
      OBVIOUS
    <3>1. PICK m \in Calls : m = task[j].kid
      BY <2>1 DEF TaskSound
    <3> QED BY <1>8, <2>1, <3>1 DEF TaskSound, Newborn
  <2>3. (task'[j].pc \in Opened /\ task[j].kid \notin gap.hasty)
           => Depth(log', task[j].kid) > 0
    <3> SUFFICES ASSUME task'[j].pc \in Opened, task[j].kid \notin gap.hasty
                 PROVE  Depth(log', task[j].kid) > 0
      OBVIOUS
    <3>1. PICK m \in Kids : m = task[j].kid
      BY <1>8, <2>1 DEF TaskSound, Opened, Kids
    <3>2. Depth(log, m) \in Nat
      BY DepthNat
    <3>3. CASE j = i
      BY <1>9, <3>1, <3>2, <3>3
    <3>4. CASE j # i
      BY <1>3, <1>9, <2>1, <3>1, <3>2, <3>4 DEF TaskSound
    <3> QED BY <3>3, <3>4
  <2> QED BY <1>2, <1>7, <1>8, <2>1, <2>2, <2>3 DEF TaskSound
<1>11. \A n \in 1..Len(log') : EntrySound(log[n])'
  <2> SUFFICES ASSUME NEW n \in 1..Len(log') PROVE EntrySound(log[n])'
    OBVIOUS
  <2>1. PICK f \in Entries : f = log'[n]
    BY <1>6
  <2>2. (n \in 1..Len(log) /\ f = log[n]) \/ f = e
    BY <1>2, <1>5, <2>1
  <2>3. EntrySound(f)'
    <3>1. CASE f = e
      <4>1. task'[k].pc # "none" /\ task'[k].kid = k
        BY <1>2, <1>4, <1>8 DEF TaskSound, Kids
      <4> QED BY <1>1, <1>3, <1>4, <1>5, <1>7, <3>1, <4>1 DEF EntrySound, Entry
    <3>2. CASE n \in 1..Len(log) /\ f = log[n]
      <4>1. EntrySound(f)
        BY <3>2
      <4>2. f.c \in Calls \cup {0} /\ f.k \in Calls \cup {0}
        BY DEF Entries, Kids
      <4>3. f.t \in {"spawn", "notice"} => f.c # i
        BY <1>2, <4>1 DEF EntrySound
      <4> QED BY <1>3, <1>7, <1>8, <4>1, <4>2, <4>3 DEF EntrySound
    <3> QED BY <2>2, <3>1, <3>2
  <2> QED BY <2>1, <2>3, EntryAt
<1>12. TurnSound'
  <2>1. /\ turn.todo \in Seq(Calls) /\ queue \in Seq(Calls)
        /\ turn.call \in Calls \cup {0}
    BY DEF Turns
  <2>2. \A j \in Calls : task[j].pc \in Over => task'[j].pc \in Over
    BY <1>2, <1>3 DEF Over
  <2>3. /\ \A n \in 1..Len(turn'.todo) : task'[turn'.todo[n]].pc \in Over
        /\ \A n \in 1..Len(queue') : task'[queue'[n]].pc \in Over
    BY <1>2, <2>1, <2>2 DEF TurnSound, Over
  <2>4. turn.pc = "spawn" => Results(log', turn.call) = {}
    <3> SUFFICES ASSUME turn.pc = "spawn", NEW n \in 1..Len(log'),
                        log'[n].t = "result", log'[n].c = turn.call
                 PROVE  FALSE
      BY DEF Results, At
    <3>1. (n \in 1..Len(log) /\ log'[n] = log[n]) \/ log'[n] = e
      BY <1>2, <1>5
    <3>2. log'[n] # e
      BY <1>5 DEF Entry
    <3> QED BY <3>1, <3>2 DEF TurnSound, Results, At
  <2>5. \A j \in Calls : task[j].pc \notin {"start", "built"}
                            => task'[j].pc \notin {"start", "built"}
    BY <1>2, <1>3
  <2> QED BY <1>2, <1>7, <1>8, <2>1, <2>3, <2>4, <2>5
          DEF TurnSound, Over, Results, At
<1>13. ScanSound'
  <2>1. Prefix' = Prefix /\ scan'.at <= Len(log')
    BY <1>2, <1>5, PrefixKept
  <2>2. /\ \A j \in Kids : (Newborn(j)' /\ Spawns(Prefix, j) # {} /\ scan.step # "off")
                              => Depth(Prefix, j) > 0
    BY <1>8 DEF ScanSound, Kids
  <2>3. scan.step = "record" => ~Newborn(scan.cur)'
    <3> SUFFICES ASSUME scan.step = "record" PROVE ~Newborn(scan.cur)'
      OBVIOUS
    <3>1. PICK m \in Calls : m = scan.cur
      BY DEF Scans, ScanSound, Kids
    <3> QED BY <1>2, <1>8, <3>1 DEF ScanSound, Newborn
  <2>4. scan.step = "return" =>
         \/ scan.cur \in gap.hasty
         \/ \A j \in Calls : task'[j].kid = scan.cur => ~Busy(j)'
    BY <1>8 DEF ScanSound
  <2> QED BY <1>2, <2>1, <2>2, <2>3, <2>4 DEF ScanSound, Spawns, At, Busy
<1>14. OneDriver'
  BY <1>2, <1>8 DEF OneDriver
<1>15. OneReturnOnceBuilt'
  <2>1. e.t # "return"
    BY <1>5 DEF Entry
  <2> QED BY <1>2, <1>5, <2>1, ReturnsAdvance DEF HastyGrows
<1> QED BY <1>6, <1>10, <1>11, <1>12, <1>13, <1>14, <1>15

-----------------------------------------------------------------------------
(* The reconciliation pass. *)

\* A spawn record names its child's task, which for a newborn is the child's
\* own and has left the start.
LEMMA SpawnedFacts ==
    ASSUME IInv, NEW k \in Kids, NEW n \in 1..Len(log),
           log[n].t = "spawn", log[n].k = k
    PROVE  /\ log[n].c \in Calls /\ log[n].c <= Delegated
           /\ task[log[n].c].kid = k
           /\ task[log[n].c].pc \notin {"none", "start"}
           /\ task[k].pc # "none" /\ task[k].kid = k
           /\ Newborn(k) => log[n].c = k /\ task[k].pc = "built"
<1>1. EntrySound(log[n]) /\ log[n] \in Entries /\ k # 0
  BY DEF IInv, Types, Kids, Calls
<1>2. /\ log[n].c \in Calls /\ task[log[n].c].kid = k
      /\ task[log[n].c].pc \notin {"none", "start"}
      /\ task[k].pc # "none" /\ task[k].kid = k /\ log[n].c <= Delegated
  BY <1>1 DEF EntrySound, Entries
<1>3. Newborn(k) => log[n].c = k
  BY <1>2 DEF IInv, TaskSound
<1>4. Newborn(k) => task[k].pc = "built"
  BY <1>2, <1>3 DEF Newborn
<1> QED BY <1>2, <1>3, <1>4

\* A pass reads the log: a newborn whose spawn is in it has it open.
LEMMA ScanReadKeeps ==
    ASSUME IInv, ScanRead
    PROVE  IInv'
<1> USE DEF IInv, Types
<1>1. /\ log' = log /\ task' = task /\ turn' = turn /\ gen' = gen
      /\ queue' = queue /\ gap' = gap /\ setbacks' = setbacks
      /\ turn.pc = "scan"
      /\ scan' = [NoScan EXCEPT !.at = Len(log), !.gen = gen.requested,
                                !.step = "read"]
  BY DEF ScanRead
<1>2. /\ scan' \in Scans /\ scan'.at = Len(log) /\ scan'.step = "read"
      /\ scan'.left = {}
  <2>1. Len(log) \in Nat /\ gen.requested \in Nat
    OBVIOUS
  <2>2. scan' = [at |-> Len(log), gen |-> gen.requested, left |-> {}, cur |-> 0,
                 step |-> "read", ok |-> TRUE]
    BY <1>1 DEF NoScan
  <2> QED BY <2>1, <2>2 DEF Scans
<1>3. Types'
  BY <1>1, <1>2
<1>4. ScanSound'
  <2>1. Prefix' = log
    BY <1>1, <1>2 DEF Prefix
  <2>2. ASSUME NEW k \in Kids, Newborn(k)', Spawns(Prefix', k) # {}
        PROVE  Depth(Prefix', k) > 0
    <3>1. Newborn(k)
      BY <1>1, <2>2 DEF Newborn
    <3>2. PICK n \in 1..Len(log) : log[n].t = "spawn" /\ log[n].k = k
      BY <2>1, <2>2 DEF Spawns, At
    <3>3. task[k].pc = "built" /\ task[k].kid = k /\ k \notin gap.hasty
      BY <3>1, <3>2, SpawnedFacts DEF Newborn
    <3> QED BY <2>1, <3>3 DEF TaskSound, Opened, Kids
  <2>3. scan'.at <= Len(log')
    BY <1>1, <1>2
  <2> QED BY <1>1, <1>2, <2>2, <2>3 DEF ScanSound, Spawns, At
<1>5. TasksAdvance /\ LogGrows /\ HastyGrows
  BY <1>1, TasksStay DEF LogGrows, HastyGrows
<1>6. \A e \in Entries : turn.pc = "spawn" => e.t # "result"
  BY <1>1
<1>7. TurnMoves
  BY <1>1, <1>5, <1>6, TurnAlone
<1>8. OneReturnOnceBuilt'
  BY <1>1, ReturnsAdvance DEF HastyGrows
<1>9. \A n \in 1..Len(log') : EntrySound(log[n])'
  BY <1>3, <1>5, EntriesAdvance
<1> QED BY <1>3, <1>4, <1>5, <1>7, <1>8, <1>9, TasksStaySound, TurnAdvances,
           DriversAdvance

\* A step of the pass that leaves the log and the tasks.
LEMMA PassOnly ==
    ASSUME IInv, log' = log, task' = task, turn' = turn, turn.pc = "scan",
           gen' = gen, queue' = queue, setbacks' \in Nat, scan' \in Scans,
           gap' \in [spilt : SUBSET Calls, hasty : SUBSET Kids,
                     unreturned : SUBSET Calls],
           HastyGrows, PassMoves
    PROVE  IInv'
<1>1. Types'
  BY DEF IInv, Types
<1>2. TasksAdvance /\ LogGrows
  BY TasksStay DEF LogGrows
<1>3. TurnMoves
  <2>1. turn.pc = "spawn" =>
          \A e \in Entries : log' = Append(log, e) => e.t # "result"
    OBVIOUS
  <2> QED BY <1>2, <2>1, TurnAlone
<1> QED BY <1>1, <1>2, <1>3, StepKeeps

\* The children to judge: those not running that the log owes something about.
LEMMA ScanLiveKeeps ==
    ASSUME IInv, ScanLive
    PROVE  IInv'
<1> USE DEF IInv, Types
<1> DEFINE S == {k \in Kids : ~Live(k) /\ OwedRecord(Prefix, k) # "none"}
<1>1. /\ log' = log /\ task' = task /\ turn' = turn /\ gen' = gen
      /\ queue' = queue /\ gap' = gap /\ setbacks' = setbacks
      /\ scan.step = "read" /\ scan' = [scan EXCEPT !.step = "pick", !.left = S]
  BY DEF ScanLive
<1>2. S \subseteq Kids
  OBVIOUS
<1>3. \A k \in S : Spawns(Prefix, k) # {}
  BY DEF OwedRecord
<1> HIDE DEF S
<1>4. /\ scan' \in Scans /\ scan'.at = scan.at /\ scan'.step = "pick"
      /\ scan'.left = S
  BY <1>1, <1>2 DEF Scans
<1>5. turn.pc = "scan"
  BY <1>1 DEF ScanSound
<1>6. PassMoves
  BY <1>1, <1>3, <1>4, <1>5 DEF PassMoves
<1> QED BY <1>1, <1>4, <1>5, <1>6, PassOnly DEF HastyGrows

\* The pass turns to a child: one without an open spawn in the prefix is no
\* newborn.
LEMMA ScanPickKeeps ==
    ASSUME IInv, NEW k \in Kids, ScanPick(k)
    PROVE  IInv'
<1> USE DEF IInv, Types
<1>1. /\ log' = log /\ task' = task /\ turn' = turn /\ gen' = gen
      /\ queue' = queue /\ gap' = gap /\ setbacks' = setbacks
      /\ scan.step = "pick" /\ k \in scan.left
  BY DEF ScanPick
<1>2. turn.pc = "scan" /\ Spawns(Prefix, k) # {} /\ k # 0
  BY <1>1 DEF ScanSound, Kids, Calls
<1>3. \/ /\ scan' = [scan EXCEPT !.left = @ \ {k}, !.cur = k, !.step = "record"]
         /\ ~HasOpenSpawn(Prefix, k)
      \/ scan' = [scan EXCEPT !.left = @ \ {k}, !.ok = FALSE]
      \/ scan' = [scan EXCEPT !.left = @ \ {k}, !.cur = k, !.step = "check"]
  BY DEF ScanPick
<1>4. ~HasOpenSpawn(Prefix, k) => ~Newborn(k)
  BY <1>1, <1>2 DEF HasOpenSpawn, ScanSound
<1>5. /\ scan' \in Scans /\ scan'.at = scan.at /\ scan'.left = scan.left \ {k}
      /\ \/ scan'.step = "record" /\ scan'.cur = k /\ ~Newborn(k)
         \/ scan'.step = "pick"
         \/ scan'.step = "check" /\ scan'.cur = k
  <2>1. CASE /\ scan' = [scan EXCEPT !.left = @ \ {k}, !.cur = k, !.step = "record"]
             /\ ~HasOpenSpawn(Prefix, k)
    BY <1>4, <2>1 DEF Scans
  <2>2. CASE scan' = [scan EXCEPT !.left = @ \ {k}, !.ok = FALSE]
    BY <1>1, <2>2 DEF Scans
  <2>3. CASE scan' = [scan EXCEPT !.left = @ \ {k}, !.cur = k, !.step = "check"]
    BY <2>3 DEF Scans
  <2> QED BY <1>3, <2>1, <2>2, <2>3
<1>6. PassMoves
  <2>1. \A j \in scan'.left : Spawns(Prefix, j) # {}
    BY <1>5 DEF ScanSound
  <2>2. scan'.step = "record" => ~Newborn(scan.cur)'
    BY <1>1, <1>5 DEF Newborn
  <2> QED BY <1>1, <1>2, <1>5, <2>1, <2>2 DEF PassMoves
<1> QED BY <1>1, <1>2, <1>5, <1>6, PassOnly DEF HastyGrows

\* The pass drops the child it is at.
LEMMA PickedFacts ==
    ASSUME IInv, NEW ok \in BOOLEAN, scan' = Picked(ok)
    PROVE  /\ scan' \in Scans /\ scan'.at = scan.at /\ scan'.left = scan.left
           /\ scan'.step = "pick"
BY DEF Picked, Scans, IInv, Types

\* A child judged while a task drives it counts as hasty.
LEMMA ScanCheckKeeps ==
    ASSUME IInv, ScanCheck
    PROVE  IInv'
<1> USE DEF IInv, Types
<1>1. /\ log' = log /\ task' = task /\ turn' = turn /\ gen' = gen
      /\ queue' = queue /\ setbacks' = setbacks /\ scan.step = "check"
  BY DEF ScanCheck
<1>2. turn.pc = "scan" /\ scan.cur \in Kids /\ Spawns(Prefix, scan.cur) # {}
  BY <1>1 DEF ScanSound, Scans
<1>3. CASE Live(scan.cur)
  <2>1. scan' = Picked(FALSE) /\ gap' = gap
    BY <1>3 DEF ScanCheck
  <2>2. /\ scan' \in Scans /\ scan'.at = scan.at /\ scan'.left = scan.left
        /\ scan'.step = "pick"
    BY <2>1, PickedFacts
  <2>3. PassMoves
    BY <1>1, <1>2, <2>2 DEF PassMoves, ScanSound
  <2> QED BY <1>1, <1>2, <2>1, <2>2, <2>3, PassOnly DEF HastyGrows
<1>4. CASE ~Live(scan.cur)
  <2> DEFINE S == {k \in {scan.cur} : \E i \in Calls : task[i].kid = k /\ Busy(i)}
  <2>1. scan' = [scan EXCEPT !.step = "return"]
    BY <1>4 DEF ScanCheck
  <2>2. gap' = [gap EXCEPT !.hasty = @ \cup S]
    BY <1>4 DEF ScanCheck
  <2>3. S \subseteq Kids
    BY <1>2
  <2>4. scan.cur \in S \/ \A i \in Calls : task[i].kid = scan.cur => ~Busy(i)
    OBVIOUS
  <2> HIDE DEF S
  <2>5. /\ gap' \in [spilt : SUBSET Calls, hasty : SUBSET Kids,
                     unreturned : SUBSET Calls]
        /\ gap'.hasty = gap.hasty \cup S
    BY <2>2, <2>3
  <2>6. /\ scan' \in Scans /\ scan'.at = scan.at /\ scan'.left = scan.left
        /\ scan'.step = "return" /\ scan'.cur = scan.cur
    BY <2>1 DEF Scans
  <2>7. PassMoves
    <3>1. \A i \in Calls : Busy(i)' <=> Busy(i)
      BY <1>1 DEF Busy
    <3> QED BY <1>1, <1>2, <2>4, <2>5, <2>6, <3>1
            DEF PassMoves, ScanSound, Kids, Calls
  <2> QED BY <1>1, <1>2, <2>5, <2>6, <2>7, PassOnly DEF HastyGrows
<1> QED BY <1>3, <1>4

\* A write of the pass fails.
LEMMA ScanWriteFailsKeeps ==
    ASSUME IInv, ScanWriteFails
    PROVE  IInv'
<1> USE DEF IInv, Types
<1>1. /\ log' = log /\ task' = task /\ turn' = turn /\ gen' = gen
      /\ queue' = queue /\ gap' = gap /\ setbacks' \in Nat
      /\ scan.step \in {"return", "record"} /\ scan' = Picked(FALSE)
  BY DEF ScanWriteFails, Setback
<1>2. /\ scan' \in Scans /\ scan'.at = scan.at /\ scan'.left = scan.left
      /\ scan'.step = "pick"
  BY <1>1, PickedFacts
<1>3. turn.pc = "scan"
  BY <1>1 DEF ScanSound
<1>4. PassMoves
  BY <1>1, <1>2, <1>3 DEF PassMoves, ScanSound
<1> QED BY <1>1, <1>2, <1>3, <1>4, PassOnly DEF HastyGrows

\* The pass appends a record.
LEMMA PassWrites ==
    ASSUME IInv, NEW e \in Entries, log' = Append(log, e), Harmless(e),
           task' = task, turn' = turn, turn.pc = "scan", gen' = gen,
           queue' = queue, gap' = gap, setbacks' = setbacks, scan' \in Scans,
           PassMoves
    PROVE  IInv'
<1>1. Types'
  BY DEF IInv, Types
<1>2. TasksAdvance /\ LogGrows /\ HastyGrows
  BY TasksStay DEF LogGrows, HastyGrows
<1>3. TurnMoves
  <2>1. turn.pc = "spawn" =>
          \A f \in Entries : log' = Append(log, f) => f.t # "result"
    OBVIOUS
  <2> QED BY <1>2, <2>1, TurnAlone
<1> QED BY <1>1, <1>2, <1>3, StepKeeps

\* The return a pass writes closes a spawn that is open when it is written, of
\* a child no task drives.
LEMMA ScanReturnKeeps ==
    ASSUME IInv, ScanReturn
    PROVE  IInv'
<1> USE DEF IInv, Types
<1>1. /\ task' = task /\ turn' = turn /\ gen' = gen /\ queue' = queue
      /\ gap' = gap /\ setbacks' = setbacks /\ scan.step = "return"
  BY DEF ScanReturn
<1>2. /\ turn.pc = "scan" /\ scan.cur \in Kids /\ scan.cur # 0
      /\ Spawns(Prefix, scan.cur) # {}
  BY <1>1 DEF ScanSound, Scans
<1>3. CASE ~Settles(scan.cur)
  <2>1. log' = log /\ scan' = Picked(TRUE)
    BY <1>3 DEF ScanReturn
  <2>2. /\ scan' \in Scans /\ scan'.at = scan.at /\ scan'.left = scan.left
        /\ scan'.step = "pick"
    BY <2>1, PickedFacts
  <2>3. PassMoves
    BY <1>1, <1>2, <2>2 DEF PassMoves, ScanSound
  <2> QED BY <1>1, <1>2, <2>1, <2>2, <2>3, PassOnly DEF HastyGrows
<1>4. CASE Settles(scan.cur)
  <2>1. /\ log' = Append(log, Entry("return", 0, scan.cur, "orphan"))
        /\ scan' = [scan EXCEPT !.step = "record"]
    BY <1>4 DEF ScanReturn, Write
  <2>2. /\ scan' \in Scans /\ scan'.at = scan.at /\ scan'.left = scan.left
        /\ scan'.step = "record" /\ scan'.cur = scan.cur
    BY <2>1 DEF Scans
  <2>3. PICK k \in Kids : k = scan.cur
    BY <1>2
  <2>4. PICK e \in Entries : e = Entry("return", 0, k, "orphan")
    BY DEF Entry, Entries, Kinds, Hows
  <2>5. PICK n \in 1..Len(log) : log[n].t = "spawn" /\ log[n].k = k
    BY <1>2, <2>3, CallOfFacts DEF Prefix, Scans, ScanSound
  <2>6. task[k].pc # "none" /\ task[k].kid = k
    BY <2>5, SpawnedFacts
  <2>7. k \in gap.hasty \/ \A i \in Calls : task[i].kid = k => ~Busy(i)
    BY <1>1, <2>3 DEF ScanSound
  <2>8. ~Newborn(k)
    BY <2>6, <2>7 DEF Newborn, Busy, Kids
  <2>9. Harmless(e)
    <3>1. EntrySound(e)
      BY <1>2, <2>3, <2>4, <2>6, <2>8, DelegatedNat DEF EntrySound, Entry
    <3>2. Depth(log, k) > 0
      BY <1>4, <2>3 DEF Settles, HasOpenSpawn
    <3>3. k \notin gap.hasty =>
            \A i \in Calls : task[i].kid = k => task'[i].pc \notin Opened
      BY <1>1, <2>7 DEF Busy, Opened, Running
    <3> QED BY <2>4, <3>1, <3>2, <3>3 DEF Harmless, Entry
  <2>10. PassMoves
    <3>1. ~Newborn(scan.cur)'
      BY <1>1, <2>2, <2>3, <2>8 DEF Newborn
    <3> QED BY <1>1, <1>2, <2>2, <3>1 DEF PassMoves, ScanSound
  <2> QED BY <1>1, <1>2, <2>1, <2>2, <2>3, <2>4, <2>9, <2>10, PassWrites
<1> QED BY <1>3, <1>4

\* The record the model is owed is of a child that is no newborn, and of the
\* call that spawned it.
LEMMA ScanRecordKeeps ==
    ASSUME IInv, ScanRecord
    PROVE  IInv'
<1> USE DEF IInv, Types
<1>1. /\ task' = task /\ turn' = turn /\ gen' = gen /\ queue' = queue
      /\ gap' = gap /\ setbacks' = setbacks /\ scan.step = "record"
      /\ scan' = Picked(TRUE)
  BY DEF ScanRecord
<1>2. /\ turn.pc = "scan" /\ scan.cur \in Kids /\ scan.cur # 0
      /\ Spawns(Prefix, scan.cur) # {} /\ ~Newborn(scan.cur)
  BY <1>1 DEF ScanSound, Scans
<1>3. /\ scan' \in Scans /\ scan'.at = scan.at /\ scan'.left = scan.left
      /\ scan'.step = "pick"
  BY <1>1, PickedFacts
<1>4. PassMoves
  BY <1>1, <1>2, <1>3 DEF PassMoves, ScanSound
<1>5. PICK k \in Kids : k = scan.cur
  BY <1>2
<1>6. PICK n \in 1..Len(log) : /\ log[n].t = "spawn" /\ log[n].k = k
                               /\ log[n].c = CallOf(Prefix, k)
  BY <1>2, <1>5, CallOfFacts DEF Prefix, Scans, ScanSound
<1>7. PICK c \in Calls : c = CallOf(Prefix, k)
  BY <1>6, SpawnedFacts
<1>8. /\ c <= Delegated /\ task[c].kid = k /\ task[c].pc \notin {"none", "start"}
      /\ task[k].pc # "none" /\ task[k].kid = k
  BY <1>6, <1>7, SpawnedFacts
<1>9. ~Newborn(k) /\ ~Newborn(c) /\ c # 0 /\ k # 0
  BY <1>2, <1>5, <1>8 DEF Newborn, Calls
<1>10. \/ log' = log
       \/ log' = Append(log, Entry("result", c, 0, "orphan"))
       \/ log' = Append(log, Entry("notice", c, k, "none"))
  BY <1>5, <1>7 DEF ScanRecord, Write
<1>11. CASE log' = log
  BY <1>1, <1>2, <1>3, <1>4, <1>11, PassOnly DEF HastyGrows
<1>12. CASE log' = Append(log, Entry("result", c, 0, "orphan"))
  <2>1. PICK e \in Entries : e = Entry("result", c, 0, "orphan")
    BY DEF Entry, Entries, Kinds, Hows
  <2>2. Harmless(e)
    BY <1>8, <1>9, <2>1 DEF Harmless, EntrySound, Entry
  <2> QED BY <1>1, <1>2, <1>3, <1>4, <1>12, <2>1, <2>2, PassWrites
<1>13. CASE log' = Append(log, Entry("notice", c, k, "none"))
  <2>1. PICK e \in Entries : e = Entry("notice", c, k, "none")
    BY DEF Entry, Entries, Kinds, Hows
  <2>2. Harmless(e)
    BY <1>8, <1>9, <2>1 DEF Harmless, EntrySound, Entry
  <2> QED BY <1>1, <1>2, <1>3, <1>4, <1>13, <2>1, <2>2, PassWrites
<1> QED BY <1>10, <1>11, <1>12, <1>13

-----------------------------------------------------------------------------
(* The theorems. *)

\* The invariant holds at the start.
LEMMA InitInvariant == Init => IInv
<1> SUFFICES ASSUME Init PROVE IInv
  OBVIOUS
<1>1. /\ log = <<>> /\ task = [i \in Calls |-> NoTask] /\ turn = NoTurn
      /\ scan = NoScan /\ gen = [requested |-> 1, scanned |-> 0] /\ queue = <<>>
      /\ gap = [spilt |-> {}, hasty |-> {}, unreturned |-> {}] /\ setbacks = 0
  BY DEF Init
<1>2. Types
  <2>1. <<>> \in Seq(Entries) /\ <<>> \in Seq(Calls)
    OBVIOUS
  <2> QED BY <1>1, <2>1, NoneTyped DEF Types
<1>3. Delegated = 0 /\ Len(log) = 0
  <2>1. CallsAt(log) = {} /\ Len(log) = 0
    BY <1>1 DEF CallsAt
  <2> QED BY <2>1, FS_EmptySet DEF Delegated
<1>4. ASSUME NEW i \in Calls PROVE TaskSound(i)
  <2>1. task[i].pc = "none" /\ task[i].kid = 0
    BY <1>1 DEF NoTask
  <2> QED BY <2>1 DEF TaskSound, Busy, Running, Opened
<1>5. TurnSound
  BY <1>1, <1>3 DEF TurnSound, NoTurn
<1>6. ScanSound
  BY <1>1, <1>3 DEF ScanSound, NoScan
<1>7. OneDriver
  BY <1>1 DEF OneDriver, Busy, Running, NoTask
<1>8. OneReturnOnceBuilt
  BY <1>3 DEF OneReturnOnceBuilt, Returns, At
<1> QED BY <1>2, <1>3, <1>4, <1>5, <1>6, <1>7, <1>8 DEF IInv

\* Every step keeps it.
LEMMA StepInvariant == IInv /\ [Next]_vars => IInv'
<1> SUFFICES ASSUME IInv, [Next]_vars PROVE IInv'
  OBVIOUS
<1>1. CASE Enter \/ NotificationTurn
  BY <1>1, EnterKeeps
<1>2. CASE TurnStep
  <2>1. CASE Reconcile \/ TakeNotices \/ AppendNotice \/ Finish \/ AppendResult
    BY <2>1, ReconcileKeeps, TakeNoticesKeeps, AppendNoticeKeeps, EnterKeeps,
       AppendResultKeeps
  <2>2. ASSUME NEW i \in Calls,
               \/ Delegate(i) \/ Launched(i) \/ Joined(i) \/ Released(i)
               \/ \E k \in Kids, back \in BOOLEAN : Spawn(i, k, back)
        PROVE  IInv'
    BY <2>2, DelegateKeeps, WaitEndsKeeps, SpawnKeeps
  <2>3. CASE \/ ScanRead \/ ScanLive \/ ScanCheck \/ ScanReturn \/ ScanRecord
             \/ ScanEnd
    BY <2>3, ScanReadKeeps, ScanLiveKeeps, ScanCheckKeeps, ScanReturnKeeps,
       ScanRecordKeeps, ScanEndKeeps
  <2>4. ASSUME NEW k \in Kids, ScanPick(k) PROVE IInv'
    BY <2>4, ScanPickKeeps
  <2> QED BY <1>2, <2>1, <2>2, <2>3, <2>4 DEF TurnStep
<1>3. CASE Clear
  BY <1>3, ClearKeeps
<1>4. CASE Fault
  <2>1. CASE StopTurn \/ DropTurn \/ TurnFails \/ ScanReadFails
    BY <2>1, WaitEndsKeeps, TurnLostKeeps, ScanEndKeeps
  <2>2. CASE ScanWriteFails \/ Crash
    BY <2>2, ScanWriteFailsKeeps, CrashKeeps
  <2>3. ASSUME NEW i \in Calls, SpawnFails(i) \/ ReturnFails(i) PROVE IInv'
    BY <2>3, TaskStepsKeep
  <2> QED BY <1>4, <2>1, <2>2, <2>3 DEF Fault
<1>5. ASSUME NEW i \in Calls, TaskStep(i) \/ Handover(i) \/ BudgetElapsed(i)
      PROVE  IInv'
  BY <1>5, RecordSpawnKeeps, TaskStepsKeep, WriteReturnKeeps, BudgetKeeps
     DEF TaskStep
<1>6. CASE UNCHANGED vars
  <2>1. /\ log' = log
        /\ task' = task
        /\ turn' = turn
        /\ scan' = scan
        /\ gen' = gen
        /\ queue' = queue /\ gap' = gap /\ setbacks' = setbacks
    BY <1>6 DEF vars
  <2>2. Delegated' = Delegated /\ Prefix' = Prefix
    BY <2>1 DEF Delegated, CallsAt, Prefix
  <2>3. Types'
    BY <2>1 DEF IInv, Types
  <2>4. TasksAdvance /\ LogGrows /\ HastyGrows
    BY <2>1, TasksStay DEF LogGrows, HastyGrows
  <2>5. TurnSound' /\ ScanSound'
    BY <2>1, <2>2
       DEF IInv, TurnSound, ScanSound, Newborn, Busy, Results, Spawns, At
  <2>6. OneReturnOnceBuilt'
    BY <2>1, <2>4, ReturnsAdvance DEF IInv, HastyGrows
  <2>7. \A n \in 1..Len(log') : EntrySound(log[n])'
    BY <2>1, <2>3, <2>4, EntriesAdvance DEF IInv
  <2>8. (\A i \in Calls : TaskSound(i)') /\ OneDriver'
    BY <2>1, <2>3, <2>4, TasksStaySound, DriversAdvance
  <2> QED BY <2>3, <2>5, <2>6, <2>7, <2>8 DEF IInv
<1> QED BY <1>1, <1>2, <1>3, <1>4, <1>5, <1>6 DEF Next

\* IInv is an invariant of the delegation, whatever the number of calls and of
\* setbacks.
THEOREM Invariance == Spec => []IInv
BY InitInvariant, StepInvariant, PTL DEF Spec

\* The types of the variables, and a generation nobody requested is never
\* counted as scanned.
THEOREM TypeCorrect == Spec => []TypeOK
<1>1. IInv => TypeOK
  <2> SUFFICES ASSUME IInv PROVE TypeOK
    OBVIOUS
  <2>1. \A n \in 1..Len(log) : log[n] \in Entries
    BY DEF IInv, Types
  <2>2. task \in [Calls -> Tasks] /\ turn \in Turns /\ scan \in Scans
    BY DEF IInv, Types
  <2>3. gen.scanned <= gen.requested
    BY DEF IInv, Types
  <2>4. turn.pc \in {"idle", "scan", "reconcile", "boundary", "notices", "model",
                    "spawn", "wait", "result"}
    BY <2>2 DEF Turns
  <2>5. scan.step \in {"off", "read", "pick", "check", "return", "record"}
    BY <2>2 DEF Scans
  <2> QED BY <2>1, <2>2, <2>3, <2>4, <2>5, Zenon DEF TypeOK, Entries, Hows, Tasks
<1> QED BY <1>1, Invariance, PTL

\* One child is never driven by two tasks, whoever dropped the turn that started
\* the first and whatever a restart left in the log, unless a pass judged the
\* child while it was being built.
THEOREM DrivenByOne == Spec => []OneDriver
<1>1. IInv => OneDriver
  BY DEF IInv
<1> QED BY <1>1, Invariance, PTL

\* Every return record closes a spawn that was open when it was written, with
\* the same exception: a live ending and a pass never both write one.
THEOREM ReturnsClose == Spec => []OneReturnOnceBuilt
<1>1. IInv => OneReturnOnceBuilt
  BY DEF IInv
<1> QED BY <1>1, Invariance, PTL

-----------------------------------------------------------------------------
(* One report per ending.  A notice is written while the log owes one, and  *)
(* after the spawn it reports; so between two notices of one child lies a   *)
(* clear or a later spawn.  An ending that the waiting call returned has    *)
(* its return in the log before the answer, unless the return failed, and   *)
(* then a pass that reads the log owes the model nothing.                   *)

Spawned(i) == \E m \in 1..Len(log) : log[m].t = "spawn" /\ log[m].c = i

\* The return of call i's child, written by its task before position r.
ReturnedBefore(i, r) ==
    \E s, n \in 1..Len(log) :
        /\ s < n /\ n < r
        /\ log[s].t = "spawn" /\ log[s].c = i
        /\ log[n].t = "return" /\ log[n].k = task[i].kid /\ log[n].how = "live"
Returned(i) == i \in gap.unreturned \/ ReturnedBefore(i, Len(log) + 1)

IsAnswer(e) == e.t = "result" /\ e.how = "answer"

SpawnOnce ==
    \A m, n \in 1..Len(log) :
        log[m].t = "spawn" /\ log[n].t = "spawn" /\ log[m].c = log[n].c => m = n

\* Every notice follows the spawn it reports, and two of one child are apart.
NoticesApart ==
    /\ \A n \in 1..Len(log) : log[n].t = "notice" =>
         \E m \in 1..Len(log) : m < n /\ log[m].t = "spawn" /\ log[m].c = log[n].c
    /\ \A n, o \in 1..Len(log) :
         n < o /\ log[n].t = "notice" /\ log[o].t = "notice" /\ log[n].k = log[o].k =>
           \E m \in 1..Len(log) :
              /\ n < m /\ m < o
              /\ log[m].t = "clear" \/ (log[m].t = "spawn" /\ log[m].k = log[n].k)

\* An ending that the waiting call returned.
AnswerSound(r) ==
    LET i == log[r].c
    IN /\ i # 0 /\ task[i].pc = "end" /\ task[i].ending # "notify"
       /\ \A n \in 1..Len(log) : log[n].t = "result" /\ log[n].c = i => r <= n
       /\ \A n \in 1..Len(log) : log[n].t = "call" /\ log[n].c = i => n < r
       /\ Plain(i) => i \in gap.unreturned \/ ReturnedBefore(i, r)
       /\ Plain(i) /\ NoticesOf(i) # {} => i \in gap.unreturned

LogReports ==
    /\ SpawnOnce /\ NoticesApart
    /\ \A r \in 1..Len(log) : IsAnswer(log[r]) => AnswerSound(r)

\* What is queued, or taken to be appended, is the ending of a run that was
\* recorded and handed to the notice.
QueueReports ==
    /\ \A i \in Calls : task[i].pc \in Opened => Spawned(i)
    /\ \A n \in 1..Len(queue) : Spawned(queue[n]) /\ task[queue[n]].ending = "notify"
    /\ \A n \in 1..Len(turn.todo) :
         Spawned(turn.todo[n]) /\ task[turn.todo[n]].ending = "notify"

\* A call that is being carried out has told the model nothing; while it waits,
\* nobody else writes its child's return.
TurnReports ==
    /\ turn.pc \in {"spawn", "wait", "result"} =>
         /\ turn.call # 0
         /\ Results(log, turn.call) = {} /\ NoticesOf(turn.call) = {}
    /\ (turn.pc = "wait" /\ task[turn.call].pc = "end" /\ ~task[turn.call].refused
          /\ Plain(turn.call)) => Returned(turn.call)
    /\ (turn.pc = "result" /\ turn.how = "answer") =>
         /\ task[turn.call].pc = "end" /\ task[turn.call].ending # "notify"
         /\ Plain(turn.call) => Returned(turn.call)

\* The pass holds a child only while it judges one that its prefix owes a record.
PassReports ==
    /\ scan.step \notin {"check", "return", "record"} => scan.cur = 0
    /\ scan.step # "off" =>
         \A r \in 1..Len(log) : IsAnswer(log[r]) => r <= scan.at
    /\ \A k \in scan.left : OwedRecord(Prefix, k) # "none"
    /\ scan.cur # 0 => OwedRecord(Prefix, scan.cur) # "none"

RInv == IInv /\ LogReports /\ QueueReports /\ TurnReports /\ PassReports

\* Newest of a bounded set of numbers is its greatest, or zero.
LEMMA NewestIs ==
    ASSUME NEW L \in Nat, NEW S \in SUBSET (1..L)
    PROVE  /\ S = {} => Newest(S) = 0
           /\ S # {} => Newest(S) \in S /\ \A m \in S : m <= Newest(S)
<1>1. S = {} => Newest(S) = 0
  BY DEF Newest
<1>2. ASSUME S # {} PROVE Newest(S) \in S /\ \A m \in S : m <= Newest(S)
  <2> DEFINE T == {n \in Nat : \A m \in S : m <= n}
  <2>1. L \in T
    OBVIOUS
  <2>2. PICK x \in T : \A y \in T : x <= y
    <3> HIDE DEF T
    <3>1. T \in SUBSET Nat
      BY DEF T
    <3> QED BY <2>1, <3>1, LeastOf
  <2>3. x \in S
    <3> SUFFICES ASSUME x \notin S PROVE FALSE
      OBVIOUS
    <3>0. PICK m \in S : m \in S
      BY <1>2
    <3>1. m \in Nat /\ m >= 1 /\ m <= x /\ x \in Nat
      BY <2>2
    <3>2. x - 1 \in Nat /\ \A y \in S : y <= x - 1
      BY <2>2, <3>1
    <3>3. x - 1 \in T
      BY <3>2
    <3> QED BY <2>2, <3>2, <3>3
  <2>4. \A m \in S : m <= x
    BY <2>2
  <2> HIDE DEF T
  <2>5. \E n \in S : \A m \in S : m <= n
    BY <2>3, <2>4
  <2> QED BY <1>2, <2>5 DEF Newest
<1> QED BY <1>1, <1>2

\* A log with one spawn of a child, and a return behind it, has none open.
LEMMA LoneDepth ==
    ASSUME NEW p \in Seq(Entries), NEW k,
           NEW s \in Spawns(p, k), \A n \in Spawns(p, k) : n = s,
           NEW q \in Returns(p, k), s < q
    PROVE  Depth(p, k) = 0
<1> DEFINE S == Spawns(p, k)
           R == Returns(p, k)
           L == Len(p)
           f == CHOOSE h : Counts(S, R, L, h)
           Good(n) == /\ f[n] \in {0, 1}
                      /\ n < s \/ q <= n => f[n] = 0
           Bad == {n \in 0..L : ~Good(n)}
<1>1. L \in Nat /\ s \in 1..L /\ q \in 1..L
  BY DEF Spawns, Returns, At
<1>2. Depth(p, k) = f[L]
  BY DepthCounts
<1>3. S = {s} /\ q \in R /\ s \notin R
  BY DEF Spawns, Returns, At
<1>4. Counts(S, R, L, f)
  <2> HIDE DEF S, R, L
  <2>1. \E h : Counts(S, R, L, h)
    BY <1>1, CountsExist
  <2> QED BY <2>1
<1> HIDE DEF S, R, L, f
<1>5. /\ f[0] = 0
      /\ \A n \in 1..L : f[n] = IF n \in S THEN f[n - 1] + 1
                                ELSE IF n \in R /\ f[n - 1] > 0 THEN f[n - 1] - 1
                                ELSE f[n - 1]
  BY <1>1, <1>4, CountsAt
<1>6. Bad = {}
  <2> SUFFICES ASSUME Bad # {} PROVE FALSE
    OBVIOUS
  <2>1. PICK n \in Bad : \A y \in Bad : n <= y
    <3>1. Bad \in SUBSET Nat
      BY <1>1
    <3> HIDE DEF Bad
    <3> QED BY <3>1, LeastOf
  <2>2. n # 0
    BY <1>1, <1>5, <2>1
  <2>3. n \in 1..L /\ n - 1 \in 0..L /\ n - 1 \notin Bad
    BY <1>1, <2>1, <2>2
  <2>4. Good(n - 1)
    BY <2>3
  <2>5. PICK v : v = f[n - 1]
    OBVIOUS
  <2>6. v \in {0, 1} /\ (n - 1 < s \/ q <= n - 1 => v = 0)
    BY <2>4, <2>5
  <2>7. f[n] = IF n = s THEN v + 1 ELSE IF n \in R /\ v > 0 THEN v - 1 ELSE v
    BY <1>3, <1>5, <2>3, <2>5
  <2>8. Good(n)
    <3>1. CASE n = s
      BY <1>1, <2>3, <2>6, <2>7, <3>1
    <3>2. CASE n # s /\ n = q
      BY <1>1, <1>3, <2>3, <2>6, <2>7, <3>2
    <3>3. CASE n # s /\ n # q
      BY <1>1, <2>3, <2>6, <2>7, <3>3
    <3> QED BY <3>1, <3>2, <3>3
  <2> QED BY <2>1, <2>8
<1>7. Good(L)
  BY <1>1, <1>6
<1> QED BY <1>1, <1>2, <1>7

\* A notice is owed only behind a clear or a spawn that follows the last one.
LEMMA NoticeApart ==
    ASSUME NEW p \in Seq(Entries), NEW k, NoticePending(p, k), NEW n \in Notices(p, k)
    PROVE  \E m \in 1..Len(p) :
              /\ n < m
              /\ p[m].t = "clear" \/ (p[m].t = "spawn" /\ p[m].k = k)
<1> DEFINE C == At(p, LAMBDA e : e.t = "clear")
           N == {m \in Notices(p, k) : m > Epoch(p)}
           S == {m \in Spawns(p, k) : m > Epoch(p)}
<1>1. Len(p) \in Nat /\ C \in SUBSET (1..Len(p))
  BY DEF At
<1>2. N \in SUBSET (1..Len(p)) /\ S \in SUBSET (1..Len(p))
  BY DEF Notices, Spawns, At
<1>3. N = {} \/ Newest(N) < Newest(S)
  BY DEF NoticePending
<1>4. n \in 1..Len(p) /\ p[n].t = "notice"
  BY DEF Notices, At
<1>5. Epoch(p) = Newest(C)
  BY DEF Epoch
<1>6. \A m \in C : p[m].t = "clear"
  BY DEF At
<1>7. \A m \in S : p[m].t = "spawn" /\ p[m].k = k
  BY DEF Spawns, At
<1>8. CASE n > Epoch(p)
  <2>1. n \in N
    BY <1>8
  <2> HIDE DEF N, S, C
  <2>2. Newest(N) \in N /\ n <= Newest(N)
    BY <1>1, <1>2, <2>1, NewestIs
  <2>3. S # {}
    <3> SUFFICES ASSUME S = {} PROVE FALSE
      OBVIOUS
    <3>1. Newest(S) = 0
      BY <1>1, <1>2, NewestIs
    <3>2. PICK o \in N : o = Newest(N)
      BY <2>2
    <3>3. o < 0 /\ o \in 1..Len(p)
      BY <1>2, <1>3, <2>1, <3>1, <3>2
    <3> QED BY <1>1, <3>3
  <2>4. Newest(S) \in S
    BY <1>1, <1>2, <2>3, NewestIs
  <2>5. PICK m : m = Newest(S)
    OBVIOUS
  <2>6. PICK o : o = Newest(N)
    OBVIOUS
  <2>7. m \in S /\ o \in N /\ n <= o /\ o < m
    BY <1>3, <2>1, <2>2, <2>4, <2>5, <2>6
  <2>8. m \in 1..Len(p) /\ o \in 1..Len(p)
    BY <1>2, <2>7
  <2>9. n < m
    BY <1>4, <2>7, <2>8
  <2> QED BY <1>7, <2>7, <2>8, <2>9
<1>9. CASE ~(n > Epoch(p))
  <2> HIDE DEF C
  <2>1. C # {}
    <3> SUFFICES ASSUME C = {} PROVE FALSE
      OBVIOUS
    <3>1. Newest(C) = 0
      BY <1>1, NewestIs
    <3> QED BY <1>4, <1>5, <1>9, <3>1
  <2>2. Newest(C) \in C
    BY <1>1, <2>1, NewestIs
  <2>3. PICK m \in C : m = Epoch(p)
    BY <1>5, <2>2
  <2>4. m \in 1..Len(p) /\ p[m].t = "clear"
    BY <1>1, <1>6, <2>3
  <2>5. n # m
    BY <1>4, <2>4
  <2>6. n < m
    BY <1>4, <1>9, <2>3, <2>4, <2>5
  <2> QED BY <2>4, <2>6
<1> QED BY <1>8, <1>9

HasAnswer(i) == \E r \in 1..Len(log) : IsAnswer(log[r]) /\ log[r].c = i

\* What every step leaves: the records, the child of a call, an ending that is
\* over, and what was counted against a child or a call.
Steady ==
    /\ log' = log \/ \E e \in Entries : log' = Append(log, e)
    /\ \A j \in Calls : task[j].pc # "none" => task'[j].kid = task[j].kid
    /\ \A j \in Calls : task[j].pc = "end" =>
         task'[j].pc = "end" /\ (task'[j].ending = "notify" => task[j].ending = "notify")
    /\ gap.hasty \subseteq gap'.hasty /\ gap.unreturned \subseteq gap'.unreturned

\* What a record may say when it is written.
Sayable(e) ==
    /\ e.t = "spawn" => ~Spawned(e.c)
    /\ e.t = "notice" =>
         /\ Spawned(e.c) /\ NoticePending(log, e.k)
         /\ Plain(e.c) /\ HasAnswer(e.c) => e.c \in gap.unreturned
    /\ IsAnswer(e) =>
         /\ e.c # 0 /\ task[e.c].pc = "end" /\ task[e.c].ending # "notify"
         /\ Results(log, e.c) = {} /\ NoticesOf(e.c) = {}
         /\ Plain(e.c) => Returned(e.c)
    /\ e.t = "call" => \A n \in 1..Len(log) : log[n].c # e.c

\* The records of a step, old and new.
LEMMA LogGrown ==
    ASSUME Types, Steady
    PROVE  /\ Len(log) \in Nat /\ Len(log') \in Nat /\ Len(log) <= Len(log')
           /\ \A n \in 1..Len(log) : n \in 1..Len(log') /\ log'[n] = log[n]
           /\ \A n \in 1..Len(log') : n \in 1..Len(log) \/ n = Len(log) + 1
           /\ Len(log) + 1 \notin 1..Len(log)
<1>1. log \in Seq(Entries)
  BY DEF Types
<1>2. CASE log' = log
  BY <1>1, <1>2
<1>3. ASSUME NEW e \in Entries, log' = Append(log, e)
      PROVE  /\ Len(log') = Len(log) + 1
             /\ \A n \in 1..Len(log) : log'[n] = log[n]
  BY <1>1, <1>3
<1> QED BY <1>1, <1>2, <1>3 DEF Steady

\* A child that nobody else continues now had nobody else before.
LEMMA PlainBefore ==
    ASSUME IInv, Steady, NEW i \in Calls, task[i].pc # "none", Plain(i)'
    PROVE  Plain(i)
<1>1. \A j \in Calls : task[j].pc = "none" <=> task[j].kid = 0
  BY DEF IInv, TaskSound
<1>2. task'[i].kid = task[i].kid
  BY DEF Steady
<1>3. ASSUME NEW j \in Calls, task[j].kid = task[i].kid PROVE j = i
  <2>1. task'[j].kid = task[j].kid
    BY <1>1, <1>3 DEF Steady
  <2> QED BY <1>2, <1>3, <2>1 DEF Plain
<1> QED BY <1>2, <1>3 DEF Plain, Steady

\* What was written before a position stays written before it.
LEMMA ReturnStays ==
    ASSUME Types, Steady, NEW i \in Calls, task[i].pc # "none",
           NEW r, ReturnedBefore(i, r)
    PROVE  ReturnedBefore(i, r)'
<1>1. PICK s \in 1..Len(log), n \in 1..Len(log) :
         /\ s < n /\ n < r
         /\ log[s].t = "spawn" /\ log[s].c = i
         /\ log[n].t = "return" /\ log[n].k = task[i].kid /\ log[n].how = "live"
  BY DEF ReturnedBefore
<1>2. /\ s \in 1..Len(log') /\ n \in 1..Len(log')
      /\ log'[s] = log[s] /\ log'[n] = log[n]
  BY LogGrown
<1>3. task'[i].kid = task[i].kid
  BY DEF Steady
<1> QED BY <1>1, <1>2, <1>3 DEF ReturnedBefore

\* An answer stays sound.
LEMMA AnswerStays ==
    ASSUME RInv, Types', Steady, NEW r \in 1..Len(log), IsAnswer(log[r]),
           \A n \in 1..Len(log') : n \notin 1..Len(log) => Sayable(log'[n])
    PROVE  AnswerSound(r)'
<1>1. Types
  BY DEF RInv, IInv
<1>2. /\ Len(log) \in Nat /\ Len(log') \in Nat /\ Len(log) <= Len(log')
      /\ \A n \in 1..Len(log) : n \in 1..Len(log') /\ log'[n] = log[n]
      /\ \A n \in 1..Len(log') : n \in 1..Len(log) \/ n = Len(log) + 1
  BY <1>1, LogGrown
<1>3. PICK i : i = log[r].c
  OBVIOUS
<1>4. /\ i # 0 /\ task[i].pc = "end" /\ task[i].ending # "notify"
      /\ \A n \in 1..Len(log) : log[n].t = "result" /\ log[n].c = i => r <= n
      /\ \A n \in 1..Len(log) : log[n].t = "call" /\ log[n].c = i => n < r
      /\ Plain(i) => i \in gap.unreturned \/ ReturnedBefore(i, r)
      /\ Plain(i) /\ NoticesOf(i) # {} => i \in gap.unreturned
  BY <1>3 DEF RInv, LogReports, AnswerSound
<1>5. i \in Calls
  <2>1. log[r] \in Entries
    BY <1>1 DEF Types
  <2> QED BY <1>3, <1>4, <2>1 DEF Entries
<1>6. task'[i].pc = "end" /\ task'[i].ending # "notify" /\ task[i].pc # "none"
  BY <1>4, <1>5 DEF Steady
<1>7. ASSUME NEW n \in 1..Len(log'), log'[n].t = "result", log'[n].c = i PROVE r <= n
  BY <1>2, <1>4, <1>7
<1>8. ASSUME NEW n \in 1..Len(log'), log'[n].t = "call", log'[n].c = i PROVE n < r
  <2>1. n \in 1..Len(log)
    BY <1>3, <1>8 DEF Sayable
  <2> QED BY <1>2, <1>4, <1>8, <2>1
<1>9. ASSUME Plain(i)'
      PROVE  i \in gap'.unreturned \/ ReturnedBefore(i, r)'
  <2>1. Plain(i)
    BY <1>5, <1>6, <1>9, PlainBefore DEF RInv
  <2>2. CASE i \in gap.unreturned
    BY <2>2 DEF Steady
  <2>3. CASE ReturnedBefore(i, r)
    BY <1>1, <1>5, <1>6, <2>3, ReturnStays
  <2> QED BY <1>4, <2>1, <2>2, <2>3
<1>10. ASSUME Plain(i)', NoticesOf(i)' # {} PROVE i \in gap'.unreturned
  <2>1. Plain(i)
    BY <1>5, <1>6, <1>10, PlainBefore DEF RInv
  <2>2. PICK n \in 1..Len(log') : log'[n].t = "notice" /\ log'[n].c = i
    BY <1>10 DEF NoticesOf, At
  <2>3. CASE n \in 1..Len(log)
    <3>1. NoticesOf(i) # {}
      BY <1>2, <2>2, <2>3 DEF NoticesOf, At
    <3> QED BY <1>4, <2>1, <3>1 DEF Steady
  <2>4. CASE n \notin 1..Len(log)
    <3>1. HasAnswer(i)
      BY <1>3 DEF HasAnswer
    <3> QED BY <2>1, <2>2, <2>4, <3>1 DEF Sayable, Steady
  <2> QED BY <2>3, <2>4
<1>11. log'[r].c = i
  BY <1>2, <1>3
<1> QED BY <1>4, <1>6, <1>7, <1>8, <1>9, <1>10, <1>11 DEF AnswerSound

\* A new answer is sound.
LEMMA AnswerWritten ==
    ASSUME RInv, Types', Steady, NEW r \in 1..Len(log'), r \notin 1..Len(log),
           IsAnswer(log'[r]), Sayable(log'[r])
    PROVE  AnswerSound(r)'
<1>1. Types
  BY DEF RInv, IInv
<1>2. /\ Len(log) \in Nat /\ Len(log') \in Nat /\ Len(log) <= Len(log')
      /\ \A n \in 1..Len(log) : n \in 1..Len(log') /\ log'[n] = log[n]
      /\ \A n \in 1..Len(log') : n \in 1..Len(log) \/ n = Len(log) + 1
  BY <1>1, LogGrown
<1>3. r = Len(log) + 1
  BY <1>2
<1>4. PICK i : i = log'[r].c
  OBVIOUS
<1>5. /\ i # 0 /\ task[i].pc = "end" /\ task[i].ending # "notify"
      /\ Results(log, i) = {} /\ NoticesOf(i) = {}
      /\ Plain(i) => Returned(i)
  BY <1>4 DEF Sayable
<1>6. i \in Calls
  <2>1. log' \in Seq(Entries)
    BY DEF Types
  <2>2. log'[r] \in Entries
    BY <2>1
  <2> QED BY <1>4, <1>5, <2>2 DEF Entries
<1>7. task'[i].pc = "end" /\ task'[i].ending # "notify" /\ task[i].pc # "none"
  BY <1>5, <1>6 DEF Steady
<1>8. /\ \A n \in 1..Len(log) : ~(log[n].t = "result" /\ log[n].c = i)
      /\ \A n \in 1..Len(log) : ~(log[n].t = "notice" /\ log[n].c = i)
  BY <1>5 DEF Results, NoticesOf, At
<1>9. ASSUME NEW n \in 1..Len(log'), log'[n].t = "result", log'[n].c = i PROVE r <= n
  <2>1. n = r
    BY <1>2, <1>3, <1>8, <1>9
  <2> QED BY <1>2, <1>3, <2>1
<1>10. ASSUME NEW n \in 1..Len(log'), log'[n].t = "call", log'[n].c = i PROVE n < r
  <2>1. n # r
    BY <1>10 DEF IsAnswer
  <2> QED BY <1>2, <1>3, <2>1
<1>11. ASSUME Plain(i)' PROVE i \in gap'.unreturned \/ ReturnedBefore(i, r)'
  <2>1. Plain(i)
    BY <1>6, <1>7, <1>11, PlainBefore DEF RInv
  <2>2. CASE i \in gap.unreturned
    BY <2>2 DEF Steady
  <2>3. CASE ReturnedBefore(i, r)
    BY <1>1, <1>6, <1>7, <2>3, ReturnStays
  <2> QED BY <1>3, <1>5, <2>1, <2>2, <2>3 DEF Returned
<1>12. NoticesOf(i)' = {}
  <2>1. log'[r].t # "notice"
    BY DEF IsAnswer
  <2> QED BY <1>2, <1>3, <1>8, <2>1 DEF NoticesOf, At
<1> QED BY <1>4, <1>5, <1>7, <1>9, <1>10, <1>11, <1>12 DEF AnswerSound

\* The log stays sound when what is written may be said.
LEMMA LogReported ==
    ASSUME RInv, Types', Steady,
           \A n \in 1..Len(log') : n \notin 1..Len(log) => Sayable(log'[n])
    PROVE  LogReports'
<1>1. Types
  BY DEF RInv, IInv
<1>2. /\ Len(log) \in Nat /\ Len(log') \in Nat /\ Len(log) <= Len(log')
      /\ \A n \in 1..Len(log) : n \in 1..Len(log') /\ log'[n] = log[n]
      /\ \A n \in 1..Len(log') : n \in 1..Len(log) \/ n = Len(log) + 1
      /\ Len(log) + 1 \notin 1..Len(log)
  BY <1>1, LogGrown
<1>3. SpawnOnce'
  <2> SUFFICES ASSUME NEW m \in 1..Len(log'), NEW n \in 1..Len(log'),
                      log'[m].t = "spawn", log'[n].t = "spawn", log'[m].c = log'[n].c
               PROVE  m = n
    BY DEF SpawnOnce
  <2>1. CASE m \in 1..Len(log) /\ n \in 1..Len(log)
    BY <1>2, <2>1 DEF RInv, LogReports, SpawnOnce
  <2>2. CASE m \in 1..Len(log) /\ n \notin 1..Len(log)
    BY <1>2, <2>2 DEF Sayable, Spawned
  <2>3. CASE m \notin 1..Len(log) /\ n \in 1..Len(log)
    BY <1>2, <2>3 DEF Sayable, Spawned
  <2>4. CASE m \notin 1..Len(log) /\ n \notin 1..Len(log)
    BY <1>2, <2>4
  <2> QED BY <2>1, <2>2, <2>3, <2>4
<1>4. ASSUME NEW n \in 1..Len(log'), log'[n].t = "notice"
      PROVE  \E m \in 1..Len(log') : m < n /\ log'[m].t = "spawn" /\ log'[m].c = log'[n].c
  <2>1. CASE n \in 1..Len(log)
    <3>1. log'[n] = log[n] /\ log[n].t = "notice"
      BY <1>2, <1>4, <2>1
    <3>2. PICK m \in 1..Len(log) : m < n /\ log[m].t = "spawn" /\ log[m].c = log[n].c
      BY <2>1, <3>1 DEF RInv, LogReports, NoticesApart
    <3>3. m \in 1..Len(log') /\ log'[m] = log[m]
      BY <1>2
    <3> QED BY <3>1, <3>2, <3>3
  <2>2. CASE n \notin 1..Len(log)
    <3>1. Spawned(log'[n].c) /\ n = Len(log) + 1
      BY <1>2, <1>4, <2>2 DEF Sayable
    <3>2. PICK m \in 1..Len(log) : log[m].t = "spawn" /\ log[m].c = log'[n].c
      BY <3>1 DEF Spawned
    <3>3. m \in 1..Len(log') /\ log'[m] = log[m] /\ m < n
      BY <1>2, <3>1
    <3> QED BY <3>2, <3>3
  <2> QED BY <2>1, <2>2
<1>5. ASSUME NEW n \in 1..Len(log'), NEW o \in 1..Len(log'), n < o,
             log'[n].t = "notice", log'[o].t = "notice", log'[n].k = log'[o].k
      PROVE  \E m \in 1..Len(log') :
                /\ n < m /\ m < o
                /\ log'[m].t = "clear" \/ (log'[m].t = "spawn" /\ log'[m].k = log'[n].k)
  <2>1. n \in 1..Len(log) /\ log'[n] = log[n]
    BY <1>2, <1>5
  <2>2. CASE o \in 1..Len(log)
    <3>1. log'[o] = log[o]
      BY <1>2, <2>2
    <3>2. PICK m \in 1..Len(log) :
             /\ n < m /\ m < o
             /\ log[m].t = "clear" \/ (log[m].t = "spawn" /\ log[m].k = log[n].k)
      BY <1>5, <2>1, <2>2, <3>1 DEF RInv, LogReports, NoticesApart
    <3>3. m \in 1..Len(log') /\ log'[m] = log[m]
      BY <1>2
    <3> QED BY <2>1, <3>2, <3>3
  <2>3. CASE o \notin 1..Len(log)
    <3>1. NoticePending(log, log'[o].k) /\ o = Len(log) + 1
      BY <1>2, <1>5, <2>3 DEF Sayable
    <3>2. PICK k : k = log'[o].k
      OBVIOUS
    <3>3. n \in Notices(log, k)
      BY <1>5, <2>1, <3>2 DEF Notices, At
    <3>4. log \in Seq(Entries) /\ NoticePending(log, k)
      BY <1>1, <3>1, <3>2 DEF Types
    <3>5. PICK m \in 1..Len(log) :
             n < m /\ (log[m].t = "clear" \/ (log[m].t = "spawn" /\ log[m].k = k))
      BY <3>3, <3>4, NoticeApart
    <3>6. m \in 1..Len(log') /\ log'[m] = log[m] /\ m < o
      BY <1>2, <3>1
    <3> QED BY <1>5, <3>2, <3>5, <3>6
  <2> QED BY <2>2, <2>3
<1>6. ASSUME NEW r \in 1..Len(log'), IsAnswer(log'[r]) PROVE AnswerSound(r)'
  <2>1. CASE r \in 1..Len(log)
    <3>1. IsAnswer(log[r])
      BY <1>2, <1>6, <2>1
    <3> QED BY <2>1, <3>1, AnswerStays
  <2>2. CASE r \notin 1..Len(log)
    BY <1>6, <2>2, AnswerWritten
  <2> QED BY <2>1, <2>2
<1>7. NoticesApart'
  BY <1>4, <1>5 DEF NoticesApart
<1>8. \A r \in 1..Len(log') : IsAnswer(log[r])' => AnswerSound(r)'
  BY <1>6 DEF IsAnswer
<1> QED BY <1>3, <1>7, <1>8 DEF LogReports, IsAnswer

\* A spawn that was recorded stays recorded, and so does a return.
LEMMA RecordsStay ==
    ASSUME Types, Steady, NEW i \in Calls
    PROVE  /\ Spawned(i) => Spawned(i)'
           /\ task[i].pc # "none" /\ Returned(i) => Returned(i)'
<1>1. /\ Len(log) \in Nat /\ Len(log') \in Nat /\ Len(log) <= Len(log')
      /\ \A n \in 1..Len(log) : n \in 1..Len(log') /\ log'[n] = log[n]
  BY LogGrown
<1>2. Spawned(i) => Spawned(i)'
  BY <1>1 DEF Spawned
<1>3. ASSUME task[i].pc # "none", ReturnedBefore(i, Len(log) + 1)
      PROVE  ReturnedBefore(i, Len(log) + 1)'
  <2>1. PICK s \in 1..Len(log), n \in 1..Len(log) :
           /\ s < n /\ n < Len(log) + 1
           /\ log[s].t = "spawn" /\ log[s].c = i
           /\ log[n].t = "return" /\ log[n].k = task[i].kid /\ log[n].how = "live"
    BY <1>3 DEF ReturnedBefore
  <2>2. /\ s \in 1..Len(log') /\ n \in 1..Len(log')
        /\ log'[s] = log[s] /\ log'[n] = log[n] /\ n < Len(log') + 1
    BY <1>1
  <2>3. task'[i].kid = task[i].kid
    BY <1>3 DEF Steady
  <2> QED BY <2>1, <2>2, <2>3 DEF ReturnedBefore
<1> QED BY <1>2, <1>3 DEF Returned, Steady

\* The queue stays sound: what is in it was there, or is such an ending.
LEMMA QueueReported ==
    ASSUME RInv, Types', Steady,
           \A i \in Calls : task'[i].pc \in Opened => task[i].pc \in Opened \/ Spawned(i)',
           \A i \in Calls :
              task[i].pc \in Over /\ task[i].ending = "notify" => task'[i].ending = "notify",
           \A n \in 1..Len(queue') :
              \/ \E m \in 1..Len(queue) : queue'[n] = queue[m]
              \/ Spawned(queue[n])' /\ task'[queue'[n]].ending = "notify",
           \A n \in 1..Len(turn'.todo) :
              \/ \E m \in 1..Len(queue) : turn'.todo[n] = queue[m]
              \/ \E m \in 1..Len(turn.todo) : turn'.todo[n] = turn.todo[m]
    PROVE  QueueReports'
<1>1. Types
  BY DEF RInv, IInv
<1>2. queue \in Seq(Calls) /\ turn.todo \in Seq(Calls)
  BY <1>1 DEF Types, Turns
<1>3. ASSUME NEW i \in Calls,
             \/ \E m \in 1..Len(queue) : i = queue[m]
             \/ \E m \in 1..Len(turn.todo) : i = turn.todo[m]
      PROVE  Spawned(i)' /\ task'[i].ending = "notify"
  <2>1. Spawned(i) /\ task[i].ending = "notify"
    BY <1>3 DEF RInv, QueueReports
  <2>2. task[i].pc \in Over
    BY <1>3 DEF RInv, IInv, TurnSound, Over
  <2> QED BY <1>1, <2>1, <2>2, RecordsStay
<1>4. \A i \in Calls : task'[i].pc \in Opened => Spawned(i)'
  BY <1>1, RecordsStay DEF RInv, QueueReports
<1>5. queue' \in Seq(Calls) /\ turn'.todo \in Seq(Calls)
  BY DEF Types, Turns
<1>6. ASSUME NEW n \in 1..Len(queue')
      PROVE  Spawned(queue[n])' /\ task'[queue'[n]].ending = "notify"
  <2>1. PICK i \in Calls : i = queue'[n]
    BY <1>5
  <2>2. (\E m \in 1..Len(queue) : i = queue[m]) => Spawned(i)' /\ task'[i].ending = "notify"
    BY <1>3
  <2> QED BY <2>1, <2>2 DEF Spawned
<1>7. ASSUME NEW n \in 1..Len(turn'.todo)
      PROVE  Spawned(turn.todo[n])' /\ task'[turn'.todo[n]].ending = "notify"
  <2>1. PICK i \in Calls : i = turn'.todo[n]
    BY <1>5
  <2>2. Spawned(i)' /\ task'[i].ending = "notify"
    BY <1>3, <2>1
  <2> QED BY <2>1, <2>2 DEF Spawned
<1> QED BY <1>4, <1>6, <1>7 DEF QueueReports

\* No call is being carried out afterwards.
LEMMA TurnElsewhere ==
    ASSUME turn'.pc \notin {"spawn", "wait", "result"} PROVE TurnReports'
BY DEF TurnReports

\* A pass that is left alone, and one that is over.
LEMMA PassLeft ==
    ASSUME RInv, Steady,
           \/ scan' = NoScan
           \/ /\ scan' = scan
              /\ \/ scan.step = "off"
                 \/ \A n \in 1..Len(log') : n \notin 1..Len(log) => ~IsAnswer(log'[n])
    PROVE  PassReports'
<1>1. CASE scan' = NoScan
  BY <1>1 DEF PassReports, NoScan
<1>2. CASE scan' = scan
  <2>1. Prefix' = Prefix
    BY <1>2, PrefixKept DEF RInv, Steady
  <2>2. ASSUME scan.step # "off", NEW r \in 1..Len(log'), IsAnswer(log'[r])
        PROVE  r <= scan.at
    <3>1. CASE r \in 1..Len(log)
      <4>1. log'[r] = log[r]
        BY <3>1, LogGrown DEF RInv, IInv
      <4> QED BY <2>2, <3>1, <4>1 DEF RInv, PassReports
    <3>2. CASE r \notin 1..Len(log)
      BY <1>2, <2>2, <3>2 DEF NoScan
    <3> QED BY <3>1, <3>2
  <2>3. \A k : OwedRecord(Prefix', k) = OwedRecord(Prefix, k)
    BY <2>1
  <2> QED BY <1>2, <2>1, <2>2 DEF RInv, PassReports, IsAnswer
<1> QED BY <1>1, <1>2

\* A step of the turn alone.
LEMMA TurnAloneReports ==
    ASSUME RInv, IInv', log' = log, task' = task, queue' \in {queue, <<>>},
           gap'.hasty = gap.hasty, gap'.unreturned = gap.unreturned,
           scan' \in {scan, NoScan}, turn'.todo \in {<<>>, turn.todo, queue},
           TurnReports'
    PROVE  RInv'
<1>1. Types' /\ Steady
  BY DEF IInv, Steady
<1>2. LogReports'
  BY <1>1, LogReported
<1>3. QueueReports'
  <2>1. /\ \A n \in 1..Len(queue') : \E m \in 1..Len(queue) : queue'[n] = queue[m]
        /\ \A n \in 1..Len(turn'.todo) :
              \/ \E m \in 1..Len(queue) : turn'.todo[n] = queue[m]
              \/ \E m \in 1..Len(turn.todo) : turn'.todo[n] = turn.todo[m]
    OBVIOUS
  <2> QED BY <1>1, <2>1, QueueReported
<1>4. PassReports'
  BY <1>1, PassLeft
<1> QED BY <1>2, <1>3, <1>4 DEF RInv

\* A step of the turn that writes a record.
LEMMA TurnWriteReports ==
    ASSUME RInv, IInv', NEW e \in Entries, log' = Append(log, e), Sayable(e),
           UNCHANGED <<task, queue, gap, scan>>,
           scan.step = "off" \/ ~IsAnswer(e),
           \A n \in 1..Len(turn'.todo) : \E m \in 1..Len(turn.todo) : turn'.todo[n] = turn.todo[m],
           TurnReports'
    PROVE  RInv'
<1>1. Types /\ Types' /\ Steady
  BY DEF RInv, IInv, Steady
<1>2. \A n \in 1..Len(log') : n \notin 1..Len(log) => log'[n] = e
  BY <1>1 DEF Types
<1>3. LogReports'
  BY <1>1, <1>2, LogReported
<1>4. QueueReports'
  <2>1. \A n \in 1..Len(queue') : \E m \in 1..Len(queue) : queue'[n] = queue[m]
    OBVIOUS
  <2> QED BY <1>1, <2>1, QueueReported
<1>5. PassReports'
  BY <1>1, <1>2, PassLeft
<1> QED BY <1>3, <1>4, <1>5 DEF RInv

\* A step of a task: whoever waits for it finds its return written.
LEMMA TaskMoveReports ==
    ASSUME RInv, IInv', Steady, turn' = turn, scan' = scan,
           \A n \in 1..Len(log') : n \notin 1..Len(log) =>
              log'[n].t \in {"spawn", "return"} /\ Sayable(log'[n]),
           QueueReports',
           LET i == turn.call
           IN turn.pc = "wait" /\ task'[i].pc = "end" /\ ~task'[i].refused /\ Plain(i)' =>
                (task[i].pc = "end" /\ ~task[i].refused) \/ Returned(i)'
    PROVE  RInv'
<1>1. Types /\ Types'
  BY DEF RInv, IInv
<1>2. LogReports'
  BY <1>1, LogReported
<1>3. PassReports'
  <2>1. \A n \in 1..Len(log') : n \notin 1..Len(log) => ~IsAnswer(log'[n])
    BY DEF IsAnswer
  <2> QED BY <2>1, PassLeft
<1>4. TurnReports'
  <2>1. CASE turn.pc \notin {"spawn", "wait", "result"}
    BY <2>1, TurnElsewhere
  <2>2. CASE turn.pc \in {"spawn", "wait", "result"}
    <3>1. PICK i : i = turn.call
      OBVIOUS
    <3>2. /\ i \in Calls /\ i # 0
          /\ Results(log, i) = {} /\ NoticesOf(i) = {}
      BY <1>1, <2>2, <3>1 DEF RInv, TurnReports, Types, Turns
    <3>3. \A n \in 1..Len(log') :
             (n \in 1..Len(log) /\ log'[n] = log[n]) \/ log'[n].t \in {"spawn", "return"}
      BY <1>1, LogGrown
    <3>4. Results(log', i) = {} /\ NoticesOf(i)' = {}
      BY <3>2, <3>3 DEF Results, NoticesOf, At
    <3>5. ASSUME task[i].pc = "end", Plain(i)', Plain(i) => Returned(i) PROVE Returned(i)'
      BY <1>1, <3>2, <3>5, PlainBefore, RecordsStay DEF RInv
    <3>6. ASSUME turn.pc = "wait", task'[i].pc = "end", ~task'[i].refused, Plain(i)'
          PROVE  Returned(i)'
      <4>1. CASE task[i].pc = "end" /\ ~task[i].refused
        <5>1. Plain(i) => Returned(i)
          BY <3>1, <3>6, <4>1 DEF RInv, TurnReports
        <5> QED BY <3>5, <3>6, <4>1, <5>1
      <4> QED BY <3>1, <3>6, <4>1
    <3>7. ASSUME turn.pc = "result", turn.how = "answer"
          PROVE  /\ task'[i].pc = "end" /\ task'[i].ending # "notify"
                 /\ Plain(i)' => Returned(i)'
      <4>1. /\ task[i].pc = "end" /\ task[i].ending # "notify"
            /\ Plain(i) => Returned(i)
        BY <3>1, <3>7 DEF RInv, TurnReports
      <4> QED BY <3>2, <3>5, <4>1 DEF Steady
    <3> HIDE DEF Steady
    <3>8. turn'.pc = turn.pc /\ turn'.how = turn.how /\ turn'.call = i
      BY <3>1
    <3>9. Results(log, turn.call)' = {} /\ NoticesOf(turn.call)' = {}
      BY <3>4, <3>8 DEF Results, NoticesOf, At
    <3>10. Plain(turn.call)' = Plain(i)' /\ Returned(turn.call)' = Returned(i)'
      BY <3>8 DEF Plain, Returned, ReturnedBefore
    <3> QED BY <3>2, <3>6, <3>7, <3>8, <3>9, <3>10 DEF TurnReports
  <2> QED BY <2>1, <2>2
<1> QED BY <1>2, <1>3, <1>4 DEF RInv

\* The turn goes on, ends, or is lost.
LEMMA TurnGoesReports ==
    ASSUME RInv, IInv',
           \/ Enter \/ NotificationTurn \/ TakeNotices \/ Finish
           \/ DropTurn \/ TurnFails \/ ScanReadFails
    PROVE  RInv'
<1>1. turn \in Turns /\ gap \in [spilt : SUBSET Calls, hasty : SUBSET Kids,
                                 unreturned : SUBSET Calls]
  BY DEF RInv, IInv, Types
<1>2. /\ log' = log /\ task' = task /\ queue' \in {queue, <<>>}
      /\ scan' \in {scan, NoScan}
      /\ gap' = gap \/ gap' = Spill
  BY DEF Enter, NotificationTurn, TakeNotices, Finish, DropTurn, TurnFails, ScanReadFails
<1>3. gap'.hasty = gap.hasty /\ gap'.unreturned = gap.unreturned
  BY <1>1, <1>2 DEF Spill
<1>4. \/ turn' = NoTurn
      \/ \E q \in {"scan", "reconcile", "boundary"} : turn' = [NoTurn EXCEPT !.pc = q]
      \/ turn' = Drained(queue)
      \/ turn' = [turn EXCEPT !.pc = "reconcile"]
  BY DEF Enter, NotificationTurn, TakeNotices, Finish, DropTurn, TurnFails, ScanReadFails
<1>5. /\ turn'.pc \in {"idle", "scan", "reconcile", "boundary", "model", "notices"}
      /\ turn'.todo \in {<<>>, turn.todo, queue}
  <2>1. CASE turn' = NoTurn
    BY <2>1 DEF NoTurn
  <2>2. ASSUME NEW q \in {"scan", "reconcile", "boundary"},
               turn' = [NoTurn EXCEPT !.pc = q]
        PROVE  turn'.pc = q /\ turn'.todo = <<>>
    BY <2>2 DEF NoTurn
  <2>3. CASE turn' = Drained(queue)
    BY <1>1, <2>3 DEF Drained, Turns
  <2>4. CASE turn' = [turn EXCEPT !.pc = "reconcile"]
    BY <1>1, <2>4 DEF Turns
  <2> QED BY <1>4, <2>1, <2>2, <2>3, <2>4
<1>6. TurnReports'
  BY <1>5, TurnElsewhere
<1> QED BY <1>2, <1>3, <1>5, <1>6, TurnAloneReports

\* The waiting call gets its result: an answer only for an ending that nobody
\* took for the notice, whose return is written.
LEMMA WaitEndsReports ==
    ASSUME RInv, IInv',
           \/ StopTurn
           \/ \E i \in Calls : Launched(i) \/ Joined(i) \/ Released(i)
    PROVE  RInv'
<1>1. turn \in Turns
  BY DEF RInv, IInv, Types
<1>2. /\ UNCHANGED <<log, task, scan, queue, gap>>
      /\ turn.pc \in {"spawn", "wait"}
      /\ turn'.pc = "result" /\ turn'.call = turn.call /\ turn'.todo = turn.todo
      /\ turn'.how = "answer" =>
           /\ turn.pc = "wait" /\ task[turn.call].pc = "end"
           /\ ~task[turn.call].refused /\ task[turn.call].ending # "notify"
  <2>1. CASE StopTurn
    BY <1>1, <2>1 DEF StopTurn, Turns
  <2>2. ASSUME NEW i \in Calls, Launched(i) \/ Released(i)
        PROVE  /\ UNCHANGED <<log, task, scan, queue, gap>> /\ turn.pc = "wait"
               /\ turn'.pc = "result" /\ turn'.call = turn.call /\ turn'.todo = turn.todo
               /\ turn'.how = "ack"
    BY <1>1, <2>2 DEF Launched, Released, Turns
  <2>3. ASSUME NEW i \in Calls, Joined(i)
        PROVE  /\ UNCHANGED <<log, task, scan, queue, gap>> /\ turn.pc = "wait"
               /\ turn'.pc = "result" /\ turn'.call = turn.call /\ turn'.todo = turn.todo
               /\ turn.call = i /\ task[i].pc = "end"
               /\ turn'.how = IF task[i].refused THEN "refused" ELSE SettledOutcome(task[i])
    BY <1>1, <2>3 DEF Joined, Turns
  <2> QED BY <2>1, <2>2, <2>3 DEF SettledOutcome
<1>3. /\ turn.call # 0 /\ Results(log, turn.call) = {} /\ NoticesOf(turn.call) = {}
      /\ turn'.how = "answer" => (Plain(turn.call) => Returned(turn.call))
  BY <1>2 DEF RInv, TurnReports
<1>4. /\ Plain(turn.call)' = Plain(turn.call) /\ Returned(turn.call)' = Returned(turn.call)
      /\ Results(log, turn.call)' = Results(log, turn.call)
      /\ NoticesOf(turn.call)' = NoticesOf(turn.call)
  BY <1>2 DEF Plain, Returned, ReturnedBefore, Results, NoticesOf, At
<1>5. TurnReports'
  BY <1>2, <1>3, <1>4 DEF TurnReports
<1> QED BY <1>2, <1>5, TurnAloneReports

\* Calls without a result are answered as interrupted, and the user clears.
LEMMA ReconcileReports ==
    ASSUME RInv, IInv', Reconcile \/ Clear PROVE RInv'
<1>1. turn \in Turns /\ IInv
  BY DEF RInv, IInv, Types
<1>2. CASE Reconcile /\ Unanswered(log) = {}
  <2>1. /\ UNCHANGED <<log, task, scan, queue, gap>>
        /\ turn'.pc = "boundary" /\ turn'.todo = turn.todo
    BY <1>1, <1>2 DEF Reconcile, Turns
  <2>2. TurnReports'
    BY <2>1, TurnElsewhere
  <2> QED BY <2>1, <2>2, TurnAloneReports
<1>3. CASE Reconcile /\ Unanswered(log) # {}
  <2> DEFINE c == Oldest(Unanswered(log))
             e == Entry("result", c, 0, "interrupted")
  <2>1. /\ UNCHANGED <<task, scan, queue, gap, turn>> /\ turn.pc = "reconcile"
        /\ log' = Append(log, e)
    BY <1>3 DEF Reconcile, Write
  <2>2. c \in Calls
    <3>1. Unanswered(log) \subseteq Calls
      BY DEF Unanswered
    <3>2. Unanswered(log) \in SUBSET Nat
      BY <3>1, BoundsAssumption DEF Calls
    <3> QED BY <1>3, <3>1, <3>2, OldestIn
  <2> HIDE DEF c
  <2>3. e \in Entries /\ Sayable(e) /\ ~IsAnswer(e)
    BY <2>2 DEF Entry, Entries, Kinds, Hows, Sayable, IsAnswer
  <2> HIDE DEF e
  <2>4. TurnReports'
    BY <2>1, TurnElsewhere
  <2>5. \A n \in 1..Len(turn'.todo) : \E m \in 1..Len(turn.todo) : turn'.todo[n] = turn.todo[m]
    BY <2>1
  <2> QED BY <2>1, <2>3, <2>4, <2>5, TurnWriteReports
<1>4. CASE Clear
  <2> DEFINE e == Entry("clear", 0, 0, "none")
  <2>1. /\ UNCHANGED <<task, scan, queue, gap, turn>> /\ turn.pc = "idle"
        /\ log' = Append(log, e)
    BY <1>4 DEF Clear, Write
  <2>2. e \in Entries /\ Sayable(e) /\ ~IsAnswer(e)
    BY DEF Entry, Entries, Kinds, Hows, Sayable, IsAnswer
  <2> HIDE DEF e
  <2>3. TurnReports'
    BY <2>1, TurnElsewhere
  <2>4. \A n \in 1..Len(turn'.todo) : \E m \in 1..Len(turn.todo) : turn'.todo[n] = turn.todo[m]
    BY <2>1
  <2> QED BY <2>1, <2>2, <2>3, <2>4, TurnWriteReports
<1> QED BY <1>2, <1>3, <1>4

\* A queued notice is appended while the log still owes it: no answer carried
\* the ending as well.
LEMMA AppendNoticeReports ==
    ASSUME RInv, IInv', AppendNotice PROVE RInv'
<1>1. /\ turn \in Turns /\ turn.todo \in Seq(Calls) /\ task \in [Calls -> Tasks]
      /\ turn.pc = "notices" /\ turn.todo # <<>>
  BY DEF RInv, IInv, Types, Turns, TurnSound, AppendNotice
<1>2. PICK i \in Calls : i = Head(turn.todo) /\ i = turn.todo[1]
  BY <1>1
<1>3. 1 \in 1..Len(turn.todo)
  BY <1>1
<1>4. Spawned(i) /\ task[i].ending = "notify"
  BY <1>2, <1>3 DEF RInv, QueueReports
<1>5. ~HasAnswer(i)
  BY <1>4 DEF HasAnswer, RInv, LogReports, AnswerSound
<1>6. /\ UNCHANGED <<task, scan, gen, queue, gap>>
      /\ turn' = Drained(Tail(turn.todo))
  BY DEF AppendNotice
<1>7. /\ turn'.pc \in {"model", "notices"} /\ turn'.todo = Tail(turn.todo)
      /\ \A n \in 1..Len(turn'.todo) : n + 1 \in 1..Len(turn.todo)
                                      /\ turn'.todo[n] = turn.todo[n + 1]
  BY <1>1, <1>6 DEF Drained, Turns
<1>8. \A n \in 1..Len(turn'.todo) : \E m \in 1..Len(turn.todo) : turn'.todo[n] = turn.todo[m]
  BY <1>7
<1>9. TurnReports'
  BY <1>7, TurnElsewhere
<1>10. CASE NoticePending(log, task[i].kid)
  <2> DEFINE e == Entry("notice", i, task[i].kid, "none")
  <2>1. log' = Append(log, e)
    BY <1>2, <1>10 DEF AppendNotice, Write
  <2>2. e \in Entries
    BY <1>1 DEF Entry, Entries, Kinds, Hows, Tasks
  <2>3. Sayable(e) /\ ~IsAnswer(e)
    BY <1>4, <1>5, <1>10 DEF Entry, Sayable, IsAnswer
  <2> HIDE DEF e
  <2> QED BY <1>6, <1>8, <1>9, <2>1, <2>2, <2>3, TurnWriteReports
<1>11. CASE ~NoticePending(log, task[i].kid)
  <2>1. log' = log
    BY <1>2, <1>11 DEF AppendNotice
  <2>2. Types' /\ Steady
    BY <1>6, <2>1 DEF IInv, Steady
  <2>3. LogReports'
    BY <2>1, <2>2, LogReported
  <2>4. QueueReports'
    <3>1. \A n \in 1..Len(queue') : \E m \in 1..Len(queue) : queue'[n] = queue[m]
      BY <1>6
    <3> QED BY <1>6, <1>8, <2>2, <3>1, QueueReported
  <2>5. PassReports'
    BY <1>6, <2>1, <2>2, PassLeft
  <2> QED BY <1>9, <2>3, <2>4, <2>5 DEF RInv
<1> QED BY <1>10, <1>11

\* The result of the call is appended: nothing was said of it before.
LEMMA AppendResultReports ==
    ASSUME RInv, IInv', AppendResult PROVE RInv'
<1>1. /\ turn \in Turns /\ turn.pc = "result" /\ turn.call # 0 /\ turn.call \in Calls
      /\ Results(log, turn.call) = {} /\ NoticesOf(turn.call) = {}
      /\ turn.how = "answer" =>
           /\ task[turn.call].pc = "end" /\ task[turn.call].ending # "notify"
           /\ Plain(turn.call) => Returned(turn.call)
  <2>1. turn \in Turns /\ turn.pc = "result"
    BY DEF RInv, IInv, Types, AppendResult
  <2> QED BY <2>1 DEF RInv, TurnReports, Turns
<1> DEFINE e == Entry("result", turn.call, 0, turn.how)
<1>2. /\ log' = Append(log, e) /\ UNCHANGED <<task, scan, queue, gap>>
      /\ turn' = NoTurn \/ turn' = [NoTurn EXCEPT !.pc = "boundary"]
  BY DEF AppendResult, Write
<1>3. e \in Entries
  BY <1>1 DEF Entry, Entries, Kinds, Turns
<1>4. Sayable(e)
  BY <1>1 DEF Entry, Sayable, IsAnswer
<1>5. scan.step = "off"
  BY <1>1 DEF RInv, IInv, ScanSound
<1> HIDE DEF e
<1>6. turn'.pc \in {"idle", "boundary"} /\ turn'.todo = <<>>
  BY <1>2 DEF NoTurn
<1>7. TurnReports'
  BY <1>6, TurnElsewhere
<1>8. \A n \in 1..Len(turn'.todo) : \E m \in 1..Len(turn.todo) : turn'.todo[n] = turn.todo[m]
  BY <1>6
<1> QED BY <1>2, <1>3, <1>4, <1>5, <1>7, <1>8, TurnWriteReports

\* The model delegates: the call is new to the log.
LEMMA DelegateReports ==
    ASSUME RInv, IInv', NEW i \in Calls, Delegate(i) PROVE RInv'
<1>1. turn \in Turns /\ log \in Seq(Entries) /\ Delegated \in Nat
  BY DelegatedNat DEF RInv, IInv, Types
<1>2. i = 1 + Delegated
  BY DEF Delegate, Delegated, CallsAt, At
<1>3. ASSUME NEW n \in 1..Len(log) PROVE log[n].c # i
  <2>1. EntrySound(log[n])
    BY DEF RInv, IInv
  <2>2. log[n].c <= Delegated
    BY <2>1 DEF EntrySound
  <2>3. log[n] \in Entries
    BY <1>1
  <2>4. log[n].c \in Nat
    BY <2>3, BoundsAssumption DEF Entries, Calls
  <2> QED BY <1>1, <1>2, <2>2, <2>4
<1> DEFINE e == Entry("call", i, 0, "none")
<1>4. /\ log' = Append(log, e) /\ UNCHANGED <<task, scan, queue, gap>>
      /\ turn' = [turn EXCEPT !.pc = "spawn", !.call = i]
  BY DEF Delegate, Write
<1>5. e \in Entries /\ Sayable(e) /\ ~IsAnswer(e) /\ e.t = "call"
  BY <1>3 DEF Entry, Entries, Kinds, Hows, Sayable, IsAnswer
<1> HIDE DEF e
<1>6. turn'.pc = "spawn" /\ turn'.call = i /\ turn'.todo = turn.todo /\ i # 0
  BY <1>1, <1>4 DEF Turns, Calls
<1>7. \A n \in 1..Len(log') : log'[n].t = "call" \/ log'[n].c # i
  <2>1. \A n \in 1..Len(log') : log'[n] = e \/ (n \in 1..Len(log) /\ log'[n] = log[n])
    BY <1>1, <1>4
  <2> QED BY <1>3, <1>5, <2>1
<1>8. Results(log, turn.call)' = {} /\ NoticesOf(turn.call)' = {}
  BY <1>6, <1>7 DEF Results, NoticesOf, At
<1>9. TurnReports'
  BY <1>6, <1>8 DEF TurnReports
<1>10. \A n \in 1..Len(turn'.todo) : \E m \in 1..Len(turn.todo) : turn'.todo[n] = turn.todo[m]
  BY <1>6
<1> QED BY <1>4, <1>5, <1>9, <1>10, TurnWriteReports

\* The spawn of a child: its task is at its start, and the call waits.
LEMMA SpawnReports ==
    ASSUME RInv, IInv', NEW i \in Calls, NEW k \in Kids, NEW back \in BOOLEAN,
           Spawn(i, k, back)
    PROVE  RInv'
<1>1. /\ turn \in Turns /\ task \in [Calls -> Tasks] /\ Types /\ Types'
      /\ queue \in Seq(Calls) /\ turn.todo \in Seq(Calls)
  BY DEF RInv, IInv, Types, Turns
<1>2. /\ UNCHANGED <<log, scan, gen, queue, gap>> /\ turn.pc = "spawn" /\ turn.call = i
  BY DEF Spawn
<1>3. /\ i # 0 /\ Results(log, i) = {} /\ NoticesOf(i) = {} /\ task[i].pc = "none"
  BY <1>2 DEF RInv, IInv, TurnSound, TurnReports
<1>4. CASE turn' = [turn EXCEPT !.pc = "result", !.how = "refused"] /\ task' = task
  <2>1. /\ turn'.pc = "result" /\ turn'.how = "refused" /\ turn'.call = i
        /\ turn'.todo = turn.todo
    BY <1>1, <1>2, <1>4 DEF Turns
  <2>2. Results(log, turn.call)' = {} /\ NoticesOf(turn.call)' = {}
    BY <1>2, <1>3, <2>1 DEF Results, NoticesOf, At
  <2>3. TurnReports'
    BY <1>3, <2>1, <2>2 DEF TurnReports
  <2> QED BY <1>2, <1>4, <2>1, <2>3, TurnAloneReports
<1>5. CASE /\ turn' = [turn EXCEPT !.pc = "wait"]
           /\ task' = [task EXCEPT ![i] =
                         [NoTask EXCEPT !.pc = "start", !.kid = k, !.back = back,
                                        !.resume = k # i,
                                        !.ending = IF back THEN "notify" ELSE @]]
  <2>1. turn'.pc = "wait" /\ turn'.call = i /\ turn'.todo = turn.todo
    BY <1>1, <1>2, <1>5 DEF Turns
  <2>2. task'[i].pc = "start" /\ \A j \in Calls : j # i => task'[j] = task[j]
    BY <1>1, <1>5 DEF NoTask
  <2>3. Steady
    BY <1>2, <1>3, <2>2 DEF Steady
  <2>4. LogReports'
    BY <1>1, <1>2, <2>3, LogReported
  <2>5. QueueReports'
    <3>1. \A j \in Calls : task'[j].pc \in Opened => task[j].pc \in Opened
      BY <2>2 DEF Opened
    <3>2. \A j \in Calls :
             task[j].pc \in Over /\ task[j].ending = "notify" => task'[j].ending = "notify"
      BY <1>3, <2>2 DEF Over
    <3>3. /\ \A n \in 1..Len(queue') : \E m \in 1..Len(queue) : queue'[n] = queue[m]
          /\ \A n \in 1..Len(turn'.todo) :
                \E m \in 1..Len(turn.todo) : turn'.todo[n] = turn.todo[m]
      BY <1>2, <2>1
    <3> QED BY <1>1, <2>3, <3>1, <3>2, <3>3, QueueReported
  <2>6. Results(log, turn.call)' = {} /\ NoticesOf(turn.call)' = {}
    BY <1>2, <1>3, <2>1 DEF Results, NoticesOf, At
  <2>7. TurnReports'
    BY <1>3, <2>1, <2>2, <2>6 DEF TurnReports
  <2>8. PassReports'
    BY <1>2, <2>3, PassLeft
  <2> QED BY <2>4, <2>5, <2>7, <2>8 DEF RInv
<1> QED BY <1>4, <1>5 DEF Spawn

\* One task changes and the log does not.
LEMMA OneTaskReports ==
    ASSUME RInv, IInv', NEW i \in Calls, NEW t, task' = [task EXCEPT ![i] = t],
           log' = log, turn' = turn, scan' = scan, queue' = queue,
           t.kid = task[i].kid, t.ending = task[i].ending \/ task[i].ending # "notify",
           task[i].pc = "end" => t = task[i],
           t.pc \in Opened => task[i].pc \in Opened,
           gap'.hasty = gap.hasty, gap.unreturned \subseteq gap'.unreturned,
           turn.pc = "wait" /\ turn.call = i /\ t.pc = "end" /\ ~t.refused /\ Plain(i)' =>
             (task[i].pc = "end" /\ ~task[i].refused) \/ Returned(i)'
    PROVE  RInv'
<1>1. task \in [Calls -> Tasks] /\ Types'
  BY DEF RInv, IInv, Types
<1>2. task'[i] = t /\ \A j \in Calls : j # i => task'[j] = task[j]
  BY <1>1
<1>3. Steady
  BY <1>2 DEF Steady
<1>4. QueueReports'
  <2>1. /\ \A j \in Calls : task'[j].pc \in Opened => task[j].pc \in Opened
        /\ \A j \in Calls :
             task[j].pc \in Over /\ task[j].ending = "notify" => task'[j].ending = "notify"
    BY <1>2
  <2>2. /\ \A n \in 1..Len(queue') : \E m \in 1..Len(queue) : queue'[n] = queue[m]
        /\ \A n \in 1..Len(turn'.todo) :
              \E m \in 1..Len(turn.todo) : turn'.todo[n] = turn.todo[m]
    OBVIOUS
  <2> QED BY <1>1, <1>3, <2>1, <2>2, QueueReported
<1>5. LET c == turn.call
      IN turn.pc = "wait" /\ task'[c].pc = "end" /\ ~task'[c].refused /\ Plain(c)' =>
           (task[c].pc = "end" /\ ~task[c].refused) \/ Returned(c)'
  <2>1. turn.pc = "wait" => turn.call \in Calls
    BY DEF RInv, IInv, Types, Turns, TurnReports
  <2>2. CASE turn.call = i
    BY <1>2, <2>2
  <2>3. CASE turn.call # i
    BY <1>2, <2>1, <2>3
  <2> QED BY <2>2, <2>3
<1> QED BY <1>3, <1>4, <1>5, TaskMoveReports

\* A task that fails to build its child, announces it, or is handed over.
LEMMA TaskGoesReports ==
    ASSUME RInv, IInv', NEW i \in Calls, SpawnFails(i) \/ Announce(i) \/ Handover(i)
    PROVE  RInv'
<1>1. task \in [Calls -> Tasks]
  BY DEF RInv, IInv, Types
<1>2. task[i] \in Tasks
  BY <1>1
<1>3. UNCHANGED <<log, turn, scan, queue, gap>>
  BY DEF SpawnFails, Announce, Handover
<1>4. CASE SpawnFails(i)
  <2> DEFINE t == [task[i] EXCEPT !.pc = "end", !.refused = TRUE]
  <2>1. task' = [task EXCEPT ![i] = t] /\ task[i].pc = "start"
    BY <1>1, <1>4 DEF SpawnFails
  <2>2. t.kid = task[i].kid /\ t.ending = task[i].ending /\ t.pc = "end" /\ t.refused
    BY <1>2 DEF Tasks
  <2> HIDE DEF t
  <2> QED BY <1>3, <2>1, <2>2, OneTaskReports DEF Opened
<1>5. CASE Announce(i)
  <2> DEFINE t == [task[i] EXCEPT !.pc = "run"]
  <2>1. task' = [task EXCEPT ![i] = t] /\ task[i].pc = "built"
    BY <1>1, <1>5 DEF Announce
  <2>2. t.kid = task[i].kid /\ t.ending = task[i].ending /\ t.pc = "run"
    BY <1>2 DEF Tasks
  <2> HIDE DEF t
  <2> QED BY <1>3, <2>1, <2>2, OneTaskReports DEF Opened
<1>6. CASE Handover(i)
  <2> DEFINE t == [task[i] EXCEPT !.ending = "notify"]
  <2>1. /\ task' = [task EXCEPT ![i] = t] /\ task[i].pc \in Running
        /\ task[i].ending = "undecided"
    BY <1>1, <1>6 DEF Handover
  <2>2. t.kid = task[i].kid /\ t.pc = task[i].pc
    BY <1>2 DEF Tasks
  <2> HIDE DEF t
  <2> QED BY <1>3, <2>1, <2>2, OneTaskReports DEF Opened, Running
<1> QED BY <1>4, <1>5, <1>6

\* A task claims its return, or is refused: while its call waits, nobody else
\* claims for its child.
LEMMA ClaimReports ==
    ASSUME RInv, IInv', NEW i \in Calls, ClaimReturn(i) \/ ReturnFails(i)
    PROVE  RInv'
<1>1. /\ task \in [Calls -> Tasks]
      /\ gap \in [spilt : SUBSET Calls, hasty : SUBSET Kids, unreturned : SUBSET Calls]
  BY DEF RInv, IInv, Types
<1>2. task[i] \in Tasks
  BY <1>1
<1>3. UNCHANGED <<log, turn, scan, queue>>
  BY DEF ClaimReturn, ReturnFails
<1> DEFINE held == [task[i] EXCEPT !.pc = "hold"]
           over == [task[i] EXCEPT !.pc = "end"]
<1>4. /\ held.kid = task[i].kid /\ held.ending = task[i].ending /\ held.pc = "hold"
      /\ over.kid = task[i].kid /\ over.ending = task[i].ending /\ over.pc = "end"
  BY <1>2 DEF Tasks
<1>5. CASE ClaimReturn(i) /\ ~Claimed(task[i].kid)
  <2>1. task' = [task EXCEPT ![i] = held] /\ task[i].pc = "tail" /\ gap' = gap
    BY <1>1, <1>5 DEF ClaimReturn
  <2> HIDE DEF held
  <2> QED BY <1>3, <1>4, <2>1, OneTaskReports DEF Opened
<1>6. CASE ClaimReturn(i) /\ Claimed(task[i].kid)
  <2>1. task' = [task EXCEPT ![i] = over] /\ task[i].pc = "tail" /\ gap' = gap
    BY <1>1, <1>6 DEF ClaimReturn
  <2>2. ASSUME turn.pc = "wait", Plain(i)' PROVE FALSE
    <3>1. scan.step = "off"
      BY <2>2 DEF RInv, IInv, ScanSound
    <3>2. scan.cur = 0
      BY <3>1 DEF RInv, PassReports
    <3>3. task[i].kid # 0
      BY <2>1 DEF RInv, IInv, TaskSound
    <3>4. PICK j \in Calls : task[j].kid = task[i].kid /\ task[j].pc = "hold"
      BY <1>6, <3>2, <3>3 DEF Claimed
    <3>5. j # i /\ task'[j] = task[j] /\ task'[i].kid = task[i].kid
      <4>1. j # i
        BY <2>1, <3>4
      <4> HIDE DEF over
      <4> QED BY <1>1, <1>4, <2>1, <4>1
    <3> QED BY <2>2, <3>4, <3>5 DEF Plain
  <2> HIDE DEF over
  <2> QED BY <1>3, <1>4, <2>1, <2>2, OneTaskReports DEF Opened
<1>7. CASE ReturnFails(i)
  <2>1. /\ task' = [task EXCEPT ![i] = over] /\ task[i].pc = "hold"
        /\ gap' = [gap EXCEPT !.unreturned = gap.unreturned \cup {i}]
    BY <1>1, <1>7 DEF ReturnFails
  <2>2. gap'.hasty = gap.hasty /\ gap'.unreturned = gap.unreturned \cup {i}
    BY <1>1, <2>1
  <2>3. Returned(i)'
    BY <2>2 DEF Returned
  <2> HIDE DEF over
  <2> QED BY <1>3, <1>4, <2>1, <2>2, <2>3, OneTaskReports DEF Opened
<1> QED BY <1>5, <1>6, <1>7

\* The wait budget elapses: the ending goes to the notice.
LEMMA BudgetReports ==
    ASSUME RInv, IInv', NEW i \in Calls, BudgetElapsed(i) PROVE RInv'
<1>1. task \in [Calls -> Tasks] /\ turn \in Turns /\ Types'
  BY DEF RInv, IInv, Types
<1>2. /\ UNCHANGED <<log, scan, gen, queue, gap>> /\ turn.pc = "wait" /\ turn.call = i
      /\ turn' = [turn EXCEPT !.pc = "result", !.how = "ack"]
      /\ task[i].pc \in Running /\ task[i].ending = "undecided"
      /\ task' = [task EXCEPT ![i].ending = "notify"]
  BY DEF BudgetElapsed
<1>3. turn'.pc = "result" /\ turn'.how = "ack" /\ turn'.call = i /\ turn'.todo = turn.todo
  BY <1>1, <1>2 DEF Turns
<1>4. /\ task'[i].pc = task[i].pc /\ task'[i].kid = task[i].kid
      /\ task'[i].ending = "notify"
      /\ \A j \in Calls : j # i => task'[j] = task[j]
  BY <1>1, <1>2 DEF Tasks
<1>5. Steady
  BY <1>2, <1>4 DEF Steady, Running
<1>6. LogReports'
  BY <1>1, <1>2, <1>5, LogReported
<1>7. QueueReports'
  <2>1. /\ \A j \in Calls : task'[j].pc \in Opened => task[j].pc \in Opened
        /\ \A j \in Calls :
             task[j].pc \in Over /\ task[j].ending = "notify" => task'[j].ending = "notify"
    BY <1>4
  <2>2. /\ \A n \in 1..Len(queue') : \E m \in 1..Len(queue) : queue'[n] = queue[m]
        /\ \A n \in 1..Len(turn'.todo) :
              \E m \in 1..Len(turn.todo) : turn'.todo[n] = turn.todo[m]
    BY <1>2, <1>3
  <2> QED BY <1>1, <1>5, <2>1, <2>2, QueueReported
<1>8. TurnReports'
  <2>1. i # 0 /\ Results(log, i) = {} /\ NoticesOf(i) = {}
    BY <1>2 DEF RInv, TurnReports
  <2>2. Results(log, turn.call)' = {} /\ NoticesOf(turn.call)' = {}
    BY <1>2, <1>3, <2>1 DEF Results, NoticesOf, At
  <2> QED BY <1>3, <2>1, <2>2 DEF TurnReports
<1>9. PassReports'
  BY <1>2, <1>5, PassLeft
<1> QED BY <1>6, <1>7, <1>8, <1>9 DEF RInv

\* The run ends: its ending is queued when the notice is to carry it.
LEMMA RunEndsReports ==
    ASSUME RInv, IInv', NEW i \in Calls, RunEnds(i) PROVE RInv'
<1>1. /\ task \in [Calls -> Tasks] /\ queue \in Seq(Calls) /\ Types /\ Types'
      /\ log \in Seq(Entries)
  BY DEF RInv, IInv, Types
<1>2. /\ UNCHANGED <<log, turn, scan, gap>> /\ task[i].pc = "run"
      /\ task' = [task EXCEPT ![i].pc = "tail", ![i].ending = Ending(task[i])]
      /\ queue' = IF Ending(task[i]) = "notify" THEN Append(queue, i) ELSE queue
  BY DEF RunEnds
<1>3. /\ task'[i].pc = "tail" /\ task'[i].kid = task[i].kid
      /\ task'[i].ending = Ending(task[i])
      /\ \A j \in Calls : j # i => task'[j] = task[j]
  BY <1>1, <1>2 DEF Tasks
<1>4. Steady
  BY <1>2, <1>3 DEF Steady
<1>5. QueueReports'
  <2>1. /\ \A j \in Calls : task'[j].pc \in Opened => task[j].pc \in Opened
        /\ \A j \in Calls :
             task[j].pc \in Over /\ task[j].ending = "notify" => task'[j].ending = "notify"
    BY <1>2, <1>3 DEF Opened, Over
  <2>2. Spawned(i)'
    <3>1. Spawned(i)
      BY <1>2 DEF RInv, QueueReports, Opened
    <3> QED BY <1>1, <1>4, <3>1, RecordsStay
  <2>3. ASSUME NEW n \in 1..Len(queue')
        PROVE  \/ \E m \in 1..Len(queue) : queue'[n] = queue[m]
               \/ Spawned(queue[n])' /\ task'[queue'[n]].ending = "notify"
    <3>1. CASE Ending(task[i]) = "notify"
      <4>1. queue' = Append(queue, i)
        BY <1>2, <3>1
      <4>2. (n \in 1..Len(queue) /\ queue'[n] = queue[n]) \/ queue'[n] = i
        BY <1>1, <4>1
      <4>3. queue'[n] = i => Spawned(queue[n])'
        BY <2>2 DEF Spawned
      <4> QED BY <1>3, <3>1, <4>2, <4>3
    <3>2. CASE Ending(task[i]) # "notify"
      BY <1>2, <3>2
    <3> QED BY <3>1, <3>2
  <2>4. \A n \in 1..Len(turn'.todo) : \E m \in 1..Len(turn.todo) : turn'.todo[n] = turn.todo[m]
    BY <1>2
  <2> QED BY <1>1, <1>4, <2>1, <2>3, <2>4, QueueReported
<1>6. LET c == turn.call
      IN turn.pc = "wait" /\ task'[c].pc = "end" /\ ~task'[c].refused /\ Plain(c)' =>
           (task[c].pc = "end" /\ ~task[c].refused) \/ Returned(c)'
  <2>1. turn.pc = "wait" => turn.call \in Calls
    BY DEF RInv, IInv, Types, Turns, TurnReports
  <2> QED BY <1>3, <2>1
<1> QED BY <1>2, <1>4, <1>5, <1>6, TaskMoveReports

\* The spawn record: the first of its call.
LEMMA RecordSpawnReports ==
    ASSUME RInv, IInv', NEW i \in Calls, RecordSpawn(i) PROVE RInv'
<1>1. /\ task \in [Calls -> Tasks] /\ log \in Seq(Entries) /\ Types'
  BY DEF RInv, IInv, Types
<1>2. task[i] \in Tasks /\ task[i].pc = "start"
  BY <1>1 DEF RecordSpawn
<1> DEFINE e == Entry("spawn", i, task[i].kid, "none")
<1>3. /\ UNCHANGED <<turn, scan, queue, gap>> /\ log' = Append(log, e)
      /\ task' = [task EXCEPT ![i].pc = "built"]
  BY DEF RecordSpawn, Write
<1>4. e \in Entries /\ e.t = "spawn" /\ e.c = i
  BY <1>2 DEF Entry, Entries, Kinds, Hows, Tasks
<1> HIDE DEF e
<1>5. ~Spawned(i)
  <2> SUFFICES ASSUME NEW m \in 1..Len(log), log[m].t = "spawn", log[m].c = i
               PROVE  FALSE
    BY DEF Spawned
  <2>1. EntrySound(log[m])
    BY DEF RInv, IInv
  <2> QED BY <1>2, <2>1 DEF EntrySound
<1>6. Sayable(e)
  BY <1>4, <1>5 DEF Sayable, IsAnswer
<1>7. /\ task'[i].pc = "built" /\ task'[i].kid = task[i].kid
      /\ \A j \in Calls : j # i => task'[j] = task[j]
  BY <1>1, <1>2, <1>3 DEF Tasks
<1>8. Steady
  BY <1>2, <1>3, <1>4, <1>7 DEF Steady
<1>9. \A n \in 1..Len(log') : n \notin 1..Len(log) => log'[n] = e
  BY <1>1, <1>3
<1>10. Spawned(i)'
  <2>1. Len(log) + 1 \in 1..Len(log') /\ log'[Len(log) + 1] = e
    BY <1>1, <1>3
  <2> QED BY <1>4, <2>1 DEF Spawned
<1>11. QueueReports'
  <2>1. \A j \in Calls : task'[j].pc \in Opened => task[j].pc \in Opened \/ Spawned(j)'
    BY <1>7, <1>10
  <2>2. \A j \in Calls :
           task[j].pc \in Over /\ task[j].ending = "notify" => task'[j].ending = "notify"
    BY <1>2, <1>7 DEF Over
  <2>3. /\ \A n \in 1..Len(queue') : \E m \in 1..Len(queue) : queue'[n] = queue[m]
        /\ \A n \in 1..Len(turn'.todo) :
              \E m \in 1..Len(turn.todo) : turn'.todo[n] = turn.todo[m]
    BY <1>3
  <2> QED BY <1>1, <1>8, <2>1, <2>2, <2>3, QueueReported
<1>12. LET c == turn.call
       IN turn.pc = "wait" /\ task'[c].pc = "end" /\ ~task'[c].refused /\ Plain(c)' =>
            (task[c].pc = "end" /\ ~task[c].refused) \/ Returned(c)'
  <2>1. turn.pc = "wait" => turn.call \in Calls
    BY DEF RInv, IInv, Types, Turns, TurnReports
  <2> QED BY <1>7, <2>1
<1> QED BY <1>3, <1>4, <1>6, <1>8, <1>9, <1>11, <1>12, TaskMoveReports

\* The return of a live ending, behind the spawn it closes.
LEMMA WriteReturnReports ==
    ASSUME RInv, IInv', NEW i \in Calls, WriteReturn(i) PROVE RInv'
<1>1. /\ task \in [Calls -> Tasks] /\ log \in Seq(Entries) /\ Types'
  BY DEF RInv, IInv, Types
<1>2. task[i] \in Tasks /\ task[i].pc = "hold"
  BY <1>1 DEF WriteReturn
<1> DEFINE e == Entry("return", 0, task[i].kid, "live")
<1>3. /\ UNCHANGED <<turn, scan, queue, gap>> /\ log' = Append(log, e)
      /\ task' = [task EXCEPT ![i].pc = "end"]
  BY DEF WriteReturn, Write
<1>4. e \in Entries /\ e.t = "return" /\ e.k = task[i].kid /\ e.how = "live"
  BY <1>2 DEF Entry, Entries, Kinds, Hows, Tasks
<1> HIDE DEF e
<1>5. Sayable(e)
  BY <1>4 DEF Sayable, IsAnswer
<1>6. /\ task'[i].pc = "end" /\ task'[i].kid = task[i].kid
      /\ task'[i].ending = task[i].ending
      /\ \A j \in Calls : j # i => task'[j] = task[j]
  BY <1>1, <1>2, <1>3 DEF Tasks
<1>7. Steady
  BY <1>2, <1>3, <1>4, <1>6 DEF Steady
<1>8. \A n \in 1..Len(log') : n \notin 1..Len(log) => log'[n] = e
  BY <1>1, <1>3
<1>9. Returned(i)'
  <2>1. PICK s \in 1..Len(log) : log[s].t = "spawn" /\ log[s].c = i
    BY <1>2 DEF RInv, QueueReports, Opened, Spawned
  <2> DEFINE n == Len(log) + 1
  <2>2. /\ Len(log') = n /\ log'[n] = e /\ n \in 1..n /\ n < n + 1
        /\ s \in 1..n /\ s < n /\ log'[s] = log[s]
    BY <1>1, <1>3
  <2> HIDE DEF n
  <2> QED BY <1>4, <1>6, <2>1, <2>2 DEF Returned, ReturnedBefore
<1>10. QueueReports'
  <2>1. /\ \A j \in Calls : task'[j].pc \in Opened => task[j].pc \in Opened
        /\ \A j \in Calls :
             task[j].pc \in Over /\ task[j].ending = "notify" => task'[j].ending = "notify"
    BY <1>6 DEF Opened
  <2>2. /\ \A n \in 1..Len(queue') : \E m \in 1..Len(queue) : queue'[n] = queue[m]
        /\ \A n \in 1..Len(turn'.todo) :
              \E m \in 1..Len(turn.todo) : turn'.todo[n] = turn.todo[m]
    BY <1>3
  <2> QED BY <1>1, <1>7, <2>1, <2>2, QueueReported
<1>11. LET c == turn.call
       IN turn.pc = "wait" /\ task'[c].pc = "end" /\ ~task'[c].refused /\ Plain(c)' =>
            (task[c].pc = "end" /\ ~task[c].refused) \/ Returned(c)'
  <2>1. turn.pc = "wait" => turn.call \in Calls
    BY DEF RInv, IInv, Types, Turns, TurnReports
  <2>2. CASE turn.call = i
    BY <1>3, <1>9, <2>2 DEF Returned, ReturnedBefore
  <2>3. CASE turn.call # i
    BY <1>6, <2>1, <2>3
  <2> QED BY <2>2, <2>3
<1> QED BY <1>3, <1>4, <1>5, <1>7, <1>8, <1>10, <1>11, TaskMoveReports

\* A step of the pass.
LEMMA PassStepReports ==
    ASSUME RInv, IInv', task' = task, queue' = queue, turn'.todo = turn.todo,
           turn'.pc \notin {"spawn", "wait", "result"},
           log' = log \/ \E e \in Entries : log' = Append(log, e) /\ Sayable(e),
           gap.hasty \subseteq gap'.hasty, gap'.unreturned = gap.unreturned,
           PassReports'
    PROVE  RInv'
<1>1. Types /\ Types' /\ Steady
  BY DEF RInv, IInv, Steady
<1>2. \A n \in 1..Len(log') : n \notin 1..Len(log) => Sayable(log'[n])
  <2>1. ASSUME NEW e \in Entries, log' = Append(log, e)
        PROVE  \A n \in 1..Len(log') : n \notin 1..Len(log) => log'[n] = e
    BY <1>1, <2>1 DEF Types
  <2> QED BY <2>1
<1>3. LogReports'
  BY <1>1, <1>2, LogReported
<1>4. QueueReports'
  <2>1. /\ \A n \in 1..Len(queue') : \E m \in 1..Len(queue) : queue'[n] = queue[m]
        /\ \A n \in 1..Len(turn'.todo) :
              \E m \in 1..Len(turn.todo) : turn'.todo[n] = turn.todo[m]
    OBVIOUS
  <2> QED BY <1>1, <2>1, QueueReported
<1>5. TurnReports'
  BY TurnElsewhere
<1> QED BY <1>3, <1>4, <1>5 DEF RInv

\* The pass as it goes on over its prefix: it turns to no child that it had not
\* set aside.
LEMMA PassGoesReports ==
    ASSUME RInv, scan'.at = scan.at, scan.step # "off",
           log' = log \/ \E e \in Entries : log' = Append(log, e) /\ ~IsAnswer(e),
           \A k \in scan'.left : k \in scan.left \/ OwedRecord(Prefix, k) # "none",
           \/ scan'.cur = 0
           \/ scan'.step \in {"check", "return", "record"}
              /\ (scan'.cur = scan.cur \/ scan'.cur \in scan.left)
    PROVE  PassReports'
<1>1. Types /\ IInv
  BY DEF RInv, IInv
<1>2. Prefix' = Prefix
  BY <1>1, PrefixKept
<1>3. ASSUME NEW r \in 1..Len(log'), IsAnswer(log'[r]) PROVE r <= scan'.at
  <2>1. r \in 1..Len(log) /\ log'[r] = log[r]
    <3>1. log \in Seq(Entries)
      BY <1>1 DEF Types
    <3>2. ASSUME NEW e \in Entries, log' = Append(log, e), ~IsAnswer(e)
          PROVE  r \in 1..Len(log) /\ log'[r] = log[r]
      <4>1. (r \in 1..Len(log) /\ log'[r] = log[r]) \/ log'[r] = e
        BY <3>1, <3>2
      <4> QED BY <1>3, <3>2, <4>1
    <3> QED BY <3>2
  <2> QED BY <1>3, <2>1 DEF RInv, PassReports
<1>4. \A k \in scan'.left : OwedRecord(Prefix, k) # "none"
  BY DEF RInv, PassReports
<1>5. scan'.cur # 0 => OwedRecord(Prefix, scan'.cur) # "none"
  BY DEF RInv, PassReports
<1> QED BY <1>2, <1>3, <1>4, <1>5 DEF PassReports, IsAnswer

\* The pass reads the log, judges a child, fails to write or ends.
LEMMA PassReadReports ==
    ASSUME RInv, IInv', ScanRead \/ ScanEnd PROVE RInv'
<1>1. turn \in Turns /\ scan \in Scans
  BY DEF RInv, IInv, Types
<1>2. UNCHANGED <<log, task, queue, gap>>
  BY DEF ScanRead, ScanEnd
<1>3. CASE ScanRead
  <2>1. /\ scan'.at = Len(log) /\ scan'.step = "read" /\ scan'.left = {} /\ scan'.cur = 0
        /\ turn' = turn /\ turn.pc = "scan"
    BY <1>3 DEF ScanRead, NoScan
  <2>2. Len(log) \in Nat /\ log \in Seq(Entries)
    BY DEF RInv, IInv, Types
  <2>3. PassReports'
    BY <1>2, <2>1, <2>2 DEF PassReports
  <2> QED BY <1>2, <2>1, <2>3, PassStepReports
<1>4. CASE ScanEnd
  <2>1. scan' = NoScan /\ turn' = [turn EXCEPT !.pc = "reconcile"]
    BY <1>4 DEF ScanEnd
  <2>2. turn'.pc = "reconcile" /\ turn'.todo = turn.todo
    BY <1>1, <2>1 DEF Turns
  <2>3. PassReports'
    BY <2>1 DEF PassReports, NoScan
  <2> QED BY <1>2, <2>2, <2>3, PassStepReports
<1> QED BY <1>3, <1>4

\* The children set aside are those the prefix owes a record about.
LEMMA PassPicksReports ==
    ASSUME RInv, IInv', ScanLive \/ \E k \in Kids : ScanPick(k) PROVE RInv'
<1>1. scan \in Scans /\ IInv
  BY DEF RInv, IInv, Types
<1>2. UNCHANGED <<log, task, turn, queue, gap>>
  BY DEF ScanLive, ScanPick
<1>3. CASE ScanLive
  <2> DEFINE S == {k \in Kids : ~Live(k) /\ OwedRecord(Prefix, k) # "none"}
  <2>1. scan.step = "read" /\ scan' = [scan EXCEPT !.step = "pick", !.left = S]
    BY <1>3 DEF ScanLive
  <2>2. \A k \in S : OwedRecord(Prefix, k) # "none"
    OBVIOUS
  <2>3. turn.pc = "scan" /\ scan.cur = 0
    BY <2>1 DEF RInv, IInv, ScanSound, PassReports
  <2> HIDE DEF S
  <2>4. /\ scan'.at = scan.at /\ scan'.step = "pick" /\ scan'.left = S
        /\ scan'.cur = scan.cur
    BY <1>1, <2>1 DEF Scans
  <2>5. PassReports'
    BY <1>2, <2>1, <2>2, <2>3, <2>4, PassGoesReports
  <2> QED BY <1>2, <2>3, <2>5, PassStepReports
<1>4. ASSUME NEW k \in Kids, ScanPick(k) PROVE RInv'
  <2>1. /\ scan.step = "pick" /\ k \in scan.left
        /\ \/ scan' = [scan EXCEPT !.left = @ \ {k}, !.cur = k, !.step = "record"]
           \/ scan' = [scan EXCEPT !.left = @ \ {k}, !.ok = FALSE]
           \/ scan' = [scan EXCEPT !.left = @ \ {k}, !.cur = k, !.step = "check"]
    BY <1>4 DEF ScanPick
  <2>2. turn.pc = "scan" /\ scan.cur = 0
    BY <2>1 DEF RInv, IInv, ScanSound, PassReports
  <2>3. /\ scan'.at = scan.at /\ scan'.left = scan.left \ {k}
        /\ \/ scan'.cur = 0
           \/ scan'.cur = k /\ scan'.step \in {"check", "record"}
    <3>1. CASE scan' = [scan EXCEPT !.left = @ \ {k}, !.cur = k, !.step = "record"]
      BY <1>1, <3>1 DEF Scans
    <3>2. CASE scan' = [scan EXCEPT !.left = @ \ {k}, !.ok = FALSE]
      BY <1>1, <2>2, <3>2 DEF Scans
    <3>3. CASE scan' = [scan EXCEPT !.left = @ \ {k}, !.cur = k, !.step = "check"]
      BY <1>1, <3>3 DEF Scans
    <3> QED BY <2>1, <3>1, <3>2, <3>3
  <2>4. PassReports'
    BY <1>2, <2>1, <2>3, PassGoesReports
  <2> QED BY <1>2, <2>2, <2>4, PassStepReports
<1> QED BY <1>3, <1>4

\* The child in hand is dropped.
LEMMA PickedReports ==
    ASSUME RInv, NEW ok \in BOOLEAN, scan' = Picked(ok), scan.step # "off",
           log' = log \/ \E e \in Entries : log' = Append(log, e) /\ ~IsAnswer(e)
    PROVE  PassReports'
<1>1. scan \in Scans
  BY DEF RInv, IInv, Types
<1>2. scan'.at = scan.at /\ scan'.left = scan.left /\ scan'.cur = 0
  BY <1>1 DEF Picked, Scans
<1> QED BY <1>2, PassGoesReports

\* The child in hand is looked at again, or a write about it fails.
LEMMA PassChecksReports ==
    ASSUME RInv, IInv', ScanCheck \/ ScanWriteFails PROVE RInv'
<1>1. /\ scan \in Scans
      /\ gap \in [spilt : SUBSET Calls, hasty : SUBSET Kids, unreturned : SUBSET Calls]
  BY DEF RInv, IInv, Types
<1>2. UNCHANGED <<log, task, turn, queue>> /\ scan.step \in {"check", "return", "record"}
  BY DEF ScanCheck, ScanWriteFails
<1>3. turn.pc = "scan" /\ scan.step # "off"
  BY <1>2 DEF RInv, IInv, ScanSound
<1>4. CASE gap' = gap /\ scan' = Picked(FALSE)
  <2>1. PassReports'
    BY <1>2, <1>3, <1>4, PickedReports
  <2> QED BY <1>2, <1>3, <1>4, <2>1, PassStepReports
<1>5. CASE ScanCheck /\ ~Live(scan.cur)
  <2> DEFINE S == {k \in {scan.cur} : \E i \in Calls : task[i].kid = k /\ Busy(i)}
  <2>1. scan' = [scan EXCEPT !.step = "return"]
    BY <1>5 DEF ScanCheck
  <2>2. gap' = [gap EXCEPT !.hasty = @ \cup S]
    BY <1>5 DEF ScanCheck
  <2> HIDE DEF S
  <2>3. gap.hasty \subseteq gap'.hasty /\ gap'.unreturned = gap.unreturned
    BY <1>1, <2>2
  <2>4. /\ scan'.at = scan.at /\ scan'.left = scan.left /\ scan'.cur = scan.cur
        /\ scan'.step = "return"
    BY <1>1, <2>1 DEF Scans
  <2>5. PassReports'
    BY <1>2, <1>3, <2>4, PassGoesReports
  <2> QED BY <1>2, <1>3, <2>3, <2>5, PassStepReports
<1> QED BY <1>4, <1>5 DEF ScanCheck, ScanWriteFails

\* The pass writes a return.
LEMMA ScanReturnReports ==
    ASSUME RInv, IInv', ScanReturn PROVE RInv'
<1>1. scan \in Scans
  BY DEF RInv, IInv, Types
<1>2. UNCHANGED <<task, turn, queue, gap>> /\ scan.step = "return"
  BY DEF ScanReturn
<1>3. turn.pc = "scan"
  BY <1>2 DEF RInv, IInv, ScanSound
<1>4. CASE log' = log /\ scan' = Picked(TRUE)
  <2>1. PassReports'
    BY <1>2, <1>4, PickedReports
  <2> QED BY <1>2, <1>3, <1>4, <2>1, PassStepReports
<1>5. CASE /\ log' = Append(log, Entry("return", 0, scan.cur, "orphan"))
           /\ scan' = [scan EXCEPT !.step = "record"]
  <2>1. PICK e : e = Entry("return", 0, scan.cur, "orphan")
    OBVIOUS
  <2>2. e \in Entries /\ ~IsAnswer(e) /\ Sayable(e)
    BY <1>1, <2>1 DEF Entry, Entries, Kinds, Hows, Scans, IsAnswer, Sayable
  <2>3. /\ scan'.at = scan.at /\ scan'.left = scan.left /\ scan'.cur = scan.cur
        /\ scan'.step = "record"
    BY <1>1, <1>5 DEF Scans
  <2>4. PassReports'
    BY <1>2, <1>5, <2>1, <2>2, <2>3, PassGoesReports
  <2> QED BY <1>2, <1>3, <1>5, <2>1, <2>2, <2>4, PassStepReports
<1> QED BY <1>4, <1>5 DEF ScanReturn, Write

\* A restart: nothing is queued, and no call waits.
LEMMA CrashReports ==
    ASSUME RInv, IInv', Crash PROVE RInv'
<1>1. task \in [Calls -> Tasks] /\ Types /\ Types'
  BY DEF RInv, IInv, Types
<1>2. /\ log' = log /\ gap' = gap /\ turn' = NoTurn /\ scan' = NoScan /\ queue' = <<>>
      /\ task' = [i \in Calls |-> IF task[i].pc = "none" THEN NoTask
                                  ELSE [NoTask EXCEPT !.pc = "end", !.kid = task[i].kid]]
  BY DEF Crash
<1>3. ASSUME NEW i \in Calls
      PROVE  /\ task'[i].pc \in {"none", "end"} /\ task'[i].ending = "undecided"
             /\ task[i].pc # "none" => task'[i].kid = task[i].kid /\ task'[i].pc = "end"
  BY <1>2 DEF NoTask
<1>4. Steady
  BY <1>2, <1>3 DEF Steady
<1>5. LogReports'
  BY <1>1, <1>2, <1>4, LogReported
<1>6. Len(queue') = 0 /\ Len(turn'.todo) = 0 /\ turn'.pc = "idle"
  BY <1>2 DEF NoTurn
<1>7. QueueReports'
  BY <1>3, <1>6 DEF QueueReports, Opened
<1>8. TurnReports'
  BY <1>6, TurnElsewhere
<1>9. PassReports'
  BY <1>2, <1>4, PassLeft
<1> QED BY <1>5, <1>7, <1>8, <1>9 DEF RInv

\* Once the waiting call has returned an ending and its return is written, a log
\* that holds the answer owes the model nothing about that child: the return is
\* its task's own, and the answer follows it.
LEMMA AnsweredOwesNothing ==
    ASSUME RInv, scan.step # "off", NEW i \in Calls, Plain(i), i \notin gap.unreturned,
           NEW r \in 1..Len(log), IsAnswer(log[r]), log[r].c = i
    PROVE  OwedRecord(Prefix, task[i].kid) = "none"
<1>1. /\ log \in Seq(Entries) /\ IInv /\ scan.at \in Nat /\ scan.at <= Len(log)
  BY DEF RInv, IInv, Types, Scans, ScanSound
<1>2. AnswerSound(r) /\ r <= scan.at
  BY DEF RInv, LogReports, PassReports
<1>3. /\ \A m \in 1..Len(log) : log[m].t = "result" /\ log[m].c = i => r <= m
      /\ \A m \in 1..Len(log) : log[m].t = "call" /\ log[m].c = i => m < r
  BY <1>2 DEF AnswerSound
<1>4. PICK s \in 1..Len(log), n \in 1..Len(log) :
         /\ s < n /\ n < r
         /\ log[s].t = "spawn" /\ log[s].c = i
         /\ log[n].t = "return" /\ log[n].k = task[i].kid /\ log[n].how = "live"
  BY <1>2 DEF AnswerSound, ReturnedBefore
<1>5. EntrySound(log[s])
  BY <1>1 DEF IInv
<1>6. PICK k \in Kids : k = task[i].kid /\ log[s].k = k /\ k # 0
  <2>1. log[s] \in Entries
    BY <1>1
  <2>2. log[s].k \in Kids \cup {0}
    BY <2>1 DEF Entries
  <2> QED BY <1>4, <1>5, <2>2 DEF EntrySound
<1>7. ASSUME NEW m \in 1..Len(log), log[m].t = "spawn", log[m].k = k PROVE m = s
  <2>1. log[m].c \in Calls /\ task[log[m].c].kid = k
    BY <1>1, <1>7, SpawnedFacts
  <2>2. log[m].c = i
    BY <1>6, <2>1 DEF Plain
  <2> QED BY <1>4, <1>7, <2>2 DEF RInv, LogReports, SpawnOnce
<1>8. ASSUME NEW a \in Nat, a <= Len(log), n <= a
      PROVE  Depth(SubSeq(log, 1, a), k) = 0 /\ Spawns(SubSeq(log, 1, a), k) = {s}
  <2>1. PICK q : q = SubSeq(log, 1, a)
    OBVIOUS
  <2>2. q \in Seq(Entries) /\ Len(q) = a /\ \A m \in 1..a : q[m] = log[m]
    BY <1>1, <1>8, <2>1, PrefixFacts
  <2>3. s \in 1..a /\ n \in 1..a
    BY <1>4, <1>8
  <2>4. \A m \in 1..a : m \in 1..Len(log)
    BY <1>1, <1>8
  <2>5. Spawns(q, k) = {s}
    BY <1>4, <1>6, <1>7, <2>2, <2>3, <2>4 DEF Spawns, At
  <2>6. n \in Returns(q, k)
    BY <1>4, <1>6, <2>2, <2>3 DEF Returns, At
  <2>7. Depth(q, k) = 0
    BY <1>4, <2>2, <2>5, <2>6, LoneDepth
  <2> QED BY <2>1, <2>5, <2>7
<1>9. ASSUME NEW m \in 1..Len(log), log[m].t = "return", log[m].k = k PROVE m <= n
  <2> SUFFICES ASSUME n < m PROVE FALSE
    BY <1>4
  <2>1. m - 1 \in Nat /\ m - 1 <= Len(log) /\ n <= m - 1
    BY <1>1, <1>4
  <2>2. Depth(SubSeq(log, 1, m - 1), k) = 0
    BY <1>8, <2>1
  <2>3. k \in Kids \ gap.hasty /\ m \in Returns(log, k)
    BY <1>6, <1>9 DEF Plain, Returns, At
  <2>4. Closes(m)
    BY <1>1, <2>3 DEF IInv, OneReturnOnceBuilt
  <2> QED BY <1>9, <2>2, <2>4 DEF Closes
<1>10. PICK a \in Nat : a = scan.at /\ a <= Len(log) /\ r <= a
  BY <1>1, <1>2
<1>11. PICK p : p = Prefix /\ p = SubSeq(log, 1, a)
  BY <1>10 DEF Prefix
<1>12. /\ p \in Seq(Entries) /\ Len(p) = a
       /\ \A m \in 1..a : m \in 1..Len(log) /\ p[m] = log[m]
  BY <1>1, <1>10, <1>11, PrefixFacts
<1>13. s \in 1..a /\ n \in 1..a /\ r \in 1..a /\ s < n /\ n < r
  BY <1>4, <1>10
<1>14. Depth(p, k) = 0 /\ Spawns(p, k) = {s}
  BY <1>8, <1>10, <1>11, <1>13
<1>15. Newest(Spawns(p, k)) = s /\ CallOf(p, k) = i
  <2>1. Newest({s}) = s
    <3>1. {s} \in SUBSET (1..a) /\ {s} # {}
      BY <1>13
    <3> QED BY <3>1, NewestIs
  <2> QED BY <1>4, <1>12, <1>13, <1>14, <2>1 DEF CallOf
<1>16. LastReturn(p, k) = n
  <2> DEFINE S == {m \in Returns(p, k) : m > s}
  <2>1. S \in SUBSET (1..a) /\ n \in S
    BY <1>4, <1>6, <1>12, <1>13 DEF Returns, At
  <2>2. \A m \in S : m <= n
    BY <1>9, <1>12 DEF Returns, At
  <2>3. LastReturn(p, k) = Newest(S)
    BY <1>15 DEF LastReturn
  <2> HIDE DEF S
  <2>4. Newest(S) \in S /\ n <= Newest(S)
    BY <2>1, NewestIs
  <2>5. PICK x \in 1..a : x = Newest(S) /\ x \in S
    BY <2>1, <2>4
  <2>6. x = n
    BY <1>13, <2>2, <2>4, <2>5
  <2> QED BY <2>3, <2>5, <2>6
<1>17. r \in Results(p, i) /\ \A m \in Results(p, i) : m \in 1..a /\ r <= m
  BY <1>3, <1>12, <1>13 DEF Results, At, IsAnswer
<1>18. ~LaunchedInBackground(p, k)
  <2>1. Results(p, i) \in SUBSET Nat /\ Results(p, i) # {}
    <3>1. Results(p, i) \subseteq 1..a
      BY <1>17
    <3> QED BY <1>17, <3>1
  <2>2. Oldest(Results(p, i)) \in Results(p, i)
    BY <2>1, OldestIn
  <2>3. PICK x : x = Oldest(Results(p, i))
    OBVIOUS
  <2>4. x \in 1..a /\ r <= x
    BY <1>17, <2>2, <2>3
  <2>5. ~(x < n)
    BY <1>13, <2>4
  <2> QED BY <1>15, <1>16, <2>3, <2>5 DEF LaunchedInBackground
<1>19. Visible(p, i) => AnsweredInView(p, i)
  <2> SUFFICES ASSUME Visible(p, i) PROVE AnsweredInView(p, i)
    OBVIOUS
  <2>1. PICK m \in 1..a : p[m].t = "call" /\ p[m].c = i /\ m > Epoch(p)
    BY <1>12 DEF Visible, At
  <2>2. m < r
    BY <1>3, <1>12, <2>1
  <2>3. Epoch(p) \in Nat
    <3> DEFINE C == At(p, LAMBDA e : e.t = "clear")
    <3>1. C \in SUBSET (1..a)
      BY <1>12 DEF At
    <3> HIDE DEF C
    <3>2. Newest(C) = 0 \/ Newest(C) \in 1..a
      BY <3>1, NewestIs
    <3>3. Epoch(p) = Newest(C)
      BY DEF Epoch, C
    <3> QED BY <3>2, <3>3
  <2>4. r > Epoch(p)
    BY <1>13, <2>1, <2>2, <2>3
  <2> QED BY <1>17, <2>4 DEF AnsweredInView
<1>20. p[n].how = "live"
  BY <1>4, <1>12, <1>13
<1>21. ~HasOpenSpawn(p, k) /\ Spawns(p, k) # {}
  BY <1>14 DEF HasOpenSpawn
<1>22. OwedRecord(p, k) = "none"
  BY <1>15, <1>16, <1>18, <1>19, <1>20, <1>21 DEF OwedRecord
<1> QED BY <1>6, <1>11, <1>22

\* The record of the pass: a notice is still owed, and of no ending that the
\* waiting call returned.
LEMMA ScanRecordReports ==
    ASSUME RInv, IInv', ScanRecord PROVE RInv'
<1>1. scan \in Scans /\ log \in Seq(Entries) /\ IInv
  BY DEF RInv, IInv, Types
<1>2. UNCHANGED <<task, turn, queue, gap>> /\ scan.step = "record" /\ scan' = Picked(TRUE)
  BY DEF ScanRecord
<1>3. /\ turn.pc = "scan" /\ scan.cur \in Kids /\ scan.cur # 0
      /\ Spawns(Prefix, scan.cur) # {}
  BY <1>1, <1>2 DEF IInv, ScanSound, Scans
<1>4. PICK k \in Kids : k = scan.cur
  BY <1>3
<1>5. PICK n \in 1..Len(log) : /\ log[n].t = "spawn" /\ log[n].k = k
                               /\ log[n].c = CallOf(Prefix, k)
  BY <1>1, <1>3, <1>4, CallOfFacts DEF Prefix, Scans, IInv, ScanSound
<1>6. PICK c \in Calls : c = CallOf(Prefix, k) /\ task[c].kid = k
  BY <1>1, <1>5, SpawnedFacts
<1>7. Spawned(c)
  BY <1>5, <1>6 DEF Spawned
<1>8. Plain(c) /\ HasAnswer(c) => c \in gap.unreturned
  <2> SUFFICES ASSUME Plain(c), HasAnswer(c), c \notin gap.unreturned PROVE FALSE
    OBVIOUS
  <2>1. PICK r \in 1..Len(log) : IsAnswer(log[r]) /\ log[r].c = c
    BY DEF HasAnswer
  <2>2. OwedRecord(Prefix, task[c].kid) = "none"
    BY <1>2, <2>1, AnsweredOwesNothing
  <2>3. OwedRecord(Prefix, scan.cur) # "none"
    BY <1>3 DEF RInv, PassReports
  <2> QED BY <1>4, <1>6, <2>2, <2>3
<1>9. \/ log' = log
      \/ log' = Append(log, Entry("result", c, 0, "orphan"))
      \/ log' = Append(log, Entry("notice", c, k, "none")) /\ NoticePending(log, k)
  BY <1>4, <1>6 DEF ScanRecord, Write
<1>10. log' = log \/ \E e \in Entries :
         log' = Append(log, e) /\ Sayable(e) /\ ~IsAnswer(e)
  <2>1. CASE log' = Append(log, Entry("result", c, 0, "orphan"))
    <3>1. PICK e : e = Entry("result", c, 0, "orphan")
      OBVIOUS
    <3>2. e \in Entries /\ ~IsAnswer(e) /\ Sayable(e)
      BY <3>1 DEF Entry, Entries, Kinds, Hows, IsAnswer, Sayable
    <3> QED BY <2>1, <3>1, <3>2
  <2>2. CASE log' = Append(log, Entry("notice", c, k, "none")) /\ NoticePending(log, k)
    <3>1. PICK e : e = Entry("notice", c, k, "none")
      OBVIOUS
    <3>2. e \in Entries /\ e.t = "notice" /\ e.c = c /\ e.k = k
      BY <3>1 DEF Entry, Entries, Kinds, Hows
    <3>3. ~IsAnswer(e) /\ Sayable(e)
      BY <1>7, <1>8, <2>2, <3>2 DEF IsAnswer, Sayable
    <3> QED BY <2>2, <3>1, <3>2, <3>3
  <2> QED BY <1>9, <2>1, <2>2
<1>11. PassReports'
  BY <1>2, <1>10, PickedReports
<1> QED BY <1>2, <1>3, <1>10, <1>11, PassStepReports

\* The strengthened invariant holds at the start.
LEMMA InitReports == Init => RInv
<1> SUFFICES ASSUME Init PROVE RInv
  OBVIOUS
<1>1. /\ log = <<>> /\ task = [i \in Calls |-> NoTask] /\ turn = NoTurn
      /\ scan = NoScan /\ queue = <<>>
  BY DEF Init
<1>2. Len(log) = 0 /\ Len(queue) = 0 /\ Len(turn.todo) = 0
  BY <1>1 DEF NoTurn
<1>3. LogReports
  BY <1>2 DEF LogReports, SpawnOnce, NoticesApart
<1>4. QueueReports
  BY <1>1, <1>2 DEF QueueReports, NoTask, Opened
<1>5. TurnReports
  BY <1>1 DEF TurnReports, NoTurn
<1>6. PassReports
  BY <1>1 DEF PassReports, NoScan
<1> QED BY <1>3, <1>4, <1>5, <1>6, InitInvariant DEF RInv

\* Every step keeps it.
LEMMA StepReports == RInv /\ [Next]_vars => RInv'
<1> SUFFICES ASSUME RInv, [Next]_vars PROVE RInv'
  OBVIOUS
<1>1. IInv'
  BY StepInvariant DEF RInv
<1>2. CASE \/ Enter \/ NotificationTurn \/ TakeNotices \/ Finish
           \/ DropTurn \/ TurnFails \/ ScanReadFails
  BY <1>1, <1>2, TurnGoesReports
<1>3. CASE TurnStep
  <2>1. CASE Reconcile \/ TakeNotices \/ AppendNotice \/ Finish \/ AppendResult
    BY <1>1, <1>2, <2>1, ReconcileReports, AppendNoticeReports, AppendResultReports
  <2>2. ASSUME NEW i \in Calls, Delegate(i) \/ Launched(i) \/ Joined(i) \/ Released(i)
        PROVE  RInv'
    BY <1>1, <2>2, DelegateReports, WaitEndsReports
  <2>3. ASSUME NEW i \in Calls, NEW k \in Kids, NEW back \in BOOLEAN, Spawn(i, k, back)
        PROVE  RInv'
    BY <1>1, <2>3, SpawnReports
  <2>4. CASE ScanRead \/ ScanEnd
    BY <1>1, <2>4, PassReadReports
  <2>5. CASE ScanLive \/ \E k \in Kids : ScanPick(k)
    BY <1>1, <2>5, PassPicksReports
  <2>6. CASE ScanCheck \/ ScanReturn \/ ScanRecord
    BY <1>1, <2>6, PassChecksReports, ScanReturnReports, ScanRecordReports
  <2> QED BY <1>3, <2>1, <2>2, <2>3, <2>4, <2>5, <2>6 DEF TurnStep
<1>4. CASE Clear
  BY <1>1, <1>4, ReconcileReports
<1>5. CASE Fault
  <2>1. CASE StopTurn
    BY <1>1, <2>1, WaitEndsReports
  <2>2. CASE ScanWriteFails
    BY <1>1, <2>2, PassChecksReports
  <2>3. CASE Crash
    BY <1>1, <2>3, CrashReports
  <2>4. ASSUME NEW i \in Calls, SpawnFails(i) \/ ReturnFails(i) PROVE RInv'
    BY <1>1, <2>4, TaskGoesReports, ClaimReports
  <2> QED BY <1>2, <1>5, <2>1, <2>2, <2>3, <2>4 DEF Fault
<1>6. ASSUME NEW i \in Calls, TaskStep(i) \/ Handover(i) \/ BudgetElapsed(i) PROVE RInv'
  <2>1. CASE RecordSpawn(i) \/ RunEnds(i) \/ WriteReturn(i)
    BY <1>1, <2>1, RecordSpawnReports, RunEndsReports, WriteReturnReports
  <2>2. CASE Announce(i) \/ Handover(i)
    BY <1>1, <2>2, TaskGoesReports
  <2>3. CASE ClaimReturn(i) \/ BudgetElapsed(i)
    BY <1>1, <2>3, ClaimReports, BudgetReports
  <2> QED BY <1>6, <2>1, <2>2, <2>3 DEF TaskStep
<1>7. CASE UNCHANGED vars
  <2>1. UNCHANGED <<log, task, turn, scan, queue, gap>>
    BY <1>7 DEF vars
  <2>2. TurnReports'
    BY <2>1 DEF RInv, TurnReports, Plain, Returned, ReturnedBefore, Results, NoticesOf, At
  <2> QED BY <1>1, <2>1, <2>2, TurnAloneReports
<1> QED BY <1>2, <1>3, <1>4, <1>5, <1>6, <1>7 DEF Next

\* The ending of a child is reported once: an epoch holds at most one notice of
\* it, and an ending that the waiting call returned is not announced as well,
\* through drops, failures and restarts, unless its return could not be written.
THEOREM ReportedOnce == Spec => []NoSecondReport
<1>1. ASSUME RInv, NEW i \in Calls, Plain(i),
             NEW n \in NoticesOf(i), NEW o \in NoticesOf(i), n > Epoch(log), n < o
      PROVE  FALSE
  <2>1. log \in Seq(Entries) /\ IInv
    BY <1>1 DEF RInv, IInv, Types
  <2>2. /\ n \in 1..Len(log) /\ log[n].t = "notice" /\ log[n].c = i
        /\ o \in 1..Len(log) /\ log[o].t = "notice" /\ log[o].c = i
    BY DEF NoticesOf, At
  <2>3. EntrySound(log[n]) /\ EntrySound(log[o]) /\ log[n] \in Entries
    BY <2>1, <2>2 DEF IInv
  <2>4. PICK k \in Kids : k = task[i].kid /\ log[n].k = k /\ log[o].k = k
    <3>1. log[n].k \in Kids \cup {0}
      BY <2>3 DEF Entries
    <3> QED BY <2>2, <2>3, <3>1 DEF EntrySound
  <2>5. PICK s \in 1..Len(log) : s < n /\ log[s].t = "spawn" /\ log[s].c = i
    BY <1>1, <2>2 DEF RInv, LogReports, NoticesApart
  <2>6. PICK m \in 1..Len(log) :
           /\ n < m /\ m < o
           /\ log[m].t = "clear" \/ (log[m].t = "spawn" /\ log[m].k = k)
    BY <1>1, <2>2, <2>4 DEF RInv, LogReports, NoticesApart
  <2>7. CASE log[m].t = "clear"
    <3> DEFINE C == At(log, LAMBDA e : e.t = "clear")
    <3>1. C \in SUBSET (1..Len(log)) /\ m \in C /\ Len(log) \in Nat
      BY <2>1, <2>7 DEF At
    <3>2. Epoch(log) = Newest(C)
      BY DEF Epoch
    <3> HIDE DEF C
    <3>3. Newest(C) \in C /\ m <= Newest(C)
      BY <3>1, NewestIs
    <3>4. PICK x \in 1..Len(log) : x = Epoch(log) /\ m <= x
      BY <3>1, <3>2, <3>3
    <3> QED BY <1>1, <2>2, <2>6, <3>4
  <2>8. CASE log[m].t = "spawn" /\ log[m].k = k
    <3>1. log[m].c \in Calls /\ task[log[m].c].kid = k
      BY <2>1, <2>8, SpawnedFacts
    <3>2. log[m].c = i
      BY <1>1, <2>4, <3>1 DEF Plain
    <3>3. m = s
      BY <1>1, <2>5, <2>8, <3>2 DEF RInv, LogReports, SpawnOnce
    <3> QED BY <2>2, <2>5, <2>6, <3>3
  <2> QED BY <2>6, <2>7, <2>8
<1>2. RInv => NoSecondReport
  <2> SUFFICES ASSUME RInv, NEW i \in Calls, Plain(i)
               PROVE  /\ Cardinality({n \in NoticesOf(i) : n > Epoch(log)}) <= 1
                      /\ NoticesOf(i) # {} /\ AnsweredAs(i, {"answer"}) =>
                           i \in gap.unreturned
    BY DEF NoSecondReport
  <2> DEFINE N == {n \in NoticesOf(i) : n > Epoch(log)}
  <2>1. Cardinality(N) <= 1
    <3>1. \A n \in N : n \in Nat
      BY DEF NoticesOf, At
    <3>2. \A n, o \in N : n = o
      <4> SUFFICES ASSUME NEW n \in N, NEW o \in N, n # o PROVE FALSE
        OBVIOUS
      <4>1. n \in NoticesOf(i) /\ o \in NoticesOf(i) /\ n > Epoch(log) /\ o > Epoch(log)
        OBVIOUS
      <4>2. n < o \/ o < n
        BY <3>1
      <4> QED BY <1>1, <4>1, <4>2
    <3> HIDE DEF N
    <3>3. CASE N = {}
      BY <3>3, FS_EmptySet
    <3>4. CASE N # {}
      <4>1. PICK n : N = {n}
        BY <3>2, <3>4
      <4>2. Cardinality({n}) = 1
        BY FS_Singleton
      <4> QED BY <4>1, <4>2
    <3> QED BY <3>3, <3>4
  <2>2. ASSUME NoticesOf(i) # {}, AnsweredAs(i, {"answer"}) PROVE i \in gap.unreturned
    <3>1. PICK r \in 1..Len(log) : IsAnswer(log[r]) /\ log[r].c = i
      BY <2>2 DEF AnsweredAs, Results, At, IsAnswer
    <3>2. AnswerSound(r)
      BY <3>1 DEF RInv, LogReports
    <3> QED BY <2>2, <3>1, <3>2 DEF AnswerSound
  <2> QED BY <2>1, <2>2
<1> QED BY <1>2, InitReports, StepReports, PTL DEF Spec

-----------------------------------------------------------------------------
(* No ending is dropped.  An ending handed to the notice is queued when the *)
(* run ends, and leaves the queue and the turn that drains it only for the  *)
(* log, or counted as spilt; so what is neither told nor waiting is an      *)
(* ending that a restart took from the queue.  Its log owes a record, the   *)
(* restart asked for a pass, and the pass that counts as complete has held  *)
(* the child.                                                               *)

Queued(i) == \E n \in 1..Len(queue) : queue[n] = i
Taken(i) == \E n \in 1..Len(turn.todo) : turn.todo[n] = i
Crashed(i) == task[i].pc = "end" /\ task[i].ending = "undecided"

\* An ending that waits nowhere but in the log.
Stranded(i) ==
    /\ Ended(i) /\ Plain(i) /\ ~Lost(i) /\ ~LateAck(i) /\ ~Told(i)
    /\ ~Queued(i) /\ ~Taken(i) /\ Results(log, i) # {}

\* An acknowledged call has its spawn behind it and its ending with the notice;
\* a refused one has no child.
ResultSound(n) ==
    LET i == log[n].c
    IN /\ log[n].how \in {"answer", "ack", "refused", "interrupted", "orphan"}
       /\ log[n].how = "ack" =>
            /\ i # 0
            /\ \E m \in 1..Len(log) : m < n /\ log[m].t = "spawn" /\ log[m].c = i
            /\ task[i].ending = "notify" \/ Crashed(i)
       /\ log[n].how = "refused" =>
            i # 0 /\ ~Spawned(i) /\ task[i].pc \in {"none", "end"}
ResultsKept == \A n \in 1..Len(log) : log[n].t = "result" => ResultSound(n)

\* An ending for the notice is in the queue, in the turn that drains it, in the
\* log, or spilt.
TaskKept(i) ==
    /\ task[i].back => task[i].ending = "notify"
    /\ task[i].pc \in {"tail", "hold"} => task[i].ending # "undecided"
    /\ task[i].refused => task[i].pc = "end" /\ ~Spawned(i)
    /\ task[i].pc \in Over /\ task[i].ending = "notify" /\ Spawned(i) /\ Plain(i) =>
         Queued(i) \/ Taken(i) \/ Told(i) \/ i \in gap.spilt
TasksKept == \A i \in Calls : TaskKept(i)

TurnKept ==
    /\ turn.pc # "notices" => turn.todo = <<>>
    /\ turn.pc = "wait" =>
         /\ task[turn.call].pc # "none"
         /\ task[turn.call].pc = "end" /\ ~task[turn.call].refused => Spawned(turn.call)
    /\ turn.pc = "result" =>
         /\ turn.how \in {"answer", "ack", "refused", "interrupted"}
         /\ turn.how = "ack" => Spawned(turn.call) /\ task[turn.call].ending = "notify"
         /\ turn.how = "refused" =>
              ~Spawned(turn.call) /\ task[turn.call].pc \in {"none", "end"}

\* The pass has the child set aside or in hand, and nobody else closes its spawn.
PassHas(k) ==
    /\ \/ scan.step = "read" /\ OwedRecord(Prefix, k) # "none"
       \/ scan.step # "read" /\ (k \in scan.left \/ scan.cur = k)
    /\ (scan.cur # k \/ scan.step # "record") =>
         (HasOpenSpawn(Prefix, k) => HasOpenSpawn(log, k))
    /\ scan.cur = k /\ scan.step \in {"check", "return"} => HasOpenSpawn(Prefix, k)
PassKept ==
    /\ scan.step # "off" => scan.gen <= gen.requested
    /\ scan.step # "off" =>
         \A r \in 1..Len(log) : log[r].t = "result" /\ log[r].how # "orphan" => r <= scan.at
    /\ scan.step # "off" /\ scan.ok /\ gen.requested = scan.gen =>
         \A i \in Calls : Stranded(i) => PassHas(task[i].kid)
GenKept == \A i \in Calls : Stranded(i) => gen.scanned # gen.requested

KInv == RInv /\ ResultsKept /\ TasksKept /\ TurnKept /\ PassKept /\ GenKept

\* A log with one spawn of a child and no return behind it has it open.
LEMMA OpenDepth ==
    ASSUME NEW p \in Seq(Entries), NEW k,
           NEW s \in Spawns(p, k), \A n \in Spawns(p, k) : n = s,
           \A n \in Returns(p, k) : ~(s < n)
    PROVE  Depth(p, k) > 0
<1> DEFINE S == Spawns(p, k)
           R == Returns(p, k)
           L == Len(p)
           f == CHOOSE h : Counts(S, R, L, h)
           Good(n) == n < s \/ (f[n] \in Nat /\ f[n] > 0)
           Bad == {n \in 0..L : ~Good(n)}
<1>1. L \in Nat /\ s \in 1..L
  BY DEF Spawns, At
<1>2. Depth(p, k) = f[L]
  BY DepthCounts
<1>3. s \in S /\ \A n \in R : ~(s < n)
  OBVIOUS
<1>4. \E h \in [0..L -> Nat] : Counts(S, R, L, h)
  <2> HIDE DEF S, R, L
  <2> QED BY <1>1, CountsExist
<1>5. Counts(S, R, L, f)
  <2> HIDE DEF S, R, L
  <2> QED BY <1>4
<1>6. f[s - 1] \in Nat
  <2>1. PICK h \in [0..L -> Nat] : Counts(S, R, L, h)
    BY <1>4
  <2> HIDE DEF S, R, L, f
  <2>2. f[s - 1] = h[s - 1]
    BY <1>1, <1>5, <2>1, CountsAgree
  <2> QED BY <1>1, <2>1, <2>2
<1> HIDE DEF S, R, L, f
<1>7. \A n \in 1..L : f[n] = IF n \in S THEN f[n - 1] + 1
                             ELSE IF n \in R /\ f[n - 1] > 0 THEN f[n - 1] - 1
                             ELSE f[n - 1]
  BY <1>1, <1>5, CountsAt
<1>8. Bad = {}
  <2> SUFFICES ASSUME Bad # {} PROVE FALSE
    OBVIOUS
  <2>1. PICK n \in Bad : \A y \in Bad : n <= y
    <3>1. Bad \in SUBSET Nat
      BY <1>1
    <3> HIDE DEF Bad
    <3> QED BY <3>1, LeastOf
  <2>2. n \in 0..L /\ s <= n /\ ~Good(n)
    BY <1>1, <2>1
  <2>3. CASE n = s
    BY <1>1, <1>3, <1>6, <1>7, <2>2, <2>3
  <2>4. CASE n # s
    <3>1. n \in 1..L /\ n - 1 \in 0..L /\ n - 1 \notin Bad /\ s < n /\ ~(n - 1 < s)
      BY <1>1, <2>1, <2>2, <2>4
    <3>2. f[n - 1] \in Nat /\ f[n - 1] > 0
      BY <3>1
    <3>3. n \notin R
      BY <1>3, <3>1
    <3> QED BY <1>7, <2>2, <3>1, <3>2, <3>3
  <2> QED BY <2>3, <2>4
<1>9. Good(L)
  BY <1>1, <1>8
<1> QED BY <1>1, <1>2, <1>9

\* The spawn of a call is where its record is.
LEMMA SpawnAtIs ==
    ASSUME log \in Seq(Entries), SpawnOnce, NEW i
    PROVE  /\ SpawnAt(i) # 0 <=> Spawned(i)
           /\ \A s \in 1..Len(log) : log[s].t = "spawn" /\ log[s].c = i => SpawnAt(i) = s
<1> DEFINE S == At(log, LAMBDA e : e.t = "spawn" /\ e.c = i)
<1>1. S \in SUBSET (1..Len(log)) /\ Len(log) \in Nat
  BY DEF At
<1>2. \A s : s \in S <=> s \in 1..Len(log) /\ log[s].t = "spawn" /\ log[s].c = i
  BY DEF At
<1>3. SpawnAt(i) = Newest(S)
  BY DEF SpawnAt
<1> HIDE DEF S
<1>4. S = {} <=> ~Spawned(i)
  BY <1>2 DEF Spawned
<1>5. ASSUME NEW s \in 1..Len(log), log[s].t = "spawn", log[s].c = i PROVE Newest(S) = s
  <2>1. s \in S
    BY <1>2, <1>5
  <2>2. Newest(S) \in S
    BY <1>1, <2>1, NewestIs
  <2> QED BY <1>2, <1>5, <2>2 DEF SpawnOnce
<1>6. Spawned(i) => Newest(S) # 0
  <2> SUFFICES ASSUME Spawned(i) PROVE Newest(S) # 0
    OBVIOUS
  <2>1. Newest(S) \in S
    BY <1>1, <1>4, NewestIs
  <2>2. Newest(S) \in 1..Len(log)
    BY <1>1, <2>1
  <2> QED BY <1>1, <2>2
<1>7. ~Spawned(i) => Newest(S) = 0
  BY <1>4 DEF Newest
<1> QED BY <1>3, <1>5, <1>6, <1>7

\* The epoch is a position of the log, or zero.
LEMMA EpochIs ==
    ASSUME NEW p \in Seq(Entries)
    PROVE  /\ Epoch(p) \in Nat
           /\ Epoch(p) # 0 => Epoch(p) \in 1..Len(p) /\ p[Epoch(p)].t = "clear"
           /\ \A m \in 1..Len(p) : p[m].t = "clear" => m <= Epoch(p)
<1> DEFINE C == At(p, LAMBDA e : e.t = "clear")
<1>1. C \in SUBSET (1..Len(p)) /\ Len(p) \in Nat
  BY DEF At
<1>2. \A m : m \in C <=> m \in 1..Len(p) /\ p[m].t = "clear"
  BY DEF At
<1>3. Epoch(p) = Newest(C)
  BY DEF Epoch
<1> HIDE DEF C
<1>4. CASE C = {}
  BY <1>1, <1>2, <1>3, <1>4, NewestIs
<1>5. CASE C # {}
  <2>1. Newest(C) \in C /\ \A m \in C : m <= Newest(C)
    BY <1>1, <1>5, NewestIs
  <2>2. PICK x \in 1..Len(p) : x = Epoch(p) /\ x \in C
    BY <1>1, <1>3, <2>1
  <2> QED BY <1>2, <1>3, <2>1, <2>2
<1> QED BY <1>4, <1>5

\* What is known of an ending that waits nowhere but in the log: its results are
\* acknowledgements between its spawn and any return, nothing announces it, and
\* a restart ended it.
LEMMA StrandedFacts ==
    ASSUME RInv, ResultsKept, TasksKept, NEW i \in Calls, Stranded(i)
    PROVE  \E k \in Kids, s \in 1..Len(log) :
             /\ k = task[i].kid /\ Crashed(i)
             /\ log[s].t = "spawn" /\ log[s].c = i /\ Spawns(log, k) = {s}
             /\ Notices(log, k) = {} /\ ~(s < Epoch(log))
             /\ \A n \in Results(log, i) : log[n].how = "ack" /\ s < n
             /\ \A n \in Results(log, i) : \A q \in Returns(log, k) : s < q => n < q
<1>1. log \in Seq(Entries) /\ IInv /\ SpawnOnce
  BY DEF RInv, IInv, Types, LogReports
<1>2. /\ task[i].pc = "end" /\ SpawnAt(i) # 0 /\ Plain(i)
      /\ i \notin gap.spilt /\ ~(SpawnAt(i) < Epoch(log)) /\ ~LateAck(i)
      /\ ~Queued(i) /\ ~Taken(i) /\ Results(log, i) # {}
  BY DEF Stranded, Ended, Lost
<1>3. /\ NoticesOf(i) = {}
      /\ \A n \in Results(log, i) : log[n].how \notin {"answer", "orphan", "interrupted"}
  BY DEF Stranded, Told, AnsweredAs
<1>4. PICK s \in 1..Len(log) : log[s].t = "spawn" /\ log[s].c = i
  BY <1>1, <1>2, SpawnAtIs DEF Spawned
<1>5. SpawnAt(i) = s /\ Spawned(i)
  BY <1>1, <1>4, SpawnAtIs DEF Spawned
<1>6. PICK k \in Kids : k = task[i].kid /\ log[s].k = k
  <2>1. EntrySound(log[s]) /\ log[s] \in Entries
    BY <1>1 DEF IInv
  <2>2. log[s].k \in Kids \cup {0}
    BY <2>1 DEF Entries
  <2> QED BY <1>4, <2>1, <2>2 DEF EntrySound
<1>7. ASSUME NEW n \in 1..Len(log), log[n].t \in {"spawn", "notice"}, log[n].k = k
      PROVE  log[n].c = i
  <2>1. EntrySound(log[n]) /\ log[n] \in Entries
    BY <1>1 DEF IInv
  <2>2. log[n].c \in Calls
    BY <1>7, <2>1 DEF EntrySound, Entries
  <2> QED BY <1>2, <1>6, <1>7, <2>1, <2>2 DEF EntrySound, Plain
<1>8. Spawns(log, k) = {s}
  <2>1. \A n \in Spawns(log, k) : n = s
    BY <1>1, <1>4, <1>7 DEF Spawns, At, SpawnOnce
  <2>2. s \in Spawns(log, k)
    BY <1>4, <1>6 DEF Spawns, At
  <2> QED BY <2>1, <2>2
<1>9. Notices(log, k) = {}
  BY <1>3, <1>7 DEF Notices, NoticesOf, At
<1>10. ASSUME NEW n \in Results(log, i)
       PROVE  /\ n \in 1..Len(log) /\ log[n].how = "ack" /\ s < n
              /\ task[i].ending = "notify" \/ Crashed(i)
  <2>1. n \in 1..Len(log) /\ log[n].t = "result" /\ log[n].c = i
    BY DEF Results, At
  <2>2. ResultSound(n)
    BY <2>1 DEF ResultsKept
  <2>3. log[n].how = "ack"
    BY <1>3, <1>5, <2>1, <2>2 DEF ResultSound
  <2>4. PICK m \in 1..Len(log) : m < n /\ log[m].t = "spawn" /\ log[m].c = i
    BY <2>1, <2>2, <2>3 DEF ResultSound
  <2>5. m = s
    BY <1>1, <1>4, <2>4 DEF SpawnOnce
  <2> QED BY <2>1, <2>2, <2>3, <2>4, <2>5 DEF ResultSound
<1>11. Crashed(i)
  <2>1. TaskKept(i)
    BY DEF TasksKept
  <2>2. ~Told(i)
    BY DEF Stranded
  <2>3. task[i].ending # "notify"
    BY <1>2, <1>5, <2>1, <2>2 DEF TaskKept, Over
  <2> QED BY <1>2, <1>10, <2>3
<1>12. ASSUME NEW n \in Results(log, i), NEW q \in Returns(log, k), s < q PROVE n < q
  <2>1. n \in 1..Len(log) /\ log[n].t = "result" /\ log[n].how = "ack"
    BY <1>10 DEF Results, At
  <2>2. q \in 1..Len(log) /\ log[q].t = "return"
    BY DEF Returns, At
  <2>3. ~(q < n)
    BY <1>2, <1>5, <1>6, <1>12, <2>1 DEF LateAck
  <2>4. q # n
    BY <2>1, <2>2
  <2> QED BY <2>1, <2>2, <2>3, <2>4
<1>13. ~(s < Epoch(log))
  BY <1>2, <1>5
<1> QED BY <1>4, <1>6, <1>8, <1>9, <1>10, <1>11, <1>12, <1>13

\* The log owes a record about it.
LEMMA StrandedOwed ==
    ASSUME RInv, ResultsKept, TasksKept, NEW i \in Calls, Stranded(i)
    PROVE  OwedRecord(log, task[i].kid) # "none"
<1>1. PICK k \in Kids, s \in 1..Len(log) :
         /\ k = task[i].kid /\ Crashed(i)
         /\ log[s].t = "spawn" /\ log[s].c = i /\ Spawns(log, k) = {s}
         /\ Notices(log, k) = {} /\ ~(s < Epoch(log))
         /\ \A n \in Results(log, i) : log[n].how = "ack" /\ s < n
         /\ \A n \in Results(log, i) : \A q \in Returns(log, k) : s < q => n < q
  BY StrandedFacts
<1>2. log \in Seq(Entries) /\ Len(log) \in Nat /\ Epoch(log) \in Nat
  BY EpochIs DEF RInv, IInv, Types
<1>3. Newest(Spawns(log, k)) = s /\ CallOf(log, k) = i
  <2>1. {s} \in SUBSET (1..Len(log)) /\ {s} # {}
    OBVIOUS
  <2>2. Newest({s}) = s
    BY <1>2, <2>1, NewestIs
  <2> QED BY <1>1, <2>2 DEF CallOf
<1>4. NoticePending(log, k)
  BY <1>1 DEF NoticePending
<1>5. Results(log, i) # {} /\ Results(log, i) \subseteq 1..Len(log)
  BY DEF Stranded, Results, At
<1>6. Oldest(Results(log, i)) \in Results(log, i)
  <2>1. Results(log, i) \in SUBSET Nat
    BY <1>5
  <2> QED BY <1>5, <2>1, OldestIn
<1>7. AnsweredInView(log, i)
  <2>1. PICK n \in Results(log, i) : n \in 1..Len(log) /\ s < n
    BY <1>1, <1>5
  <2>2. n > Epoch(log)
    BY <1>1, <1>2, <2>1
  <2> QED BY <2>1, <2>2 DEF AnsweredInView
<1>8. HasOpenSpawn(log, k) \/ LaunchedInBackground(log, k)
  <2> SUFFICES ASSUME ~HasOpenSpawn(log, k) PROVE LaunchedInBackground(log, k)
    OBVIOUS
  <2> DEFINE R == {n \in Returns(log, k) : n > s}
  <2>1. R # {}
    <3> SUFFICES ASSUME R = {} PROVE FALSE
      OBVIOUS
    <3>1. \A n \in Returns(log, k) : ~(s < n)
      OBVIOUS
    <3>2. s \in Spawns(log, k) /\ \A n \in Spawns(log, k) : n = s
      BY <1>1
    <3>3. Depth(log, k) > 0
      BY <1>2, <3>1, <3>2, OpenDepth
    <3> QED BY <3>3 DEF HasOpenSpawn
  <2>2. R \in SUBSET (1..Len(log))
    BY DEF Returns, At
  <2>3. LastReturn(log, k) = Newest(R)
    BY <1>3 DEF LastReturn
  <2>4. \A q \in R : q \in Returns(log, k) /\ s < q
    OBVIOUS
  <2> HIDE DEF R
  <2>5. Newest(R) \in R
    BY <1>2, <2>1, <2>2, NewestIs
  <2>6. PICK q \in 1..Len(log) : q = Newest(R) /\ q \in Returns(log, k) /\ s < q
    BY <2>2, <2>4, <2>5
  <2>7. PICK n \in 1..Len(log) : n = Oldest(Results(log, i)) /\ n \in Results(log, i)
    BY <1>5, <1>6
  <2>8. n < q /\ n # 0 /\ q # 0
    BY <1>1, <2>6, <2>7
  <2> QED BY <1>3, <2>3, <2>6, <2>7, <2>8 DEF LaunchedInBackground
<1>9. Spawns(log, k) # {}
  BY <1>1
<1>10. OwedRecord(log, k) # "none"
  BY <1>3, <1>4, <1>7, <1>8, <1>9 DEF OwedRecord
<1> QED BY <1>1, <1>10

\* So a stranded ending is one that a restart ended, before a step and after.
StrandedByRestart == \A i \in Calls : Stranded(i) => Crashed(i)
LEMMA StrandedCrashed == RInv /\ ResultsKept /\ TasksKept => StrandedByRestart
BY StrandedFacts DEF StrandedByRestart

\* The same of the state a step leads to.
LEMMA StrandedCrashedNext == RInv' /\ ResultsKept' /\ TasksKept' => StrandedByRestart'
BY StrandedCrashed, PTL

\* A call whose spawn has a place in the log has a spawn record.
PlacedSpawned == \A i \in Calls : SpawnAt(i) # 0 => Spawned(i)
LEMMA Placed == RInv => PlacedSpawned
BY SpawnAtIs DEF RInv, IInv, Types, LogReports, PlacedSpawned

\* The same of the state a step leads to.
LEMMA PlacedNext == RInv' => PlacedSpawned'
BY Placed, PTL

\* What a result may say when it is written.
Answerable(e) ==
    /\ e.how \in {"answer", "ack", "refused", "interrupted", "orphan"}
    /\ e.how = "ack" => e.c # 0 /\ Spawned(e.c) /\ task[e.c].ending = "notify"
    /\ e.how = "refused" =>
         e.c # 0 /\ ~Spawned(e.c) /\ task[e.c].pc \in {"none", "end"}

\* A step other than a restart: an ending for the notice stays with it, and
\* nothing that a restart ended is taken up again.
Onward ==
    /\ \A j \in Calls : task[j].pc # "none" /\ task[j].ending = "notify" =>
         task'[j].ending = "notify"
    /\ \A j \in Calls : task[j].pc = "none" /\ Results(log, j) # {} => task'[j].pc = "none"
    /\ \A j \in Calls : Crashed(j) => task'[j] = task[j]
    /\ \A j \in Calls : Crashed(j)' => Crashed(j) \/ (task[j].pc = "start" /\ log' = log)
    /\ gap.spilt \subseteq gap'.spilt
    /\ \A n \in 1..Len(log') : n \notin 1..Len(log) =>
         /\ log'[n].t = "spawn" => log'[n].c # 0 /\ task[log'[n].c].pc = "start"
         /\ log'[n].t = "result" => Answerable(log'[n]) /\ task' = task

\* What a notice or an answer told stays told.
LEMMA ToldStays ==
    ASSUME Types, Steady, NEW i, Told(i)
    PROVE  Told(i)'
<1>1. \A n \in 1..Len(log) : n \in 1..Len(log') /\ log'[n] = log[n]
  BY LogGrown
<1>2. CASE NoticesOf(i) # {}
  BY <1>1, <1>2 DEF Told, NoticesOf, At
<1>3. CASE AnsweredAs(i, {"answer", "orphan", "interrupted"})
  BY <1>1, <1>3 DEF Told, AnsweredAs, Results, At
<1> QED BY <1>2, <1>3 DEF Told

\* A spawn is recorded for a task at its start only.
LEMMA SpawnedBefore ==
    ASSUME Types, Steady, Onward, NEW i, Spawned(i)'
    PROVE  Spawned(i) \/ (i # 0 /\ task[i].pc = "start" /\ log' # log)
<1>1. /\ \A n \in 1..Len(log) : n \in 1..Len(log') /\ log'[n] = log[n]
  BY LogGrown
<1>2. PICK m \in 1..Len(log') : log'[m].t = "spawn" /\ log'[m].c = i
  BY DEF Spawned
<1>3. CASE m \in 1..Len(log)
  BY <1>1, <1>2, <1>3 DEF Spawned
<1>4. CASE m \notin 1..Len(log)
  BY <1>2, <1>4 DEF Onward
<1> QED BY <1>3, <1>4

\* A call with a spawn record has a task that is past its start.
LEMMA SpawnedPast ==
    ASSUME IInv, NEW i, Spawned(i)
    PROVE  i \in Calls /\ task[i].pc \notin {"none", "start"}
<1>1. PICK m \in 1..Len(log) : log[m].t = "spawn" /\ log[m].c = i
  BY DEF Spawned
<1>2. EntrySound(log[m]) /\ log[m] \in Entries
  BY <1>1 DEF IInv, Types
<1> QED BY <1>1, <1>2 DEF EntrySound, Entries

\* What the results say stays true.
LEMMA ResultsStayKept ==
    ASSUME RInv, ResultsKept, Types', Steady, Onward PROVE ResultsKept'
<1>1. IInv /\ Types
  BY DEF RInv, IInv
<1>2. /\ Len(log) \in Nat
      /\ \A n \in 1..Len(log) : n \in 1..Len(log') /\ log'[n] = log[n]
      /\ \A n \in 1..Len(log') : n \in 1..Len(log) \/ n = Len(log) + 1
  BY <1>1, LogGrown
<1> SUFFICES ASSUME NEW n \in 1..Len(log'), log'[n].t = "result"
             PROVE  ResultSound(n)'
  BY DEF ResultsKept
<1>3. PICK i : i = log'[n].c
  OBVIOUS
<1>4. i \in Calls \cup {0}
  <2>1. log'[n] \in Entries
    BY DEF Types
  <2> QED BY <1>3, <2>1 DEF Entries
<1>5. CASE n \in 1..Len(log)
  <2>1. ResultSound(n) /\ log'[n] = log[n]
    BY <1>2, <1>5 DEF ResultsKept
  <2>2. ASSUME log[n].how = "ack"
        PROVE  /\ i # 0
               /\ \E m \in 1..Len(log') : m < n /\ log'[m].t = "spawn" /\ log'[m].c = i
               /\ task'[i].ending = "notify" \/ Crashed(i)'
    <3>1. PICK m \in 1..Len(log) : m < n /\ log[m].t = "spawn" /\ log[m].c = i
      BY <1>3, <2>1, <2>2 DEF ResultSound
    <3>2. i # 0 /\ (task[i].ending = "notify" \/ Crashed(i))
      BY <1>3, <2>1, <2>2 DEF ResultSound
    <3>3. i \in Calls /\ task[i].pc # "none"
      BY <1>1, <3>1, SpawnedPast DEF Spawned
    <3>4. Crashed(i) => Crashed(i)'
      BY <3>3 DEF Onward, Crashed
    <3>5. task[i].ending = "notify" => task'[i].ending = "notify"
      BY <3>3 DEF Onward
    <3> QED BY <1>2, <3>1, <3>2, <3>4, <3>5
  <2>3. ASSUME log[n].how = "refused"
        PROVE  i # 0 /\ ~Spawned(i)' /\ task'[i].pc \in {"none", "end"}
    <3>1. i # 0 /\ ~Spawned(i) /\ task[i].pc \in {"none", "end"}
      BY <1>3, <2>1, <2>3 DEF ResultSound
    <3>2. i \in Calls /\ Results(log, i) # {}
      BY <1>3, <1>4, <1>5, <2>1, <3>1 DEF Results, At
    <3>3. ~Spawned(i)'
      BY <1>1, <3>1, SpawnedBefore
    <3>4. task'[i].pc \in {"none", "end"}
      BY <3>1, <3>2 DEF Onward, Steady
    <3> QED BY <3>1, <3>3, <3>4
  <2>4. log'[n].how \in {"answer", "ack", "refused", "interrupted", "orphan"}
    BY <2>1 DEF ResultSound
  <2>5. Spawned(log[n].c)' = Spawned(i)' /\ Crashed(log[n].c)' = Crashed(i)'
    BY <1>3 DEF Spawned, Crashed
  <2> QED BY <1>3, <2>1, <2>2, <2>3, <2>4, <2>5 DEF ResultSound
<1>6. CASE n \notin 1..Len(log)
  <2>1. Answerable(log'[n]) /\ task' = task /\ n = Len(log) + 1
    BY <1>2, <1>6 DEF Onward
  <2>2. ASSUME log'[n].how = "ack"
        PROVE  /\ i # 0
               /\ \E m \in 1..Len(log') : m < n /\ log'[m].t = "spawn" /\ log'[m].c = i
               /\ task'[i].ending = "notify"
    <3>1. i # 0 /\ Spawned(i) /\ task[i].ending = "notify"
      BY <1>3, <2>1, <2>2 DEF Answerable
    <3>2. PICK m \in 1..Len(log) : log[m].t = "spawn" /\ log[m].c = i
      BY <3>1 DEF Spawned
    <3>3. m < n
      BY <1>2, <2>1
    <3> QED BY <1>2, <2>1, <3>1, <3>2, <3>3
  <2>3. ASSUME log'[n].how = "refused"
        PROVE  i # 0 /\ ~Spawned(i)' /\ task'[i].pc \in {"none", "end"}
    <3>1. i # 0 /\ ~Spawned(i) /\ task[i].pc \in {"none", "end"}
      BY <1>3, <2>1, <2>3 DEF Answerable
    <3>2. ~Spawned(i)'
      BY <1>1, <3>1, SpawnedBefore
    <3> QED BY <2>1, <3>1, <3>2
  <2>4. log'[n].how \in {"answer", "ack", "refused", "interrupted", "orphan"}
    BY <2>1 DEF Answerable
  <2>5. Spawned(log[n].c)' = Spawned(i)' /\ Crashed(log[n].c)' = Crashed(i)'
    BY <1>3 DEF Spawned, Crashed
  <2> QED BY <1>3, <2>2, <2>3, <2>4, <2>5 DEF ResultSound
<1> QED BY <1>5, <1>6

\* How a task goes on.
TaskMoved(j) ==
    \/ task'[j] = task[j]
    \/ /\ task'[j].back => task'[j].ending = "notify"
       /\ task'[j].pc \in {"tail", "hold"} => task'[j].ending # "undecided"
       /\ task'[j].refused => task'[j].pc = "end" /\ task[j].pc = "start" /\ log' = log
       /\ task'[j].pc \in Over /\ task'[j].ending = "notify" /\ ~task'[j].refused =>
            (task[j].pc \in Over /\ task[j].ending = "notify") \/ Queued(j)'

\* What is queued or taken stays so until it is told or spilt.
NoticeKept ==
    \A j \in Calls : (Queued(j) \/ Taken(j)) /\ Plain(j) =>
        Queued(j)' \/ Taken(j)' \/ Told(j)' \/ j \in gap'.spilt

\* An ending for the notice stays where it can be found.
LEMMA TasksStayKept ==
    ASSUME RInv, TasksKept, Steady, Onward, NoticeKept, \A j \in Calls : TaskMoved(j)
    PROVE  TasksKept'
<1>1. IInv /\ Types
  BY DEF RInv, IInv
<1> SUFFICES ASSUME NEW j \in Calls PROVE TaskKept(j)'
  BY DEF TasksKept
<1>2. TaskKept(j) /\ TaskMoved(j)
  BY DEF TasksKept
<1>3. /\ task'[j].back => task'[j].ending = "notify"
      /\ task'[j].pc \in {"tail", "hold"} => task'[j].ending # "undecided"
  BY <1>2 DEF TaskKept, TaskMoved
<1>4. Spawned(j)' => Spawned(j) \/ (task[j].pc = "start" /\ log' # log)
  BY <1>1, SpawnedBefore
<1>5. Spawned(j) => task[j].pc \notin {"none", "start"}
  BY <1>1, SpawnedPast
<1>6. task'[j].refused => task'[j].pc = "end" /\ ~Spawned(j)'
  <2>1. CASE task'[j] = task[j]
    BY <1>2, <1>4, <2>1 DEF TaskKept
  <2>2. CASE task'[j] # task[j]
    BY <1>2, <1>4, <1>5, <2>2 DEF TaskMoved
  <2> QED BY <2>1, <2>2
<1>7. ASSUME task'[j].pc \in Over, task'[j].ending = "notify", Spawned(j)', Plain(j)'
      PROVE  Queued(j)' \/ Taken(j)' \/ Told(j)' \/ j \in gap'.spilt
  <2>1. (task[j].pc \in Over /\ task[j].ending = "notify") \/ Queued(j)'
    BY <1>2, <1>6, <1>7 DEF TaskMoved
  <2>2. CASE task[j].pc \in Over /\ task[j].ending = "notify"
    <3>1. Spawned(j) /\ task[j].pc # "none"
      BY <1>4, <1>7, <2>2 DEF Over
    <3>2. Plain(j)
      BY <1>1, <1>7, <3>1, PlainBefore
    <3>3. Queued(j) \/ Taken(j) \/ Told(j) \/ j \in gap.spilt
      BY <1>2, <2>2, <3>1, <3>2 DEF TaskKept
    <3>4. Told(j) => Told(j)'
      BY <1>1, ToldStays
    <3> QED BY <3>2, <3>3, <3>4 DEF NoticeKept, Onward
  <2> QED BY <2>1, <2>2
<1> QED BY <1>3, <1>6, <1>7 DEF TaskKept

\* The spawn records of a call in a log.
SpawnsOf(p, i) == {n \in 1..Len(p) : p[n].t = "spawn" /\ p[n].c = i}

\* The epoch only moves on, and a recorded spawn stays where it is.
LEMMA PlacesStay ==
    ASSUME IInv, Types', Steady, Onward, NEW i \in Calls, Spawned(i)
    PROVE  SpawnAt(i)' = SpawnAt(i) /\ Epoch(log) <= Epoch(log')
<1>1. Types
  BY DEF IInv
<1>2. /\ \A n \in 1..Len(log) : n \in 1..Len(log') /\ log'[n] = log[n]
      /\ \A n \in 1..Len(log') : n \in 1..Len(log) \/ n = Len(log) + 1
  BY <1>1, LogGrown
<1>3. task[i].pc # "start"
  BY SpawnedPast
<1>4. ASSUME NEW n \in 1..Len(log'), log'[n].t = "spawn", log'[n].c = i
      PROVE  n \in 1..Len(log)
  BY <1>3, <1>4 DEF Onward
<1>5. SpawnsOf(log', i) = SpawnsOf(log, i)
  BY <1>2, <1>4 DEF SpawnsOf
<1>6. SpawnAt(i)' = Newest(SpawnsOf(log', i)) /\ SpawnAt(i) = Newest(SpawnsOf(log, i))
  BY DEF SpawnAt, SpawnsOf, At
<1>7. Epoch(log) <= Epoch(log')
  <2>1. PICK p \in Seq(Entries) : p = log
    BY <1>1 DEF Types
  <2>2. PICK q \in Seq(Entries) : q = log'
    BY DEF Types
  <2>3. Epoch(q) \in Nat /\ \A m \in 1..Len(q) : q[m].t = "clear" => m <= Epoch(q)
    BY EpochIs
  <2>4. Epoch(p) \in Nat /\ (Epoch(p) # 0 => Epoch(p) \in 1..Len(p) /\ p[Epoch(p)].t = "clear")
    BY EpochIs
  <2>5. Epoch(p) <= Epoch(q)
    BY <1>2, <2>1, <2>2, <2>3, <2>4
  <2> QED BY <2>1, <2>2, <2>5
<1> QED BY <1>5, <1>6, <1>7

\* Only a restart strands an ending.
LEMMA StrandedBefore ==
    ASSUME RInv, RInv', ResultsKept', TasksKept', Steady, Onward,
           NEW i \in Calls, Stranded(i)'
    PROVE  Stranded(i) /\ Crashed(i) /\ task'[i] = task[i]
<1>1. IInv /\ Types /\ Types' /\ SpawnOnce /\ SpawnOnce'
  BY DEF RInv, IInv, LogReports
<1>2. Crashed(i)'
  BY StrandedCrashedNext DEF StrandedByRestart
<1>3. /\ task'[i].pc = "end" /\ SpawnAt(i)' # 0 /\ Plain(i)'
      /\ i \notin gap'.spilt /\ ~(SpawnAt(i)' < Epoch(log')) /\ ~LateAck(i)'
      /\ ~Told(i)' /\ Results(log, i)' # {}
  BY DEF Stranded, Ended, Lost
<1>4. Spawned(i)'
  BY <1>3, PlacedNext DEF PlacedSpawned
<1>5. Spawned(i)
  <2>1. CASE task[i].pc = "start"
    BY <1>1, <1>2, <1>4, <2>1, SpawnedBefore DEF Onward, Crashed
  <2> QED BY <1>1, <1>4, <2>1, SpawnedBefore
<1>6. task[i].pc \notin {"none", "start"}
  BY <1>1, <1>5, SpawnedPast
<1>7. Crashed(i) /\ task'[i] = task[i]
  BY <1>2, <1>6 DEF Onward
<1>8. Plain(i) /\ ~Told(i)
  BY <1>1, <1>3, <1>6, PlainBefore, ToldStays
<1>9. SpawnAt(i)' = SpawnAt(i) /\ Epoch(log) <= Epoch(log')
  BY <1>1, <1>5, PlacesStay
<1>10. Ended(i)
  BY <1>3, <1>7, <1>9 DEF Ended
<1>11. ~Lost(i)
  <2>1. i \notin gap.spilt
    BY <1>3 DEF Onward
  <2>2. Epoch(log) \in Nat /\ Epoch(log') \in Nat
    <3>1. log \in Seq(Entries) /\ log' \in Seq(Entries)
      BY <1>1 DEF Types
    <3> QED BY <3>1, EpochIs
  <2>3. SpawnAt(i) \in Nat
    <3>1. PICK s \in 1..Len(log) : log[s].t = "spawn" /\ log[s].c = i
      BY <1>5 DEF Spawned
    <3>2. SpawnAt(i) = s
      BY <1>1, <3>1, SpawnAtIs DEF Types
    <3> QED BY <3>2
  <2> QED BY <1>3, <1>9, <2>1, <2>2, <2>3 DEF Lost
<1>12. ~LateAck(i)
  <2> SUFFICES ASSUME LateAck(i) PROVE LateAck(i)'
    BY <1>3
  <2>1. PICK n \in Returns(log, task[i].kid), m \in Results(log, i) :
           log[m].how = "ack" /\ SpawnAt(i) < n /\ n < m
    BY DEF LateAck
  <2>2. \A x \in 1..Len(log) : x \in 1..Len(log') /\ log'[x] = log[x]
    BY <1>1, LogGrown
  <2>3. n \in Returns(log, task[i].kid)' /\ m \in Results(log, i)' /\ log'[m] = log[m]
    BY <1>7, <2>1, <2>2 DEF Returns, Results, At
  <2> QED BY <1>9, <2>1, <2>3 DEF LateAck
<1>13. ~Queued(i) /\ ~Taken(i)
  BY <1>7 DEF RInv, QueueReports, Queued, Taken, Crashed
<1>14. Results(log, i) # {}
  <2>1. PICK n \in 1..Len(log') : log'[n].t = "result" /\ log'[n].c = i
    BY <1>3 DEF Results, At
  <2>2. CASE n \in 1..Len(log)
    <3>1. log'[n] = log[n]
      BY <1>1, <2>2, LogGrown
    <3> QED BY <2>1, <2>2, <3>1 DEF Results, At
  <2>3. CASE n \notin 1..Len(log)
    <3>1. Answerable(log'[n])
      BY <2>1, <2>3 DEF Onward
    <3>2. log'[n].how \notin {"answer", "orphan", "interrupted"}
      BY <1>3, <2>1 DEF Told, AnsweredAs, Results, At
    <3> QED BY <1>5, <1>7, <2>1, <3>1, <3>2 DEF Answerable, Crashed
  <2> QED BY <2>2, <2>3
<1> QED BY <1>7, <1>8, <1>10, <1>11, <1>12, <1>13, <1>14 DEF Stranded

\* A pass is due as long as an ending is stranded.
LEMMA GenStaysKept ==
    ASSUME Types, GenKept, \A i \in Calls : Stranded(i)' => Stranded(i),
           gen' = gen \/ gen' = Reopen
    PROVE  GenKept'
<1>1. gen \in [requested : Nat, scanned : Nat] /\ gen.scanned <= gen.requested
  BY DEF Types
<1>2. gen' = Reopen => gen'.scanned = gen.scanned /\ gen'.requested = gen.requested + 1
  BY <1>1 DEF Reopen
<1> QED BY <1>1, <1>2 DEF GenKept

\* A record that is no return of the child leaves its spawn open.
LEMMA StaysOpen ==
    ASSUME Types, Steady, NEW k, HasOpenSpawn(log, k),
           \A n \in 1..Len(log') : n \notin 1..Len(log) =>
              ~(log'[n].t = "return" /\ log'[n].k = k)
    PROVE  HasOpenSpawn(log', k)
<1>1. log \in Seq(Entries)
  BY DEF Types
<1>2. ASSUME NEW e \in Entries, log' = Append(log, e) PROVE Depth(log', k) > 0
  <2>1. Len(log) + 1 \in 1..Len(log') /\ log'[Len(log) + 1] = e
        /\ Len(log) + 1 \notin 1..Len(log)
    BY <1>1, <1>2
  <2>2. ~(e.t = "return" /\ e.k = k)
    BY <2>1
  <2>3. Depth(log, k) \in Nat /\ Depth(log, k) > 0
    BY <1>1, DepthNat DEF HasOpenSpawn
  <2>4. Depth(Append(log, e), k) = IF e.t = "spawn" /\ e.k = k THEN Depth(log, k) + 1
                                   ELSE Depth(log, k)
    BY <1>1, <2>2, DepthAppend
  <2> QED BY <1>2, <2>3, <2>4
<1>3. CASE log' = log
  BY <1>3
<1> QED BY <1>2, <1>3 DEF Steady, HasOpenSpawn

\* A pass that is left alone still has what is stranded.
LEMMA PassStaysKept ==
    ASSUME RInv, PassKept, Steady,
           \A i \in Calls : Stranded(i)' => Stranded(i) /\ task'[i] = task[i] /\ Crashed(i),
           \/ scan' = NoScan
           \/ /\ scan' = scan
              /\ gen' = gen \/ gen' = Reopen
              /\ \A n \in 1..Len(log') : n \notin 1..Len(log) =>
                   /\ log'[n].t = "result" => scan.step = "off"
                   /\ log'[n].t = "return" =>
                        \E j \in Calls : task[j].kid = log'[n].k /\ task[j].pc = "hold"
    PROVE  PassKept'
<1>1. IInv /\ Types
  BY DEF RInv, IInv
<1>2. CASE scan' = NoScan
  BY <1>2 DEF PassKept, NoScan
<1>3. CASE scan' = scan /\ scan.step = "off"
  BY <1>3 DEF PassKept
<1>4. CASE /\ scan' = scan /\ scan.step # "off"
           /\ gen' = gen \/ gen' = Reopen
           /\ \A n \in 1..Len(log') : n \notin 1..Len(log) =>
                /\ log'[n].t = "result" => scan.step = "off"
                /\ log'[n].t = "return" =>
                     \E j \in Calls : task[j].kid = log'[n].k /\ task[j].pc = "hold"
  <2>1. Prefix' = Prefix
    BY <1>1, <1>4, PrefixKept DEF Steady
  <2>2. ASSUME NEW r \in 1..Len(log'), log'[r].t = "result", log'[r].how # "orphan"
        PROVE  r <= scan.at
    <3>1. r \in 1..Len(log)
      BY <1>4, <2>2
    <3>2. log'[r] = log[r]
      BY <1>1, <3>1, LogGrown
    <3> QED BY <1>4, <2>2, <3>1, <3>2 DEF PassKept
  <2>3. ASSUME scan.ok, gen'.requested = scan.gen, NEW i \in Calls, Stranded(i)'
        PROVE  PassHas(task[i].kid)'
    <3>1. Stranded(i) /\ task'[i] = task[i] /\ Crashed(i) /\ Plain(i)
      BY <2>3 DEF Stranded
    <3>2. PICK k : k = task[i].kid
      OBVIOUS
    <3>3. HasOpenSpawn(log, k) => HasOpenSpawn(log', k)
      <4>1. ASSUME NEW n \in 1..Len(log'), n \notin 1..Len(log),
                   log'[n].t = "return", log'[n].k = k
            PROVE  FALSE
        <5>1. PICK j \in Calls : task[j].kid = k /\ task[j].pc = "hold"
          BY <1>4, <4>1
        <5> QED BY <3>1, <3>2, <5>1 DEF Plain, Crashed
      <4> QED BY <1>1, <4>1, StaysOpen
    <3>4. PassHas(k)
      <4>1. CASE gen' = gen
        BY <1>4, <2>3, <3>1, <3>2, <4>1 DEF PassKept
      <4>2. CASE gen' = Reopen
        <5>1. gen'.requested = gen.requested + 1 /\ gen.requested \in Nat
          BY <1>1, <4>2 DEF Types, Reopen
        <5>2. scan.gen <= gen.requested /\ scan.gen \in Nat
          BY <1>1, <1>4 DEF PassKept, Types, Scans
        <5> QED BY <2>3, <5>1, <5>2
      <4> QED BY <1>4, <4>1, <4>2
    <3>5. PassHas(k)'
      BY <1>4, <2>1, <3>3, <3>4 DEF PassHas
    <3> QED BY <3>1, <3>2, <3>5 DEF PassHas
  <2>4. scan.gen <= gen'.requested
    <3>1. gen.requested \in Nat /\ scan.gen \in Nat /\ scan.gen <= gen.requested
      BY <1>1, <1>4 DEF PassKept, Types, Scans
    <3>2. gen' = Reopen => gen'.requested = gen.requested + 1
      BY <1>1 DEF Types, Reopen
    <3> QED BY <1>4, <3>1, <3>2
  <2> QED BY <1>4, <2>2, <2>3, <2>4 DEF PassKept
<1> QED BY <1>2, <1>3, <1>4

\* A step that leaves the pass alone, or ends it.
LEMMA StepKept ==
    ASSUME KInv, RInv', Steady, Onward, NoticeKept, \A j \in Calls : TaskMoved(j), TurnKept',
           gen' = gen \/ gen' = Reopen,
           \/ scan' = NoScan
           \/ /\ scan' = scan
              /\ \A n \in 1..Len(log') : n \notin 1..Len(log) =>
                   /\ log'[n].t = "result" => scan.step = "off"
                   /\ log'[n].t = "return" =>
                        \E j \in Calls : task[j].kid = log'[n].k /\ task[j].pc = "hold"
    PROVE  KInv'
<1>1. RInv /\ ResultsKept /\ TasksKept /\ PassKept /\ GenKept /\ Types /\ Types'
  BY DEF KInv, RInv, IInv
<1>2. ResultsKept'
  BY <1>1, ResultsStayKept
<1>3. TasksKept'
  BY <1>1, TasksStayKept
<1>4. \A i \in Calls : Stranded(i)' => Stranded(i) /\ task'[i] = task[i] /\ Crashed(i)
  BY <1>1, <1>2, <1>3, StrandedBefore
<1>5. GenKept'
  BY <1>1, <1>4, GenStaysKept
<1>6. PassKept'
  BY <1>1, <1>4, PassStaysKept
<1> QED BY <1>2, <1>3, <1>5, <1>6 DEF KInv

\* A step of the turn that writes nothing.
LEMMA TurnAloneKept ==
    ASSUME KInv, RInv', log' = log, task' = task, gen' = gen, scan' \in {scan, NoScan},
           gap'.hasty = gap.hasty, gap'.unreturned = gap.unreturned,
           gap.spilt \subseteq gap'.spilt, NoticeKept, TurnKept'
    PROVE  KInv'
<1>1. Steady
  BY DEF Steady
<1>2. Onward
  BY DEF Onward, Crashed
<1>3. \A j \in Calls : TaskMoved(j)
  BY DEF TaskMoved
<1> QED BY <1>1, <1>2, <1>3, StepKept

\* A record of the turn.
LEMMA TurnWriteKept ==
    ASSUME KInv, RInv', NEW e \in Entries, log' = Append(log, e),
           UNCHANGED <<task, gen, scan, gap>>, e.t \notin {"spawn", "return"},
           e.t = "result" => Answerable(e) /\ scan.step = "off", NoticeKept, TurnKept'
    PROVE  KInv'
<1>1. Steady
  BY DEF Steady
<1>2. \A n \in 1..Len(log') : n \notin 1..Len(log) => log'[n] = e
  <2>1. log \in Seq(Entries)
    BY DEF KInv, RInv, IInv, Types
  <2> QED BY <2>1
<1>3. Onward
  BY <1>2 DEF Onward, Crashed
<1>4. \A j \in Calls : TaskMoved(j)
  BY DEF TaskMoved
<1> QED BY <1>1, <1>2, <1>3, <1>4, StepKept

\* A step of one task, and what it may write.
LEMMA OneTaskKept ==
    ASSUME KInv, RInv', NEW i \in Calls, NEW t, task' = [task EXCEPT ![i] = t],
           turn' = turn, scan' = scan, gen' = gen \/ gen' = Reopen,
           \/ log' = log
           \/ \E e \in Entries :
                /\ log' = Append(log, e)
                /\ \/ e.t = "spawn" /\ e.c = i /\ task[i].pc = "start"
                   \/ e.t = "return" /\ e.k = task[i].kid /\ task[i].pc = "hold",
           t.kid = task[i].kid, task[i].pc \notin {"none", "end"}, t.pc # "none",
           task[i].ending = "notify" => t.ending = "notify",
           t.pc = "end" /\ t.ending = "undecided" => task[i].pc = "start" /\ log' = log,
           t.pc = "end" => t.refused \/ task[i].pc \in Opened,
           gap'.hasty = gap.hasty, gap.unreturned \subseteq gap'.unreturned,
           gap'.spilt = gap.spilt, TaskMoved(i), \A j \in Calls : Queued(j) => Queued(j)'
    PROVE  KInv'
<1>1. /\ RInv /\ IInv /\ Types /\ task \in [Calls -> Tasks] /\ log \in Seq(Entries)
      /\ turn \in Turns
  BY DEF KInv, RInv, IInv, Types
<1>2. task'[i] = t /\ \A j \in Calls : j # i => task'[j] = task[j]
  BY <1>1
<1>3. Steady
  BY <1>2 DEF Steady
<1>4. \A n \in 1..Len(log') : n \notin 1..Len(log) =>
        \/ log'[n].t = "spawn" /\ log'[n].c = i /\ task[i].pc = "start"
        \/ log'[n].t = "return" /\ log'[n].k = task[i].kid /\ task[i].pc = "hold"
  <2>1. ASSUME NEW e \in Entries, log' = Append(log, e)
        PROVE  \A n \in 1..Len(log') : n \notin 1..Len(log) => log'[n] = e
    BY <1>1, <2>1
  <2> QED BY <2>1
<1>5. i # 0
  BY DEF Calls
<1>6. Onward
  <2>1. ASSUME NEW j \in Calls, Crashed(j) PROVE task'[j] = task[j]
    BY <1>2, <2>1 DEF Crashed
  <2>2. ASSUME NEW j \in Calls, Crashed(j)'
        PROVE  Crashed(j) \/ (task[j].pc = "start" /\ log' = log)
    BY <1>2, <2>2 DEF Crashed
  <2>3. \A j \in Calls : task[j].pc # "none" /\ task[j].ending = "notify" =>
          task'[j].ending = "notify"
    BY <1>2
  <2>4. \A j \in Calls : task[j].pc = "none" /\ Results(log, j) # {} => task'[j].pc = "none"
    BY <1>2
  <2>5. \A n \in 1..Len(log') : n \notin 1..Len(log) =>
         /\ log'[n].t = "spawn" => log'[n].c # 0 /\ task[log'[n].c].pc = "start"
         /\ log'[n].t # "result"
    BY <1>4, <1>5
  <2> QED BY <2>1, <2>2, <2>3, <2>4, <2>5 DEF Onward
<1>7. NoticeKept
  BY DEF NoticeKept, Taken
<1>8. \A j \in Calls : TaskMoved(j)
  BY <1>2 DEF TaskMoved
<1>9. TurnKept'
  <2>1. TurnKept
    BY DEF KInv
  <2>2. turn.pc \in {"wait", "result"} => turn.call \in Calls
    BY <1>1 DEF RInv, TurnReports, Turns
  <2>3. PICK c : c = turn.call
    OBVIOUS
  <2>4. Spawned(turn.call)' = Spawned(c)'
    BY <2>3 DEF Spawned
  <2>5. ASSUME NEW j \in Calls, Spawned(j) PROVE Spawned(j)'
    BY <1>1, <1>3, <2>5, RecordsStay
  <2>6. ASSUME turn.pc = "wait"
        PROVE  /\ task'[c].pc # "none"
               /\ task'[c].pc = "end" /\ ~task'[c].refused => Spawned(c)'
    <3>1. CASE c = i
      <4>1. task[i].pc \in Opened => Spawned(i)
        BY <1>1 DEF RInv, QueueReports
      <4> QED BY <1>2, <2>5, <3>1, <4>1
    <3>2. CASE c # i
      BY <1>2, <2>1, <2>2, <2>3, <2>5, <2>6, <3>2 DEF TurnKept
    <3> QED BY <3>1, <3>2
  <2>7. ASSUME turn.pc = "result", turn.how = "ack"
        PROVE  Spawned(c)' /\ task'[c].ending = "notify"
    <3>1. c \in Calls /\ Spawned(c) /\ task[c].ending = "notify"
      BY <2>1, <2>2, <2>3, <2>7 DEF TurnKept
    <3> QED BY <1>2, <2>5, <3>1
  <2>8. ASSUME turn.pc = "result", turn.how = "refused"
        PROVE  ~Spawned(c)' /\ task'[c].pc \in {"none", "end"}
    <3>1. c \in Calls /\ ~Spawned(c) /\ task[c].pc \in {"none", "end"}
      BY <2>1, <2>2, <2>3, <2>8 DEF TurnKept
    <3>2. ~Spawned(c)'
      BY <1>1, <1>3, <1>6, <3>1, SpawnedBefore
    <3> QED BY <1>2, <3>1, <3>2
  <2> QED BY <2>1, <2>3, <2>4, <2>6, <2>7, <2>8 DEF TurnKept
<1>10. \A n \in 1..Len(log') : n \notin 1..Len(log) =>
         /\ log'[n].t = "result" => scan.step = "off"
         /\ log'[n].t = "return" =>
              \E j \in Calls : task[j].kid = log'[n].k /\ task[j].pc = "hold"
  BY <1>4
<1> QED BY <1>3, <1>6, <1>7, <1>8, <1>9, <1>10, StepKept

\* A turn that is not appending notices holds none.
LEMMA NoneTaken ==
    ASSUME TurnKept, turn.pc # "notices"
    PROVE  turn.todo = <<>> /\ \A j \in Calls : ~Taken(j)
<1>1. turn.todo = <<>>
  BY DEF TurnKept
<1> QED BY <1>1 DEF Taken

\* The turn goes on, ends or is lost: what it had taken counts as spilt.
LEMMA TurnGoesKept ==
    ASSUME KInv, RInv',
           \/ Enter \/ NotificationTurn \/ TakeNotices \/ Finish
           \/ DropTurn \/ TurnFails \/ ScanReadFails
    PROVE  KInv'
<1>1. /\ turn \in Turns /\ TurnKept
      /\ gap \in [spilt : SUBSET Calls, hasty : SUBSET Kids, unreturned : SUBSET Calls]
  BY DEF KInv, RInv, IInv, Types
<1>2. log' = log /\ task' = task /\ gen' = gen /\ scan' \in {scan, NoScan}
  BY DEF Enter, NotificationTurn, TakeNotices, Finish, DropTurn, TurnFails, ScanReadFails
<1>3. CASE Enter \/ NotificationTurn \/ Finish \/ ScanReadFails
  <2>1. gap' = gap /\ queue' = queue /\ turn.pc # "notices"
    BY <1>3 DEF Enter, NotificationTurn, Finish, ScanReadFails
  <2>2. turn.todo = <<>> /\ \A j \in Calls : ~Taken(j)
    BY <1>1, <2>1, NoneTaken
  <2>3. turn'.todo = <<>> /\ turn'.pc \in {"idle", "scan", "reconcile", "boundary"}
    <3>1. CASE Enter \/ NotificationTurn \/ Finish
      BY <3>1 DEF Enter, NotificationTurn, Finish, NoTurn
    <3>2. CASE ScanReadFails
      BY <1>1, <2>2, <3>2 DEF ScanReadFails, Turns
    <3> QED BY <1>3, <3>1, <3>2
  <2>4. TurnKept'
    BY <2>3 DEF TurnKept
  <2>5. NoticeKept
    BY <2>1, <2>2 DEF NoticeKept, Queued
  <2> QED BY <1>2, <2>1, <2>4, <2>5, TurnAloneKept
<1>4. CASE TakeNotices
  <2>1. gap' = gap /\ turn.pc = "boundary" /\ turn' = Drained(queue)
    BY <1>4 DEF TakeNotices
  <2>2. \A j \in Calls : ~Taken(j)
    BY <1>1, <2>1, NoneTaken
  <2>3. turn'.todo = queue /\ turn'.pc = IF queue = <<>> THEN "model" ELSE "notices"
    BY <1>1, <2>1 DEF Drained, Turns
  <2>4. TurnKept'
    BY <2>3 DEF TurnKept
  <2>5. NoticeKept
    BY <2>2, <2>3 DEF NoticeKept, Queued, Taken
  <2> QED BY <1>2, <2>1, <2>4, <2>5, TurnAloneKept
<1>5. CASE DropTurn \/ TurnFails
  <2>1. /\ turn' = NoTurn /\ queue' = queue
        /\ gap' = IF turn.pc = "notices" THEN Spill ELSE gap
    BY <1>5 DEF DropTurn, TurnFails
  <2>2. TurnKept'
    BY <2>1 DEF TurnKept, NoTurn
  <2>3. Spill.hasty = gap.hasty /\ Spill.unreturned = gap.unreturned
        /\ Spill.spilt = gap.spilt \cup {turn.todo[n] : n \in DOMAIN turn.todo}
    BY <1>1 DEF Spill
  <2>4. NoticeKept
    <3>1. \A j \in Calls : Queued(j) => Queued(j)'
      BY <2>1 DEF Queued
    <3>2. ASSUME NEW j \in Calls, Taken(j) PROVE j \in gap'.spilt
      <4>1. turn.pc = "notices"
        BY <1>1, <3>2, NoneTaken
      <4>2. DOMAIN turn.todo = 1..Len(turn.todo)
        BY <1>1 DEF Turns
      <4> QED BY <2>1, <2>3, <3>2, <4>1, <4>2 DEF Taken
    <3> QED BY <3>1, <3>2 DEF NoticeKept
  <2>5. /\ gap'.hasty = gap.hasty /\ gap'.unreturned = gap.unreturned
        /\ gap.spilt \subseteq gap'.spilt
    BY <2>1, <2>3
  <2> QED BY <1>2, <2>2, <2>4, <2>5, TurnAloneKept
<1> QED BY <1>3, <1>4, <1>5

\* The waiting call gets its result: an acknowledgement for an ending that goes
\* to the notice, a refusal for a child that was not built.
LEMMA WaitEndsKept ==
    ASSUME KInv, RInv',
           \/ StopTurn
           \/ \E i \in Calls : Launched(i) \/ Joined(i) \/ Released(i)
    PROVE  KInv'
<1>1. turn \in Turns /\ TurnKept /\ TasksKept /\ QueueReports
  BY DEF KInv, RInv, IInv, Types
<1>2. /\ UNCHANGED <<log, task, scan, gen, queue, gap>> /\ turn.pc \in {"spawn", "wait"}
  BY DEF StopTurn, Launched, Joined, Released
<1>3. turn.todo = <<>> /\ \A j \in Calls : ~Taken(j)
  BY <1>1, <1>2, NoneTaken
<1>4. NoticeKept
  BY <1>2, <1>3 DEF NoticeKept, Queued
<1>5. CASE StopTurn
  <2>1. turn'.pc = "result" /\ turn'.how = "interrupted" /\ turn'.todo = turn.todo
    BY <1>1, <1>5 DEF StopTurn, Turns
  <2>2. TurnKept'
    BY <1>3, <2>1 DEF TurnKept
  <2> QED BY <1>2, <1>4, <2>2, TurnAloneKept
<1>6. ASSUME NEW i \in Calls, Launched(i) \/ Joined(i) \/ Released(i) PROVE KInv'
  <2>1. /\ turn.pc = "wait" /\ turn.call = i
        /\ task[i].pc \in Running \cup {"end"}
    BY <1>6 DEF Launched, Joined, Released
  <2>2. /\ turn'.pc = "result" /\ turn'.call = i /\ turn'.todo = turn.todo
        /\ turn'.how = IF Joined(i) /\ task[i].refused THEN "refused"
                       ELSE IF Joined(i) THEN SettledOutcome(task[i]) ELSE "ack"
    <3>1. CASE Joined(i)
      BY <1>1, <2>1, <3>1 DEF Joined, Turns
    <3>2. CASE ~Joined(i)
      BY <1>1, <1>6, <2>1, <3>2 DEF Launched, Released, Turns
    <3> QED BY <3>1, <3>2
  <2>3. TaskKept(i)
    BY <1>1 DEF TasksKept
  <2>4. ~task[i].refused => Spawned(i)
    BY <1>1, <2>1 DEF QueueReports, TurnKept, Opened, Running
  <2>5. CASE Joined(i) /\ task[i].refused
    <3>1. turn'.how = "refused" /\ ~Spawned(i) /\ task[i].pc = "end"
      BY <2>2, <2>3, <2>5 DEF TaskKept
    <3>2. ~Spawned(turn.call)'
      BY <1>2, <2>2, <3>1 DEF Spawned
    <3>3. TurnKept'
      BY <1>2, <1>3, <2>2, <3>1, <3>2 DEF TurnKept
    <3> QED BY <1>2, <1>4, <3>3, TurnAloneKept
  <2>6. CASE ~(Joined(i) /\ task[i].refused)
    <3>1. ~task[i].refused
      BY <1>6, <2>3, <2>6 DEF Launched, Released, TaskKept, Running
    <3>2. turn'.how \in {"answer", "ack"} /\ (turn'.how = "ack" => task[i].ending = "notify")
      <4>1. Launched(i) => task[i].ending = "notify"
        BY <2>3 DEF Launched, TaskKept
      <4>2. Released(i) => task[i].ending = "notify"
        BY DEF Released
      <4> QED BY <1>6, <2>2, <2>6, <4>1, <4>2 DEF SettledOutcome
    <3>3. Spawned(turn.call)'
      BY <1>2, <2>2, <2>4, <3>1 DEF Spawned
    <3>4. TurnKept'
      BY <1>2, <1>3, <2>2, <3>2, <3>3 DEF TurnKept
    <3> QED BY <1>2, <1>4, <3>4, TurnAloneKept
  <2> QED BY <2>5, <2>6
<1> QED BY <1>5, <1>6

\* Calls are answered as interrupted, and the user clears.
LEMMA ReconcileKept ==
    ASSUME KInv, RInv', Reconcile \/ Clear PROVE KInv'
<1>1. turn \in Turns /\ TurnKept /\ IInv
  BY DEF KInv, RInv, IInv, Types
<1>2. UNCHANGED <<task, scan, gen, queue, gap>> /\ turn.pc \in {"reconcile", "idle"}
  BY DEF Reconcile, Clear
<1>3. turn.todo = <<>> /\ \A j \in Calls : ~Taken(j)
  BY <1>1, <1>2, NoneTaken
<1>4. NoticeKept
  BY <1>2, <1>3 DEF NoticeKept, Queued
<1>5. scan.step = "off"
  BY <1>1, <1>2 DEF IInv, ScanSound
<1>6. turn' = turn => TurnKept'
  BY <1>2, <1>3 DEF TurnKept
<1>7. CASE Reconcile /\ Unanswered(log) = {}
  <2>1. log' = log /\ turn' = [turn EXCEPT !.pc = "boundary"]
    BY <1>7 DEF Reconcile
  <2>2. turn'.pc = "boundary" /\ turn'.todo = <<>>
    BY <1>1, <1>3, <2>1 DEF Turns
  <2>3. TurnKept'
    BY <2>2 DEF TurnKept
  <2> QED BY <1>2, <1>4, <2>1, <2>3, TurnAloneKept
<1>8. CASE Reconcile /\ Unanswered(log) # {}
  <2>1. PICK c : c = Oldest(Unanswered(log))
    OBVIOUS
  <2>2. c \in Calls
    <3>1. Unanswered(log) \subseteq Calls
      BY DEF Unanswered
    <3>2. Unanswered(log) \in SUBSET Nat
      BY <3>1, BoundsAssumption DEF Calls
    <3> QED BY <1>8, <2>1, <3>1, <3>2, OldestIn
  <2>3. PICK e : e = Entry("result", c, 0, "interrupted")
    OBVIOUS
  <2>4. e \in Entries /\ e.t = "result" /\ e.how = "interrupted"
    BY <2>2, <2>3 DEF Entry, Entries, Kinds, Hows
  <2>5. log' = Append(log, e) /\ turn' = turn
    BY <1>8, <2>1, <2>3 DEF Reconcile, Write
  <2>6. Answerable(e)
    BY <2>4 DEF Answerable
  <2> QED BY <1>2, <1>4, <1>5, <1>6, <2>4, <2>5, <2>6, TurnWriteKept
<1>9. CASE Clear
  <2>1. PICK e : e = Entry("clear", 0, 0, "none")
    OBVIOUS
  <2>2. e \in Entries /\ e.t = "clear"
    BY <2>1 DEF Entry, Entries, Kinds, Hows
  <2>3. log' = Append(log, e) /\ turn' = turn
    BY <1>9, <2>1 DEF Clear, Write
  <2> QED BY <1>2, <1>4, <1>6, <2>2, <2>3, TurnWriteKept
<1> QED BY <1>7, <1>8, <1>9

\* A notice is appended, or another of the same ending is in the epoch.
LEMMA AppendNoticeKept ==
    ASSUME KInv, RInv', AppendNotice PROVE KInv'
<1>1. /\ turn \in Turns /\ IInv /\ Types /\ TurnSound /\ log \in Seq(Entries)
      /\ task \in [Calls -> Tasks]
  BY DEF KInv, RInv, IInv, Types
<1>2. /\ UNCHANGED <<task, scan, gen, queue, gap>> /\ turn.pc = "notices"
      /\ turn' = Drained(Tail(turn.todo))
  BY DEF AppendNotice
<1>3. turn.todo \in Seq(Calls) /\ turn.todo # <<>>
  BY <1>1, <1>2 DEF Turns, TurnSound
<1>4. PICK i \in Calls : i = Head(turn.todo)
  BY <1>3
<1>5. /\ turn'.todo = Tail(turn.todo)
      /\ turn'.pc = IF Tail(turn.todo) = <<>> THEN "model" ELSE "notices"
  BY <1>1, <1>2 DEF Drained, Turns
<1>6. TurnKept'
  BY <1>5 DEF TurnKept
<1>7. ASSUME Plain(i) => Told(i)' PROVE NoticeKept
  <2>1. \A j \in Calls : Queued(j) => Queued(j)'
    BY <1>2 DEF Queued
  <2>2. ASSUME NEW j \in Calls, Taken(j), Plain(j) PROVE Taken(j)' \/ Told(j)'
    <3>1. PICK n \in 1..Len(turn.todo) : turn.todo[n] = j
      BY <2>2 DEF Taken
    <3>2. CASE n = 1
      BY <1>3, <1>4, <1>7, <2>2, <3>1, <3>2
    <3>3. CASE n # 1
      <4>1. n - 1 \in 1..Len(Tail(turn.todo)) /\ Tail(turn.todo)[n - 1] = j
        BY <1>3, <3>1, <3>3
      <4> QED BY <1>5, <4>1 DEF Taken
    <3> QED BY <3>2, <3>3
  <2> QED BY <2>1, <2>2 DEF NoticeKept
<1>8. CASE NoticePending(log, task[i].kid)
  <2>1. PICK e : e = Entry("notice", i, task[i].kid, "none")
    OBVIOUS
  <2>2. log' = Append(log, e)
    BY <1>4, <1>8, <2>1 DEF AppendNotice, Write
  <2>3. e \in Entries /\ e.t = "notice" /\ e.c = i
    <3>1. task[i].kid \in Kids \cup {0}
      BY <1>1 DEF Tasks
    <3> QED BY <2>1, <3>1 DEF Entry, Entries, Kinds, Hows
  <2>4. Told(i)'
    <3>1. Len(log) + 1 \in 1..Len(log') /\ log'[Len(log) + 1] = e
      BY <1>1, <2>2
    <3> QED BY <2>3, <3>1 DEF Told, NoticesOf, At
  <2> QED BY <1>2, <1>6, <1>7, <2>2, <2>3, <2>4, TurnWriteKept
<1>9. CASE ~NoticePending(log, task[i].kid)
  <2>1. log' = log
    BY <1>4, <1>9 DEF AppendNotice
  <2>2. ASSUME Plain(i) PROVE Told(i)'
    <3>1. PICK n \in 1..Len(log) : log[n].t = "notice" /\ log[n].k = task[i].kid
      BY <1>9 DEF NoticePending, Notices, At
    <3>2. EntrySound(log[n]) /\ log[n] \in Entries
      BY <1>1 DEF IInv
    <3>3. log[n].c \in Calls /\ task[log[n].c].kid = task[i].kid
      BY <3>1, <3>2 DEF EntrySound, Entries
    <3>4. log[n].c = i
      BY <2>2, <3>3 DEF Plain
    <3> QED BY <2>1, <3>1, <3>4 DEF Told, NoticesOf, At
  <2> QED BY <1>2, <1>6, <1>7, <2>1, <2>2, TurnAloneKept
<1> QED BY <1>8, <1>9

\* The result of the call, as the turn holds it.
LEMMA AppendResultKept ==
    ASSUME KInv, RInv', AppendResult PROVE KInv'
<1>1. turn \in Turns /\ TurnKept /\ IInv /\ TurnReports
  BY DEF KInv, RInv, IInv, Types
<1>2. /\ UNCHANGED <<task, scan, gen, queue, gap>> /\ turn.pc = "result"
      /\ turn' = IF turn.last THEN NoTurn ELSE [NoTurn EXCEPT !.pc = "boundary"]
  BY DEF AppendResult
<1>3. \A j \in Calls : ~Taken(j)
  BY <1>1, <1>2, NoneTaken
<1>4. NoticeKept
  BY <1>2, <1>3 DEF NoticeKept, Queued
<1>5. scan.step = "off"
  BY <1>1, <1>2 DEF IInv, ScanSound
<1>6. turn'.pc \in {"idle", "boundary"} /\ turn'.todo = <<>>
  BY <1>2 DEF NoTurn
<1>7. TurnKept'
  BY <1>6 DEF TurnKept
<1>8. PICK e : e = Entry("result", turn.call, 0, turn.how)
  OBVIOUS
<1>9. e \in Entries /\ e.t = "result" /\ e.c = turn.call /\ e.how = turn.how
  BY <1>1, <1>8 DEF Entry, Entries, Kinds, Turns
<1>10. Answerable(e)
  BY <1>1, <1>2, <1>9 DEF Answerable, TurnKept, TurnReports
<1>11. log' = Append(log, e)
  BY <1>8 DEF AppendResult, Write
<1> QED BY <1>2, <1>4, <1>5, <1>7, <1>9, <1>10, <1>11, TurnWriteKept

\* The model delegates.
LEMMA DelegateKept ==
    ASSUME KInv, RInv', NEW i \in Calls, Delegate(i) PROVE KInv'
<1>1. turn \in Turns /\ TurnKept
  BY DEF KInv, RInv, IInv, Types
<1>2. /\ UNCHANGED <<task, scan, gen, queue, gap>> /\ turn.pc = "model"
      /\ turn' = [turn EXCEPT !.pc = "spawn", !.call = i]
  BY DEF Delegate
<1>3. turn.todo = <<>> /\ \A j \in Calls : ~Taken(j)
  BY <1>1, <1>2, NoneTaken
<1>4. NoticeKept
  BY <1>2, <1>3 DEF NoticeKept, Queued
<1>5. turn'.pc = "spawn" /\ turn'.todo = <<>>
  BY <1>1, <1>2, <1>3 DEF Turns
<1>6. TurnKept'
  BY <1>5 DEF TurnKept
<1>7. PICK e : e = Entry("call", i, 0, "none")
  OBVIOUS
<1>8. e \in Entries /\ e.t = "call"
  BY <1>7 DEF Entry, Entries, Kinds, Hows
<1>9. log' = Append(log, e)
  BY <1>7 DEF Delegate, Write
<1> QED BY <1>2, <1>4, <1>6, <1>8, <1>9, TurnWriteKept

\* A child is spawned, or refused to a call that has none.
LEMMA SpawnKept ==
    ASSUME KInv, RInv', NEW i \in Calls, NEW k \in Kids, NEW back \in BOOLEAN,
           Spawn(i, k, back)
    PROVE  KInv'
<1>1. /\ turn \in Turns /\ task \in [Calls -> Tasks] /\ TurnKept /\ IInv /\ TurnReports
  BY DEF KInv, RInv, IInv, Types
<1>2. /\ UNCHANGED <<log, scan, gen, queue, gap>> /\ turn.pc = "spawn" /\ turn.call = i
  BY DEF Spawn
<1>3. turn.todo = <<>> /\ \A j \in Calls : ~Taken(j)
  BY <1>1, <1>2, NoneTaken
<1>4. NoticeKept
  BY <1>2, <1>3 DEF NoticeKept, Queued
<1>5. task[i].pc = "none" /\ Results(log, i) = {}
  BY <1>1, <1>2 DEF IInv, TurnSound
<1>6. CASE turn' = [turn EXCEPT !.pc = "result", !.how = "refused"] /\ task' = task
  <2>1. /\ turn'.pc = "result" /\ turn'.how = "refused" /\ turn'.call = i
        /\ turn'.todo = <<>>
    BY <1>1, <1>2, <1>3, <1>6 DEF Turns
  <2>2. ~Spawned(i)
    BY <1>1, <1>5, SpawnedPast
  <2>3. ~Spawned(turn.call)'
    BY <1>2, <2>1, <2>2 DEF Spawned
  <2>4. TurnKept'
    BY <1>5, <1>6, <2>1, <2>3 DEF TurnKept
  <2> QED BY <1>2, <1>4, <1>6, <2>4, TurnAloneKept
<1>7. CASE /\ turn' = [turn EXCEPT !.pc = "wait"]
           /\ task' = [task EXCEPT ![i] =
                         [NoTask EXCEPT !.pc = "start", !.kid = k, !.back = back,
                                        !.resume = k # i,
                                        !.ending = IF back THEN "notify" ELSE @]]
  <2>1. turn'.pc = "wait" /\ turn'.call = i /\ turn'.todo = <<>>
    BY <1>1, <1>2, <1>3, <1>7 DEF Turns
  <2>2. /\ task'[i].pc = "start" /\ ~task'[i].refused
        /\ task'[i].back => task'[i].ending = "notify"
        /\ \A j \in Calls : j # i => task'[j] = task[j]
    BY <1>1, <1>7 DEF NoTask
  <2>3. Steady
    BY <1>2, <1>5, <2>2 DEF Steady
  <2>4. Onward
    <3>1. \A j \in Calls : task[j].pc # "none" => task'[j] = task[j]
      BY <1>5, <2>2
    <3>2. \A j \in Calls : task[j].pc = "none" /\ Results(log, j) # {} => task'[j].pc = "none"
      BY <1>5, <2>2
    <3>3. \A j \in Calls : Crashed(j) => task'[j] = task[j]
      BY <3>1 DEF Crashed
    <3>4. \A j \in Calls : Crashed(j)' => Crashed(j)
      BY <2>2 DEF Crashed
    <3> QED BY <1>2, <3>1, <3>2, <3>3, <3>4 DEF Onward
  <2>5. \A j \in Calls : TaskMoved(j)
    BY <2>2 DEF TaskMoved, Over
  <2>6. TurnKept'
    BY <2>1, <2>2 DEF TurnKept
  <2> QED BY <1>2, <1>4, <2>3, <2>4, <2>5, <2>6, StepKept
<1> QED BY <1>6, <1>7 DEF Spawn

\* The wait budget elapses.
LEMMA BudgetKept ==
    ASSUME KInv, RInv', NEW i \in Calls, BudgetElapsed(i) PROVE KInv'
<1>1. /\ turn \in Turns /\ task \in [Calls -> Tasks] /\ TurnKept /\ TasksKept
      /\ QueueReports
  BY DEF KInv, RInv, IInv, Types
<1>2. /\ UNCHANGED <<log, scan, gen, queue, gap>> /\ turn.pc = "wait" /\ turn.call = i
      /\ turn' = [turn EXCEPT !.pc = "result", !.how = "ack"]
      /\ task[i].pc \in Running /\ task[i].ending = "undecided"
      /\ task' = [task EXCEPT ![i].ending = "notify"]
  BY DEF BudgetElapsed
<1>3. turn.todo = <<>> /\ \A j \in Calls : ~Taken(j)
  BY <1>1, <1>2, NoneTaken
<1>4. NoticeKept
  BY <1>2, <1>3 DEF NoticeKept, Queued
<1>5. TaskKept(i)
  BY <1>1 DEF TasksKept
<1>6. task[i].pc = "run" /\ ~task[i].refused
  BY <1>2, <1>5 DEF TaskKept, Running
<1>7. /\ task'[i].pc = "run" /\ task'[i].kid = task[i].kid
      /\ task'[i].ending = "notify" /\ ~task'[i].refused
      /\ \A j \in Calls : j # i => task'[j] = task[j]
  BY <1>1, <1>2, <1>6 DEF Tasks
<1>8. turn'.pc = "result" /\ turn'.how = "ack" /\ turn'.call = i /\ turn'.todo = <<>>
  BY <1>1, <1>2, <1>3 DEF Turns
<1>9. Steady
  BY <1>2, <1>6, <1>7 DEF Steady
<1>10. Onward
  <2>1. \A j \in Calls : Crashed(j) => task'[j] = task[j]
    BY <1>6, <1>7 DEF Crashed
  <2>2. \A j \in Calls : Crashed(j)' => Crashed(j)
    BY <1>7 DEF Crashed
  <2>3. \A j \in Calls : /\ task[j].ending = "notify" => task'[j].ending = "notify"
                         /\ task[j].pc = "none" => task'[j].pc = "none"
    BY <1>6, <1>7
  <2> QED BY <1>2, <2>1, <2>2, <2>3 DEF Onward
<1>11. \A j \in Calls : TaskMoved(j)
  BY <1>7 DEF TaskMoved, Over
<1>12. Spawned(turn.call)'
  <2>1. Spawned(i)
    BY <1>1, <1>6 DEF QueueReports, Opened
  <2> QED BY <1>2, <1>8, <2>1 DEF Spawned
<1>13. TurnKept'
  BY <1>7, <1>8, <1>12 DEF TurnKept
<1> QED BY <1>2, <1>4, <1>9, <1>10, <1>11, <1>13, StepKept

\* The steps of a task that are not its run's end.
LEMMA TaskGoesKept ==
    ASSUME KInv, RInv', NEW i \in Calls, SpawnFails(i) \/ Announce(i) \/ Handover(i)
    PROVE  KInv'
<1>1. task \in [Calls -> Tasks] /\ TaskKept(i)
  BY DEF KInv, RInv, IInv, Types, TasksKept
<1>2. task[i] \in Tasks
  BY <1>1
<1>3. UNCHANGED <<log, turn, scan, gen, queue, gap>>
  BY DEF SpawnFails, Announce, Handover
<1>4. \A j \in Calls : Queued(j) => Queued(j)'
  BY <1>3 DEF Queued
<1>5. CASE SpawnFails(i)
  <2> DEFINE t == [task[i] EXCEPT !.pc = "end", !.refused = TRUE]
  <2>1. task' = [task EXCEPT ![i] = t] /\ task[i].pc = "start"
    BY <1>1, <1>5 DEF SpawnFails
  <2>2. /\ t.kid = task[i].kid /\ t.ending = task[i].ending /\ t.pc = "end" /\ t.refused
        /\ t.back = task[i].back
    BY <1>2 DEF Tasks
  <2> HIDE DEF t
  <2>3. task'[i] = t
    BY <1>1, <2>1
  <2>4. TaskMoved(i)
    BY <1>1, <1>3, <2>1, <2>2, <2>3 DEF TaskMoved, TaskKept
  <2> QED BY <1>3, <1>4, <2>1, <2>2, <2>4, OneTaskKept
<1>6. CASE Announce(i)
  <2> DEFINE t == [task[i] EXCEPT !.pc = "run"]
  <2>1. task' = [task EXCEPT ![i] = t] /\ task[i].pc = "built"
    BY <1>1, <1>6 DEF Announce
  <2>2. /\ t.kid = task[i].kid /\ t.ending = task[i].ending /\ t.pc = "run"
        /\ t.back = task[i].back /\ t.refused = task[i].refused
    BY <1>2 DEF Tasks
  <2> HIDE DEF t
  <2>3. task'[i] = t
    BY <1>1, <2>1
  <2>4. TaskMoved(i)
    BY <1>1, <2>1, <2>2, <2>3 DEF TaskMoved, TaskKept, Over
  <2> QED BY <1>3, <1>4, <2>1, <2>2, <2>4, OneTaskKept
<1>7. CASE Handover(i)
  <2> DEFINE t == [task[i] EXCEPT !.ending = "notify"]
  <2>1. task' = [task EXCEPT ![i] = t] /\ task[i].pc = "run"
    BY <1>1, <1>7 DEF Handover, TaskKept, Running
  <2>2. /\ t.kid = task[i].kid /\ t.ending = "notify" /\ t.pc = "run"
        /\ t.back = task[i].back /\ t.refused = task[i].refused
    BY <1>2, <2>1 DEF Tasks
  <2> HIDE DEF t
  <2>3. task'[i] = t
    BY <1>1, <2>1
  <2>4. TaskMoved(i)
    BY <1>1, <2>1, <2>2, <2>3 DEF TaskMoved, TaskKept, Over
  <2> QED BY <1>3, <1>4, <2>1, <2>2, <2>4, OneTaskKept
<1> QED BY <1>5, <1>6, <1>7

\* The run ends: an ending for the notice is queued.
LEMMA RunEndsKept ==
    ASSUME KInv, RInv', NEW i \in Calls, RunEnds(i) PROVE KInv'
<1>1. task \in [Calls -> Tasks] /\ TaskKept(i) /\ queue \in Seq(Calls)
  BY DEF KInv, RInv, IInv, Types, TasksKept
<1>2. task[i] \in Tasks
  BY <1>1
<1> DEFINE t == [task[i] EXCEPT !.pc = "tail", !.ending = Ending(task[i])]
<1>3. /\ UNCHANGED <<log, turn, scan, gen, gap>> /\ task[i].pc = "run"
      /\ task' = [task EXCEPT ![i] = t]
      /\ queue' = IF Ending(task[i]) = "notify" THEN Append(queue, i) ELSE queue
  BY <1>1 DEF RunEnds
<1>4. /\ t.kid = task[i].kid /\ t.ending = Ending(task[i]) /\ t.pc = "tail"
      /\ t.back = task[i].back /\ t.refused = task[i].refused
  BY <1>2 DEF Tasks
<1> HIDE DEF t
<1>5. task'[i] = t
  BY <1>1, <1>3
<1>6. \A j \in Calls : Queued(j) => Queued(j)'
  <2>1. \A n \in 1..Len(queue) : n \in 1..Len(queue') /\ queue'[n] = queue[n]
    <3>1. CASE queue' = Append(queue, i)
      BY <1>1, <3>1
    <3>2. CASE queue' = queue
      BY <1>1, <3>2
    <3> QED BY <1>3, <3>1, <3>2
  <2> QED BY <2>1 DEF Queued
<1>7. Ending(task[i]) = "notify" => Queued(i)'
  <2> SUFFICES ASSUME Ending(task[i]) = "notify" PROVE Queued(i)'
    OBVIOUS
  <2>1. queue' = Append(queue, i)
    BY <1>3
  <2>2. Len(queue) + 1 \in 1..Len(queue') /\ queue'[Len(queue) + 1] = i
    BY <1>1, <2>1
  <2> QED BY <2>2 DEF Queued
<1>8. /\ Ending(task[i]) # "undecided"
      /\ task[i].ending = "notify" => Ending(task[i]) = "notify"
  BY DEF Ending
<1>9. TaskMoved(i)
  BY <1>1, <1>3, <1>4, <1>5, <1>7, <1>8 DEF TaskMoved, TaskKept
<1> QED BY <1>3, <1>4, <1>6, <1>8, <1>9, OneTaskKept

\* The return is claimed, refused, written or fails.
LEMMA ReturnKept ==
    ASSUME KInv, RInv', NEW i \in Calls, ClaimReturn(i) \/ WriteReturn(i) \/ ReturnFails(i)
    PROVE  KInv'
<1>1. /\ task \in [Calls -> Tasks] /\ TaskKept(i) /\ log \in Seq(Entries)
      /\ gap \in [spilt : SUBSET Calls, hasty : SUBSET Kids, unreturned : SUBSET Calls]
  BY DEF KInv, RInv, IInv, Types, TasksKept
<1>2. task[i] \in Tasks
  BY <1>1
<1>3. /\ UNCHANGED <<turn, scan, queue>> /\ task[i].pc \in {"tail", "hold"}
      /\ gen' = gen \/ gen' = Reopen
  BY DEF ClaimReturn, WriteReturn, ReturnFails
<1>4. \A j \in Calls : Queued(j) => Queued(j)'
  BY <1>3 DEF Queued
<1>5. task[i].ending # "undecided" /\ ~task[i].refused
  BY <1>1, <1>3 DEF TaskKept
<1>6. PICK q \in {"hold", "end"} : task' = [task EXCEPT ![i] = [task[i] EXCEPT !.pc = q]]
  BY <1>1 DEF ClaimReturn, WriteReturn, ReturnFails
<1> DEFINE t == [task[i] EXCEPT !.pc = q]
<1>7. /\ t.kid = task[i].kid /\ t.ending = task[i].ending /\ t.pc = q
      /\ t.back = task[i].back /\ t.refused = task[i].refused
  BY <1>2 DEF Tasks
<1>8. task' = [task EXCEPT ![i] = t]
  BY <1>6
<1> HIDE DEF t
<1>9. task'[i] = t
  BY <1>1, <1>8
<1>10. TaskMoved(i)
  BY <1>1, <1>3, <1>5, <1>7, <1>9 DEF TaskMoved, TaskKept, Over
<1>11. /\ gap'.hasty = gap.hasty /\ gap.unreturned \subseteq gap'.unreturned
       /\ gap'.spilt = gap.spilt
  <2>1. CASE ReturnFails(i)
    <3>1. gap' = [gap EXCEPT !.unreturned = gap.unreturned \cup {i}]
      BY <2>1 DEF ReturnFails
    <3> QED BY <1>1, <3>1
  <2>2. CASE ClaimReturn(i) \/ WriteReturn(i)
    BY <2>2 DEF ClaimReturn, WriteReturn
  <2> QED BY <2>1, <2>2
<1>12. \/ log' = log
       \/ \E e \in Entries :
            /\ log' = Append(log, e)
            /\ e.t = "return" /\ e.k = task[i].kid /\ task[i].pc = "hold"
  <2>1. CASE WriteReturn(i)
    <3>1. PICK e : e = Entry("return", 0, task[i].kid, "live")
      OBVIOUS
    <3>2. e \in Entries /\ e.t = "return" /\ e.k = task[i].kid
      BY <1>2, <3>1 DEF Entry, Entries, Kinds, Hows, Tasks
    <3>3. log' = Append(log, e) /\ task[i].pc = "hold"
      BY <2>1, <3>1 DEF WriteReturn, Write
    <3> QED BY <3>2, <3>3
  <2>2. CASE ClaimReturn(i) \/ ReturnFails(i)
    BY <2>2 DEF ClaimReturn, ReturnFails
  <2> QED BY <2>1, <2>2
<1>13. task[i].pc \in Opened /\ t.pc # "none" /\ task[i].pc \notin {"none", "end"}
  BY <1>3, <1>7 DEF Opened
<1> QED BY <1>3, <1>4, <1>5, <1>7, <1>8, <1>10, <1>11, <1>12, <1>13, OneTaskKept

\* The spawn is recorded.
LEMMA RecordSpawnKept ==
    ASSUME KInv, RInv', NEW i \in Calls, RecordSpawn(i) PROVE KInv'
<1>1. task \in [Calls -> Tasks] /\ TaskKept(i) /\ log \in Seq(Entries)
  BY DEF KInv, RInv, IInv, Types, TasksKept
<1>2. task[i] \in Tasks
  BY <1>1
<1> DEFINE t == [task[i] EXCEPT !.pc = "built"]
<1>3. /\ UNCHANGED <<turn, scan, gen, queue, gap>> /\ task[i].pc = "start"
      /\ task' = [task EXCEPT ![i] = t]
  BY <1>1 DEF RecordSpawn
<1>4. /\ t.kid = task[i].kid /\ t.ending = task[i].ending /\ t.pc = "built"
      /\ t.back = task[i].back /\ t.refused = task[i].refused
  BY <1>2 DEF Tasks
<1> HIDE DEF t
<1>5. task'[i] = t
  BY <1>1, <1>3
<1>6. TaskMoved(i)
  BY <1>1, <1>3, <1>4, <1>5 DEF TaskMoved, TaskKept, Over
<1>7. \A j \in Calls : Queued(j) => Queued(j)'
  BY <1>3 DEF Queued
<1>8. PICK e : e = Entry("spawn", i, task[i].kid, "none")
  OBVIOUS
<1>9. e \in Entries /\ e.t = "spawn" /\ e.c = i
  BY <1>2, <1>8 DEF Entry, Entries, Kinds, Hows, Tasks
<1>10. log' = Append(log, e)
  BY <1>8 DEF RecordSpawn, Write
<1> QED BY <1>3, <1>4, <1>6, <1>7, <1>9, <1>10, OneTaskKept

\* A restart: what it strands is owed by the log, and a pass is due.
LEMMA CrashKept ==
    ASSUME KInv, RInv', Crash PROVE KInv'
<1>1. task \in [Calls -> Tasks] /\ Types /\ IInv /\ log \in Seq(Entries) /\ ResultsKept
  BY DEF KInv, RInv, IInv, Types
<1>2. /\ log' = log /\ gap' = gap /\ turn' = NoTurn /\ scan' = NoScan /\ queue' = <<>>
      /\ gen' = [requested |-> 1, scanned |-> 0]
      /\ task' = [i \in Calls |-> IF task[i].pc = "none" THEN NoTask
                                  ELSE [NoTask EXCEPT !.pc = "end", !.kid = task[i].kid]]
  BY DEF Crash
<1>3. ASSUME NEW i \in Calls
      PROVE  /\ task'[i].pc = IF task[i].pc = "none" THEN "none" ELSE "end"
             /\ task'[i].ending = "undecided" /\ ~task'[i].back /\ ~task'[i].refused
  BY <1>2 DEF NoTask
<1>4. ResultsKept'
  <2> SUFFICES ASSUME NEW n \in 1..Len(log), log[n].t = "result" PROVE ResultSound(n)'
    BY <1>2 DEF ResultsKept
  <2>1. PICK i : i = log[n].c
    OBVIOUS
  <2>2. ResultSound(n) /\ log[n] \in Entries
    BY <1>1 DEF ResultsKept
  <2>3. i \in Calls \cup {0}
    BY <2>1, <2>2 DEF Entries
  <2>4. Spawned(log[n].c)' = Spawned(i) /\ Crashed(log[n].c)' = Crashed(i)'
    BY <1>2, <2>1 DEF Spawned, Crashed
  <2>5. ASSUME log[n].how = "ack" PROVE i # 0 /\ Crashed(i)'
    <3>1. i # 0 /\ Spawned(i)
      BY <2>1, <2>2, <2>5 DEF ResultSound, Spawned
    <3>2. i \in Calls /\ task[i].pc # "none"
      BY <1>1, <3>1, SpawnedPast
    <3> QED BY <1>3, <3>1, <3>2 DEF Crashed
  <2>6. ASSUME log[n].how = "refused"
        PROVE  i # 0 /\ ~Spawned(i) /\ task'[i].pc \in {"none", "end"}
    BY <1>3, <2>1, <2>2, <2>3, <2>6 DEF ResultSound
  <2> QED BY <1>2, <2>1, <2>2, <2>4, <2>5, <2>6 DEF ResultSound
<1>5. TasksKept'
  BY <1>3 DEF TasksKept, TaskKept
<1>6. TurnKept'
  BY <1>2 DEF TurnKept, NoTurn
<1>7. PassKept'
  BY <1>2 DEF PassKept, NoScan
<1>8. GenKept'
  <2>1. gen'.scanned = 0 /\ gen'.requested = 1
    BY <1>2
  <2> QED BY <2>1 DEF GenKept
<1> QED BY <1>4, <1>5, <1>6, <1>7, <1>8 DEF KInv

\* A step of the pass strands nothing and loses nothing but what the pass has.
LEMMA PassFrame ==
    ASSUME KInv, RInv', task' = task, queue' = queue, turn.pc = "scan",
           turn'.pc \in {"scan", "reconcile"}, turn'.todo = turn.todo,
           \/ log' = log
           \/ \E e \in Entries : /\ log' = Append(log, e) /\ e.t # "spawn"
                                 /\ e.t = "result" => e.how = "orphan",
           gap.hasty \subseteq gap'.hasty, gap'.unreturned = gap.unreturned,
           gap'.spilt = gap.spilt
    PROVE  /\ Steady /\ ResultsKept' /\ TasksKept' /\ TurnKept'
           /\ \A i \in Calls : Stranded(i)' => Stranded(i) /\ Crashed(i)
<1>1. RInv /\ ResultsKept /\ TasksKept /\ TurnKept /\ Types /\ Types'
  BY DEF KInv, RInv, IInv
<1>2. Steady
  BY DEF Steady
<1>3. \A n \in 1..Len(log') : n \notin 1..Len(log) =>
         log'[n].t # "spawn" /\ (log'[n].t = "result" => log'[n].how = "orphan")
  <2>1. ASSUME NEW e \in Entries, log' = Append(log, e)
        PROVE  \A n \in 1..Len(log') : n \notin 1..Len(log) => log'[n] = e
    BY <1>1, <2>1 DEF Types
  <2> QED BY <2>1
<1>4. Onward
  BY <1>3 DEF Onward, Crashed, Answerable
<1>5. turn.todo = <<>> /\ \A j \in Calls : ~Taken(j)
  BY <1>1, NoneTaken
<1>6. NoticeKept
  BY <1>5 DEF NoticeKept, Queued
<1>7. \A j \in Calls : TaskMoved(j)
  BY DEF TaskMoved
<1>8. ResultsKept'
  BY <1>1, <1>2, <1>4, ResultsStayKept
<1>9. TasksKept'
  BY <1>1, <1>2, <1>4, <1>6, <1>7, TasksStayKept
<1>10. TurnKept'
  BY <1>5 DEF TurnKept
<1> QED BY <1>1, <1>2, <1>4, <1>8, <1>9, <1>10, StrandedBefore

\* A pass that goes on over its prefix and still has what is stranded.
LEMMA PassGoesKept ==
    ASSUME KInv, RInv', task' = task, queue' = queue, turn' = turn, gen' = gen,
           scan.step # "off", scan'.at = scan.at, scan'.gen = scan.gen,
           \/ log' = log
           \/ \E e \in Entries : /\ log' = Append(log, e) /\ e.t # "spawn"
                                 /\ e.t = "result" => e.how = "orphan",
           gap.hasty \subseteq gap'.hasty, gap'.unreturned = gap.unreturned,
           gap'.spilt = gap.spilt,
           scan'.ok => scan.ok,
           scan'.ok => \A i \in Calls, k \in Kids :
              k = task[i].kid /\ Stranded(i) /\ Stranded(i)' /\ Crashed(i) /\ PassHas(k)
                 => PassHas(k)'
    PROVE  KInv'
<1>1. /\ RInv /\ IInv /\ Types /\ PassKept /\ GenKept /\ turn.pc = "scan"
      /\ ResultsKept /\ TasksKept
  BY DEF KInv, RInv, IInv, ScanSound
<1>2. /\ Steady /\ ResultsKept' /\ TasksKept' /\ TurnKept'
      /\ \A i \in Calls : Stranded(i)' => Stranded(i) /\ Crashed(i)
  BY <1>1, PassFrame
<1>3. GenKept'
  BY <1>1, <1>2, GenStaysKept
<1>4. ASSUME NEW r \in 1..Len(log'), log'[r].t = "result", log'[r].how # "orphan"
      PROVE  r <= scan.at
  <2>1. r \in 1..Len(log) /\ log'[r] = log[r]
    <3>1. log \in Seq(Entries)
      BY <1>1 DEF Types
    <3>2. ASSUME NEW e \in Entries, log' = Append(log, e), e.t = "result" => e.how = "orphan"
          PROVE  r \in 1..Len(log) /\ log'[r] = log[r]
      <4>1. (r \in 1..Len(log) /\ log'[r] = log[r]) \/ log'[r] = e
        BY <3>1, <3>2
      <4> QED BY <1>4, <3>2, <4>1
    <3> QED BY <3>2
  <2> QED BY <1>1, <1>4, <2>1 DEF PassKept
<1>5. ASSUME scan'.ok, gen'.requested = scan'.gen, NEW i \in Calls, Stranded(i)'
      PROVE  PassHas(task[i].kid)'
  <2>1. Stranded(i) /\ Crashed(i)
    BY <1>2, <1>5
  <2>2. PICK k \in Kids : k = task[i].kid
    BY <1>1, <2>1, StrandedFacts
  <2>3. PassHas(k)
    BY <1>1, <1>5, <2>1, <2>2 DEF PassKept
  <2>4. PassHas(k)'
    BY <1>5, <2>1, <2>2, <2>3
  <2> QED BY <2>2, <2>4 DEF PassHas
<1>6. PassKept'
  BY <1>1, <1>4, <1>5 DEF PassKept
<1> QED BY <1>2, <1>3, <1>6 DEF KInv

\* The pass reads the log: the log owes a record about every stranded ending.
LEMMA ScanReadKept ==
    ASSUME KInv, RInv', ScanRead PROVE KInv'
<1>1. /\ RInv /\ IInv /\ Types /\ GenKept /\ ResultsKept /\ TasksKept
  BY DEF KInv, RInv, IInv
<1>2. /\ UNCHANGED <<log, task, turn, gen, queue, gap>> /\ turn.pc = "scan"
      /\ scan'.at = Len(log) /\ scan'.gen = gen.requested /\ scan'.step = "read"
      /\ scan'.cur = 0
  BY DEF ScanRead, NoScan
<1>3. /\ ResultsKept' /\ TasksKept' /\ TurnKept'
      /\ \A i \in Calls : Stranded(i)' => Stranded(i) /\ Crashed(i)
  BY <1>2, PassFrame
<1>4. GenKept'
  BY <1>1, <1>2, <1>3, GenStaysKept
<1>5. log \in Seq(Entries) /\ Len(log) \in Nat /\ gen.requested \in Nat
  BY <1>1 DEF Types
<1>6. Prefix' = log
  <2>1. SubSeq(log, 1, Len(log)) = log
    BY <1>5
  <2> QED BY <1>2, <2>1 DEF Prefix
<1>7. ASSUME NEW i \in Calls, Stranded(i)' PROVE PassHas(task[i].kid)'
  <2>1. Stranded(i)
    BY <1>3, <1>7
  <2>2. PICK k \in Kids : k = task[i].kid
    BY <1>1, <2>1, StrandedFacts
  <2>3. OwedRecord(log, k) # "none"
    BY <1>1, <2>1, <2>2, StrandedOwed
  <2>4. PassHas(k)'
    BY <1>2, <1>6, <2>3 DEF PassHas
  <2> QED BY <1>2, <2>2, <2>4 DEF PassHas
<1>8. PassKept'
  BY <1>2, <1>5, <1>7 DEF PassKept
<1> QED BY <1>3, <1>4, <1>8 DEF KInv

\* A child a restart ended is not live.
LEMMA CrashedNotLive ==
    ASSUME NEW i \in Calls, Plain(i), Crashed(i)
    PROVE  ~Live(task[i].kid)
BY DEF Plain, Crashed, Live, Running

\* The children set aside hold every stranded one, and the pass turns to one of
\* them.
LEMMA PassPicksKept ==
    ASSUME KInv, RInv', ScanLive \/ \E k \in Kids : ScanPick(k) PROVE KInv'
<1>1. scan \in Scans /\ RInv
  BY DEF KInv, RInv, IInv, Types
<1>2. UNCHANGED <<log, task, turn, gen, queue, gap>>
  BY DEF ScanLive, ScanPick
<1>3. CASE ScanLive
  <2> DEFINE S == {k \in Kids : ~Live(k) /\ OwedRecord(Prefix, k) # "none"}
  <2>1. scan.step = "read" /\ scan' = [scan EXCEPT !.step = "pick", !.left = S]
    BY <1>3 DEF ScanLive
  <2>2. \A k \in Kids : ~Live(k) /\ OwedRecord(Prefix, k) # "none" => k \in S
    OBVIOUS
  <2>3. scan.cur = 0
    BY <1>1, <2>1 DEF RInv, PassReports
  <2> HIDE DEF S
  <2>4. /\ scan'.at = scan.at /\ scan'.step = "pick" /\ scan'.left = S
        /\ scan'.cur = 0 /\ scan'.gen = scan.gen /\ scan'.ok = scan.ok
    BY <1>1, <2>1, <2>3 DEF Scans
  <2>5. Prefix' = Prefix
    BY <1>2, <2>4 DEF Prefix
  <2>6. ASSUME NEW i \in Calls, NEW k \in Kids, k = task[i].kid, Stranded(i),
               Crashed(i), PassHas(k)
        PROVE  PassHas(k)'
    <3>1. k \in S
      BY <2>1, <2>2, <2>6, CrashedNotLive DEF PassHas, Stranded
    <3> QED BY <1>2, <2>1, <2>3, <2>4, <2>5, <2>6, <3>1 DEF PassHas
  <2> QED BY <1>2, <2>1, <2>4, <2>6, PassGoesKept
<1>4. ASSUME NEW c \in Kids, ScanPick(c) PROVE KInv'
  <2>1. /\ scan.step = "pick" /\ c \in scan.left
        /\ \/ /\ scan' = [scan EXCEPT !.left = @ \ {c}, !.cur = c, !.step = "record"]
           \/ /\ scan' = [scan EXCEPT !.left = @ \ {c}, !.ok = FALSE]
           \/ /\ scan' = [scan EXCEPT !.left = @ \ {c}, !.cur = c, !.step = "check"]
              /\ HasOpenSpawn(Prefix, c)
    BY <1>4 DEF ScanPick
  <2>2. scan.cur = 0
    BY <1>1, <2>1 DEF RInv, PassReports
  <2>3. /\ scan'.at = scan.at /\ scan'.left = scan.left \ {c} /\ scan'.gen = scan.gen
        /\ \/ ~scan'.ok
           \/ scan'.ok = scan.ok /\ scan'.cur = c /\ scan'.step = "record"
           \/ scan'.ok = scan.ok /\ scan'.cur = c /\ scan'.step = "check"
              /\ HasOpenSpawn(Prefix, c)
    <3>1. CASE scan' = [scan EXCEPT !.left = @ \ {c}, !.cur = c, !.step = "record"]
      BY <1>1, <3>1 DEF Scans
    <3>2. CASE scan' = [scan EXCEPT !.left = @ \ {c}, !.ok = FALSE]
      BY <1>1, <3>2 DEF Scans
    <3>3. CASE /\ scan' = [scan EXCEPT !.left = @ \ {c}, !.cur = c, !.step = "check"]
               /\ HasOpenSpawn(Prefix, c)
      BY <1>1, <3>3 DEF Scans
    <3> QED BY <2>1, <3>1, <3>2, <3>3
  <2>4. Prefix' = Prefix
    BY <1>2, <2>3 DEF Prefix
  <2>5. ASSUME scan'.ok, NEW i \in Calls, NEW k \in Kids, PassHas(k) PROVE PassHas(k)'
    <3>1. k # 0 /\ k \in scan.left /\ (HasOpenSpawn(Prefix, k) => HasOpenSpawn(log, k))
      BY <2>1, <2>2, <2>5 DEF PassHas, Kids, Calls
    <3> QED BY <1>2, <2>1, <2>3, <2>4, <2>5, <3>1 DEF PassHas
  <2> QED BY <1>2, <2>1, <2>3, <2>5, PassGoesKept
<1> QED BY <1>3, <1>4

\* The child in hand is dropped: the pass keeps the others, and that one is no
\* longer stranded, or the pass does not count.
LEMMA PickedKept ==
    ASSUME KInv, RInv', NEW ok \in BOOLEAN, scan' = Picked(ok),
           scan.step \in {"check", "return", "record"},
           UNCHANGED <<task, turn, gen, queue, gap>>,
           \/ log' = log
           \/ \E e \in Entries : /\ log' = Append(log, e) /\ e.t \notin {"spawn", "return"}
                                 /\ e.t = "result" => e.how = "orphan",
           ok => \A i \in Calls : Stranded(i) /\ Stranded(i)' => task[i].kid # scan.cur
    PROVE  KInv'
<1>1. scan \in Scans /\ IInv /\ Types
  BY DEF KInv, RInv, IInv, Types
<1>2. /\ scan'.at = scan.at /\ scan'.left = scan.left /\ scan'.gen = scan.gen
      /\ scan'.cur = 0 /\ scan'.step = "pick" /\ scan'.ok = (scan.ok /\ ok)
  BY <1>1 DEF Picked, Scans
<1>3. Prefix' = Prefix
  BY <1>1, <1>2, PrefixKept
<1>4. Steady
  BY DEF Steady
<1>5. \A n \in 1..Len(log') : n \notin 1..Len(log) => log'[n].t # "return"
  <2>1. ASSUME NEW e \in Entries, log' = Append(log, e)
        PROVE  \A n \in 1..Len(log') : n \notin 1..Len(log) => log'[n] = e
    BY <1>1, <2>1 DEF Types
  <2> QED BY <2>1
<1>6. ASSUME scan'.ok, NEW i \in Calls, NEW k \in Kids,
             k = task[i].kid, Stranded(i), Stranded(i)', PassHas(k)
      PROVE  PassHas(k)'
  <2>1. k # scan.cur
    BY <1>2, <1>6
  <2>2. k \in scan.left /\ (HasOpenSpawn(Prefix, k) => HasOpenSpawn(log, k))
    BY <1>6, <2>1 DEF PassHas
  <2>3. HasOpenSpawn(log, k) => HasOpenSpawn(log', k)
    BY <1>1, <1>4, <1>5, StaysOpen
  <2>4. k # 0
    BY DEF Kids, Calls
  <2> QED BY <1>2, <1>3, <2>2, <2>3, <2>4 DEF PassHas
<1> QED BY <1>2, <1>6, PassGoesKept

\* The child in hand is looked at again, or a write about it fails.
LEMMA PassChecksKept ==
    ASSUME KInv, RInv', ScanCheck \/ ScanWriteFails PROVE KInv'
<1>1. /\ scan \in Scans
      /\ gap \in [spilt : SUBSET Calls, hasty : SUBSET Kids, unreturned : SUBSET Calls]
  BY DEF KInv, RInv, IInv, Types
<1>2. UNCHANGED <<log, task, turn, queue, gen>>
      /\ scan.step \in {"check", "return", "record"}
  BY DEF ScanCheck, ScanWriteFails
<1>3. CASE gap' = gap /\ scan' = Picked(FALSE)
  BY <1>2, <1>3, PickedKept
<1>4. CASE ScanCheck /\ ~Live(scan.cur)
  <2> DEFINE S == {k \in {scan.cur} : \E i \in Calls : task[i].kid = k /\ Busy(i)}
  <2>1. scan' = [scan EXCEPT !.step = "return"] /\ scan.step = "check"
    BY <1>4 DEF ScanCheck
  <2>2. gap' = [gap EXCEPT !.hasty = @ \cup S]
    BY <1>4 DEF ScanCheck
  <2> HIDE DEF S
  <2>3. /\ gap.hasty \subseteq gap'.hasty /\ gap'.unreturned = gap.unreturned
        /\ gap'.spilt = gap.spilt
    BY <1>1, <2>2
  <2>4. /\ scan'.at = scan.at /\ scan'.left = scan.left /\ scan'.cur = scan.cur
        /\ scan'.step = "return" /\ scan'.gen = scan.gen /\ scan'.ok = scan.ok
    BY <1>1, <2>1 DEF Scans
  <2>5. Prefix' = Prefix
    BY <1>2, <2>4 DEF Prefix
  <2>6. ASSUME NEW k \in Kids, PassHas(k) PROVE PassHas(k)'
    BY <1>2, <2>1, <2>4, <2>5, <2>6 DEF PassHas
  <2> QED BY <1>2, <2>1, <2>3, <2>4, <2>6, PassGoesKept
<1> QED BY <1>3, <1>4 DEF ScanCheck, ScanWriteFails

\* The pass writes the return of the child in hand, and closes no other's spawn.
LEMMA ScanReturnKept ==
    ASSUME KInv, RInv', ScanReturn PROVE KInv'
<1>1. /\ scan \in Scans /\ IInv /\ Types /\ RInv /\ PassKept /\ ResultsKept /\ TasksKept
  BY DEF KInv, RInv, IInv, Types
<1>2. UNCHANGED <<task, turn, gen, queue, gap>> /\ scan.step = "return"
  BY DEF ScanReturn
<1>3. CASE Settles(scan.cur)
  <2>1. PICK e : e = Entry("return", 0, scan.cur, "orphan")
    OBVIOUS
  <2>2. e \in Entries /\ e.t = "return" /\ e.k = scan.cur
    BY <1>1, <2>1 DEF Entry, Entries, Kinds, Hows, Scans
  <2>3. log' = Append(log, e) /\ scan' = [scan EXCEPT !.step = "record"]
    BY <1>3, <2>1 DEF ScanReturn, Write
  <2>4. /\ scan'.at = scan.at /\ scan'.left = scan.left /\ scan'.cur = scan.cur
        /\ scan'.step = "record" /\ scan'.gen = scan.gen /\ scan'.ok = scan.ok
    BY <1>1, <2>3 DEF Scans
  <2>5. Prefix' = Prefix
    BY <1>1, <2>2, <2>3, <2>4, PrefixKept
  <2>6. Steady
    BY <1>2, <2>2, <2>3 DEF Steady
  <2>7. \A n \in 1..Len(log') : n \notin 1..Len(log) => log'[n] = e
    BY <1>1, <2>2, <2>3 DEF Types
  <2>8. ASSUME NEW k \in Kids, PassHas(k) PROVE PassHas(k)'
    <3>1. CASE k = scan.cur
      BY <1>2, <2>4, <2>5, <2>8, <3>1 DEF PassHas
    <3>2. CASE k # scan.cur
      <4>1. HasOpenSpawn(log, k) => HasOpenSpawn(log', k)
        BY <1>1, <2>2, <2>6, <2>7, <3>2, StaysOpen
      <4> QED BY <1>2, <2>4, <2>5, <2>8, <3>2, <4>1 DEF PassHas
    <3> QED BY <3>1, <3>2
  <2> QED BY <1>2, <2>2, <2>3, <2>4, <2>8, PassGoesKept
<1>4. CASE ~Settles(scan.cur)
  <2>1. log' = log /\ scan' = Picked(TRUE)
    BY <1>4 DEF ScanReturn
  <2>2. ~HasOpenSpawn(log, scan.cur)
    BY <1>4 DEF Settles
  <2>3. scan'.ok = scan.ok /\ scan'.gen = scan.gen
    BY <1>1, <2>1 DEF Picked, Scans
  <2>5. /\ scan'.at = scan.at /\ scan'.left = scan.left /\ scan'.cur = 0
        /\ scan'.step = "pick"
    BY <1>1, <2>1 DEF Picked, Scans
  <2>6. Prefix' = Prefix
    BY <2>1, <2>5 DEF Prefix
  <2>7. ASSUME NEW i \in Calls, NEW k \in Kids, k = task[i].kid, PassHas(k)
        PROVE  PassHas(k)'
    <3>1. k # scan.cur /\ k # 0
      BY <1>2, <2>2, <2>7 DEF PassHas, Kids, Calls
    <3> QED BY <1>2, <2>1, <2>5, <2>6, <2>7, <3>1 DEF PassHas
  <2> QED BY <1>2, <2>1, <2>3, <2>5, <2>7, PassGoesKept
<1> QED BY <1>3, <1>4

\* What the log answers of a stranded ending, the prefix answers too.
LEMMA StrandedInPrefix ==
    ASSUME KInv, scan.step # "off", NEW i \in Calls, Stranded(i), NEW k \in Kids,
           k = task[i].kid, Spawns(Prefix, k) # {}
    PROVE  /\ CallOf(Prefix, k) = i /\ NoticePending(log, k)
           /\ OwedRecord(Prefix, k) # "answer"
<1>1. RInv /\ ResultsKept /\ TasksKept /\ PassKept /\ IInv
  BY DEF KInv, RInv
<1>2. PICK s \in 1..Len(log) :
         /\ log[s].t = "spawn" /\ log[s].c = i /\ Spawns(log, k) = {s}
         /\ Notices(log, k) = {} /\ ~(s < Epoch(log))
         /\ \A n \in Results(log, i) : log[n].how = "ack" /\ s < n
  <2>1. PICK h \in Kids, s \in 1..Len(log) :
           /\ h = task[i].kid /\ Crashed(i)
           /\ log[s].t = "spawn" /\ log[s].c = i /\ Spawns(log, h) = {s}
           /\ Notices(log, h) = {} /\ ~(s < Epoch(log))
           /\ \A n \in Results(log, i) : log[n].how = "ack" /\ s < n
           /\ \A n \in Results(log, i) : \A q \in Returns(log, h) : s < q => n < q
    BY <1>1, StrandedFacts
  <2>2. h = k
    BY <2>1
  <2> QED BY <2>1, <2>2
<1>3. log \in Seq(Entries) /\ scan.at \in Nat /\ scan.at <= Len(log) /\ Len(log) \in Nat
  BY <1>1 DEF IInv, Types, Scans, ScanSound
<1>4. PICK a \in Nat : a = scan.at /\ a <= Len(log)
  BY <1>3
<1>5. PICK p : p = Prefix /\ p = SubSeq(log, 1, a)
  BY <1>4 DEF Prefix
<1>6. /\ p \in Seq(Entries) /\ Len(p) = a
      /\ \A m \in 1..a : m \in 1..Len(log) /\ p[m] = log[m]
  BY <1>3, <1>4, <1>5, PrefixFacts
<1>7. CallOf(p, k) = i
  <2>1. PICK n \in 1..Len(log) : log[n].t = "spawn" /\ log[n].k = k /\ log[n].c = CallOf(p, k)
    BY <1>3, <1>4, <1>5, CallOfFacts
  <2>2. n \in Spawns(log, k)
    BY <2>1 DEF Spawns, At
  <2> QED BY <1>2, <2>1, <2>2
<1>8. NoticePending(log, k)
  BY <1>2 DEF NoticePending
<1>9. PICK n \in Results(log, i) : n \in 1..Len(log) /\ n <= a /\ s < n
  <2>1. PICK n \in Results(log, i) : TRUE
    BY DEF Stranded
  <2>2. n \in 1..Len(log) /\ log[n].t = "result" /\ log[n].how = "ack" /\ s < n
    BY <1>2, <2>1 DEF Results, At
  <2>3. n <= scan.at
    BY <1>1, <2>2 DEF PassKept
  <2> QED BY <1>4, <2>1, <2>2, <2>3
<1>10. n \in Results(p, i)
  BY <1>6, <1>9 DEF Results, At
<1>11. n > Epoch(p)
  <2>1. /\ Epoch(p) \in Nat /\ Epoch(log) \in Nat
        /\ Epoch(p) # 0 => Epoch(p) \in 1..Len(p) /\ p[Epoch(p)].t = "clear"
        /\ \A m \in 1..Len(log) : log[m].t = "clear" => m <= Epoch(log)
    BY <1>3, <1>6, EpochIs
  <2>2. PICK x \in Nat : x = Epoch(p)
    BY <2>1
  <2>3. x # 0 => x \in 1..Len(log) /\ log[x].t = "clear"
    BY <1>6, <2>1, <2>2
  <2>4. x <= Epoch(log)
    BY <2>1, <2>3
  <2> QED BY <1>2, <1>9, <2>1, <2>2, <2>4
<1>12. AnsweredInView(p, i)
  BY <1>10, <1>11 DEF AnsweredInView
<1>13. OwedRecord(p, k) # "answer"
  BY <1>7, <1>12 DEF OwedRecord
<1> QED BY <1>5, <1>7, <1>8, <1>13

\* The record of the pass tells a stranded ending.
LEMMA ScanRecordKept ==
    ASSUME KInv, RInv', ScanRecord PROVE KInv'
<1>1. scan \in Scans /\ log \in Seq(Entries) /\ IInv
  BY DEF KInv, RInv, IInv, Types
<1>2. UNCHANGED <<task, turn, gen, queue, gap>> /\ scan.step = "record"
      /\ scan' = Picked(TRUE)
  BY DEF ScanRecord
<1>3. scan.cur \in Kids /\ Spawns(Prefix, scan.cur) # {}
  BY <1>1, <1>2 DEF IInv, ScanSound, Scans
<1>4. PICK k \in Kids : k = scan.cur
  BY <1>3
<1>5. PICK n \in 1..Len(log) : /\ log[n].t = "spawn" /\ log[n].k = k
                               /\ log[n].c = CallOf(Prefix, k)
  BY <1>1, <1>3, <1>4, CallOfFacts DEF Prefix, Scans, IInv, ScanSound
<1>6. PICK c \in Calls : c = CallOf(Prefix, k) /\ task[c].kid = k
  BY <1>1, <1>5, SpawnedFacts
<1>7. PICK r : r = Entry("result", c, 0, "orphan")
  OBVIOUS
<1>8. PICK o : o = Entry("notice", c, k, "none")
  OBVIOUS
<1>9. /\ r \in Entries /\ r.t = "result" /\ r.how = "orphan" /\ r.c = c
      /\ o \in Entries /\ o.t = "notice" /\ o.c = c
  BY <1>7, <1>8 DEF Entry, Entries, Kinds, Hows
<1>10. \/ log' = log
       \/ log' = Append(log, r)
       \/ log' = Append(log, o)
  BY <1>4, <1>6, <1>7, <1>8 DEF ScanRecord, Write
<1>11. ASSUME NEW i \in Calls, Stranded(i), Stranded(i)', task[i].kid = scan.cur
       PROVE  FALSE
  <2>1. /\ CallOf(Prefix, k) = i /\ NoticePending(log, k)
        /\ OwedRecord(Prefix, k) # "answer"
    BY <1>2, <1>3, <1>4, <1>11, StrandedInPrefix
  <2>2. c = i
    BY <1>6, <2>1
  <2>3. log' = Append(log, o)
    BY <1>4, <1>6, <1>8, <2>1 DEF ScanRecord, Write
  <2>4. Len(log) + 1 \in 1..Len(log') /\ log'[Len(log) + 1] = o
    BY <1>1, <1>9, <2>3
  <2>5. Len(log) + 1 \in NoticesOf(i)'
    BY <1>9, <2>2, <2>4 DEF NoticesOf, At
  <2>6. Told(i)'
    BY <2>5 DEF Told
  <2> QED BY <1>11, <2>6 DEF Stranded
<1>12. log' = log \/ \E e \in Entries : /\ log' = Append(log, e)
                                        /\ e.t \notin {"spawn", "return"}
                                        /\ e.t = "result" => e.how = "orphan"
  BY <1>9, <1>10
<1> QED BY <1>2, <1>11, <1>12, PickedKept

\* A pass that counts as complete leaves nothing stranded.
LEMMA ScanEndKept ==
    ASSUME KInv, RInv', ScanEnd PROVE KInv'
<1>1. /\ RInv /\ IInv /\ Types /\ PassKept /\ GenKept /\ ResultsKept /\ TasksKept
      /\ turn \in Turns /\ gen \in [requested : Nat, scanned : Nat]
  BY DEF KInv, RInv, IInv, Types
<1>2. /\ UNCHANGED <<log, task, queue, gap>> /\ scan.step = "pick" /\ scan.left = {}
      /\ gen' = IF scan.ok THEN Recorded ELSE gen
      /\ scan' = NoScan /\ turn' = [turn EXCEPT !.pc = "reconcile"]
  BY DEF ScanEnd
<1>3. turn.pc = "scan" /\ scan.cur = 0
  BY <1>1, <1>2 DEF IInv, ScanSound, RInv, PassReports
<1>4. turn'.pc = "reconcile" /\ turn'.todo = turn.todo
  BY <1>1, <1>2 DEF Turns
<1>5. /\ ResultsKept' /\ TasksKept' /\ TurnKept'
      /\ \A i \in Calls : Stranded(i)' => Stranded(i) /\ Crashed(i)
  BY <1>2, <1>3, <1>4, PassFrame
<1>6. PassKept'
  BY <1>2 DEF PassKept, NoScan
<1>7. GenKept'
  <2>1. CASE gen' = gen
    BY <1>1, <1>5, <2>1, GenStaysKept
  <2>2. CASE gen' # gen
    <3>1. scan.ok /\ gen.requested = scan.gen
      BY <1>2, <2>2 DEF Recorded
    <3>2. ASSUME NEW i \in Calls, Stranded(i) PROVE FALSE
      <4>1. PICK k \in Kids : k = task[i].kid
        BY <1>1, <3>2, StrandedFacts
      <4>2. PassHas(k)
        BY <1>1, <1>2, <3>1, <3>2, <4>1 DEF PassKept
      <4>3. k # 0
        BY DEF Kids, Calls
      <4> QED BY <1>2, <1>3, <4>2, <4>3 DEF PassHas
    <3> QED BY <1>5, <3>2 DEF GenKept
  <2> QED BY <2>1, <2>2
<1> QED BY <1>5, <1>6, <1>7 DEF KInv

\* The invariant of the endings holds at the start.
LEMMA InitKept == Init => KInv
<1> SUFFICES ASSUME Init PROVE KInv
  OBVIOUS
<1>1. /\ log = <<>> /\ task = [i \in Calls |-> NoTask] /\ turn = NoTurn
      /\ scan = NoScan /\ queue = <<>> /\ gen.scanned # gen.requested
  BY DEF Init
<1>2. Len(log) = 0
  BY <1>1
<1>3. ResultsKept
  BY <1>2 DEF ResultsKept
<1>4. TasksKept
  BY <1>1 DEF TasksKept, TaskKept, NoTask, Over
<1>5. TurnKept
  BY <1>1 DEF TurnKept, NoTurn
<1>6. PassKept
  BY <1>1 DEF PassKept, NoScan
<1>7. GenKept
  BY <1>1 DEF GenKept
<1> QED BY <1>3, <1>4, <1>5, <1>6, <1>7, InitReports DEF KInv

\* Every step keeps it.
LEMMA NextKept == KInv /\ [Next]_vars => KInv'
<1> SUFFICES ASSUME KInv, [Next]_vars PROVE KInv'
  OBVIOUS
<1>1. RInv'
  BY StepReports DEF KInv
<1>2. CASE \/ Enter \/ NotificationTurn \/ TakeNotices \/ Finish
           \/ DropTurn \/ TurnFails \/ ScanReadFails
  BY <1>1, <1>2, TurnGoesKept
<1>3. CASE TurnStep
  <2>1. CASE Reconcile \/ TakeNotices \/ AppendNotice \/ Finish \/ AppendResult
    BY <1>1, <1>2, <2>1, ReconcileKept, AppendNoticeKept, AppendResultKept
  <2>2. ASSUME NEW i \in Calls, Delegate(i) \/ Launched(i) \/ Joined(i) \/ Released(i)
        PROVE  KInv'
    BY <1>1, <2>2, DelegateKept, WaitEndsKept
  <2>3. ASSUME NEW i \in Calls, NEW k \in Kids, NEW back \in BOOLEAN, Spawn(i, k, back)
        PROVE  KInv'
    BY <1>1, <2>3, SpawnKept
  <2>4. CASE ScanRead \/ ScanEnd
    BY <1>1, <2>4, ScanReadKept, ScanEndKept
  <2>5. CASE ScanLive \/ \E k \in Kids : ScanPick(k)
    BY <1>1, <2>5, PassPicksKept
  <2>6. CASE ScanCheck \/ ScanReturn \/ ScanRecord
    BY <1>1, <2>6, PassChecksKept, ScanReturnKept, ScanRecordKept
  <2> QED BY <1>3, <2>1, <2>2, <2>3, <2>4, <2>5, <2>6 DEF TurnStep
<1>4. CASE Clear
  BY <1>1, <1>4, ReconcileKept
<1>5. CASE Fault
  <2>1. CASE StopTurn
    BY <1>1, <2>1, WaitEndsKept
  <2>2. CASE ScanWriteFails
    BY <1>1, <2>2, PassChecksKept
  <2>3. CASE Crash
    BY <1>1, <2>3, CrashKept
  <2>4. ASSUME NEW i \in Calls, SpawnFails(i) \/ ReturnFails(i) PROVE KInv'
    BY <1>1, <2>4, TaskGoesKept, ReturnKept
  <2> QED BY <1>2, <1>5, <2>1, <2>2, <2>3, <2>4 DEF Fault
<1>6. ASSUME NEW i \in Calls, TaskStep(i) \/ Handover(i) \/ BudgetElapsed(i) PROVE KInv'
  <2>1. CASE RecordSpawn(i) \/ RunEnds(i) \/ WriteReturn(i)
    BY <1>1, <2>1, RecordSpawnKept, RunEndsKept, ReturnKept
  <2>2. CASE Announce(i) \/ Handover(i)
    BY <1>1, <2>2, TaskGoesKept
  <2>3. CASE ClaimReturn(i) \/ BudgetElapsed(i)
    BY <1>1, <2>3, ReturnKept, BudgetKept
  <2> QED BY <1>6, <2>1, <2>2, <2>3 DEF TaskStep
<1>7. CASE UNCHANGED vars
  <2>1. UNCHANGED <<log, task, turn, scan, gen, queue, gap>>
    BY <1>7 DEF vars
  <2>2. TurnKept'
    BY <2>1 DEF KInv, TurnKept, Spawned
  <2>3. NoticeKept
    BY <2>1 DEF NoticeKept, Queued, Taken
  <2> QED BY <1>1, <2>1, <2>2, <2>3, TurnAloneKept
<1> QED BY <1>2, <1>3, <1>4, <1>5, <1>6, <1>7 DEF Next

\* No ending is dropped: through restarts, failed appends, dropped turns and
\* passes that overlap them, the ending of a child that is over is told to the
\* model or waits in the queue, in the turn that drains it, for its result, or in
\* the log with a pass due.
THEOREM EndingsKept == Spec => []EndingKept
<1>1. KInv => EndingKept
  <2> SUFFICES ASSUME KInv, NEW i \in Calls,
                      Ended(i), Plain(i), ~Lost(i), ~LateAck(i), ~Told(i), ~Waits(i)
               PROVE  FALSE
    BY DEF EndingKept
  <2>1. RInv /\ ResultsKept /\ TasksKept /\ TurnKept /\ GenKept
    BY DEF KInv
  <2>2. /\ ~\E n \in DOMAIN queue : queue[n] = i
        /\ ~(turn.pc = "notices" /\ \E n \in DOMAIN turn.todo : turn.todo[n] = i)
        /\ Results(log, i) # {}
        /\ ~(OwedRecord(log, task[i].kid) # "none" /\ gen.scanned # gen.requested)
    BY DEF Waits
  <2>3. DOMAIN queue = 1..Len(queue) /\ DOMAIN turn.todo = 1..Len(turn.todo)
    BY <2>1 DEF RInv, IInv, Types, Turns
  <2>4. ~Queued(i)
    BY <2>2, <2>3 DEF Queued
  <2>5. ~Taken(i)
    BY <2>1, <2>2, <2>3, NoneTaken DEF Taken
  <2>6. Stranded(i)
    BY <2>2, <2>4, <2>5 DEF Stranded
  <2>7. OwedRecord(log, task[i].kid) # "none" /\ gen.scanned # gen.requested
    BY <2>1, <2>6, StrandedOwed DEF GenKept
  <2> QED BY <2>2, <2>7
<1> QED BY <1>1, InitKept, NextKept, PTL DEF Spec
=============================================================================
