------------------------ MODULE ChildAdmissionProofs ------------------------
(***************************************************************************)
(* The safety properties of ChildAdmission for every finite set of spawn   *)
(* calls, every number of slots and every length of the queue.             *)
(*                                                                         *)
(* SlotsAccounted counts; what makes it inductive is where each call       *)
(* stands: the line holds each parked call that was handed no permit, once *)
(* (SemOk), and a call that has not been admitted has no task (Life).      *)
(* The shutdown's two properties follow a child from the register to the   *)
(* set aside, the list of the join and the one it waits for (Life,         *)
(* Joining).                                                               *)
(***************************************************************************)
EXTENDS ChildAdmission, FiniteSetTheorems, SequenceTheorems, TLAPS

Sems == [free : Nat, line : Seq(Spawns), handed : SUBSET Spawns]

Types ==
    /\ call \in [Spawns -> {"idle", "full", "parked", "holds", "started",
                            "waits", "inline", "over", "panics"}]
    /\ task \in [Spawns -> {"none", "builds", "runs", "drops", "ended"}]
    /\ reg \in [closing : BOOLEAN, filed : SUBSET Spawns, drained : SUBSET Spawns,
                watch : [Spawns -> {"none", "detached", "awaited"}]]
    /\ token \in [Spawns -> {"live", "turn", "shutdown"}]
    /\ ending \in [Spawns -> {"undecided", "caller", "notify"}]
    /\ link \in [Spawns -> {"none", "armed", "cancels"}]
    /\ bound \subseteq Spawns
    /\ stuck \subseteq Spawns
    /\ aborted \subseteq Spawns
    /\ freed \subseteq Spawns
    /\ join \in [pc : {"none", "closed", "joins", "done"}, left : SUBSET Spawns,
                 cur : SUBSET Spawns]

\* The calls that wait, and the spawns that have a slot.
Parked == {s \in Spawns : call[s] = "parked"}
Held == {s \in Spawns : call[s] = "holds" \/ task[s] \in {"builds", "runs", "drops"}}

InLine(l, s) == \E i \in 1..Len(l) : l[i] = s
NoTwice(l) == \A i, j \in 1..Len(l) : l[i] = l[j] => i = j

\* The semaphore m when the calls p wait and h slots are used.
SemOk(m, p, h) ==
    /\ m \in Sems
    /\ m.handed \subseteq p
    /\ NoTwice(m.line)
    /\ \A s \in Spawns : InLine(m.line, s) <=> s \in p \ m.handed
    /\ m.line # <<>> => m.free = 0
    /\ m.free + Cardinality(m.handed) + h = Cap

Slots ==
    /\ SemOk(sem, Parked, Cardinality(Held))
    /\ queued = Cardinality(Parked)
    /\ queued <= QueueCap

\* Where the shutdown may still find a child.
Found == reg.drained \cup join.left \cup join.cur

\* One spawn: its call, its task, its link and its place in the register.
Life(s) ==
    /\ call[s] \in {"idle", "full", "parked", "holds"} => task[s] = "none"
    /\ task[s] = "none" => link[s] = "none" /\ token[s] # "turn" /\ s \notin freed
    /\ s \in Fore /\ task[s] \in {"none", "builds"} => ending[s] = "undecided"
    /\ s \in Fore /\ task[s] = "runs" => s \in bound
    /\ s \in Fore /\ task[s] = "drops" /\ ending[s] = "notify" => s \in bound
    /\ link[s] = "armed" => /\ s \in Fore /\ token[s] # "turn"
                            /\ task[s] \in {"builds", "runs", "drops"}
    /\ s \in freed => link[s] = "none" /\ token[s] # "turn"
    /\ s \in reg.filed => task[s] \in {"builds", "runs"}
    /\ task[s] \in {"builds", "runs"} /\ ~reg.closing => s \in reg.filed
    /\ task[s] \in {"builds", "runs"} /\ reg.closing => token[s] # "live" /\ s \in Found

\* The join's steps and what it has in hand.
Joining ==
    /\ reg.closing <=> join.pc # "none"
    /\ reg.closing => reg.filed = {}
    /\ join.pc # "closed" => reg.drained = {}
    /\ join.pc # "joins" => join.left = {} /\ join.cur = {}

IInv == Types /\ Slots /\ (\A s \in Spawns : Life(s)) /\ Joining

-----------------------------------------------------------------------------
(* The line. *)

\* A call that joins the line is in it once, behind the others.
LEMMA LineAppend ==
    ASSUME NEW S, NEW l \in Seq(S), NEW s \in S, NoTwice(l), ~InLine(l, s)
    PROVE  /\ Append(l, s) \in Seq(S) /\ NoTwice(Append(l, s))
           /\ \A x : InLine(Append(l, s), x) <=> x = s \/ InLine(l, x)
<1>. DEFINE m == Append(l, s)
<1>1. /\ m \in Seq(S)
      /\ Len(m) = Len(l) + 1
      /\ Len(l) \in Nat
      /\ m[Len(l) + 1] = s
      /\ \A i \in 1..Len(l) : m[i] = l[i]
  OBVIOUS
<1>. HIDE DEF m
<1>2. NoTwice(m)
  BY <1>1 DEF NoTwice, InLine
<1>3. ASSUME NEW x PROVE InLine(m, x) <=> x = s \/ InLine(l, x)
  BY <1>1 DEF InLine
<1>. QED
  BY <1>1, <1>2, <1>3 DEF m

\* The first in line leaves, the others stay.
LEMMA LineTail ==
    ASSUME NEW S, NEW l \in Seq(S), l # <<>>, NoTwice(l)
    PROVE  /\ Tail(l) \in Seq(S)
           /\ NoTwice(Tail(l))
           /\ Head(l) \in S
           /\ InLine(l, Head(l))
           /\ \A x : InLine(Tail(l), x) <=> x # Head(l) /\ InLine(l, x)
<1>. DEFINE m == Tail(l)
<1>1. /\ m \in Seq(S) /\ Len(m) = Len(l) - 1 /\ Len(l) \in Nat \ {0}
      /\ \A i \in 1..Len(m) : m[i] = l[i + 1]
      /\ Head(l) = l[1] /\ l[1] \in S
  OBVIOUS
<1>. HIDE DEF m
<1>2. NoTwice(m)
  <2>. SUFFICES ASSUME NEW i \in 1..Len(m), NEW j \in 1..Len(m), m[i] = m[j] PROVE i = j
    BY DEF NoTwice
  <2>1. i + 1 \in 1..Len(l) /\ j + 1 \in 1..Len(l) /\ l[i + 1] = l[j + 1]
    BY <1>1
  <2>2. i + 1 = j + 1
    BY <2>1 DEF NoTwice
  <2>. QED
    BY <2>2
<1>3. ASSUME NEW x PROVE InLine(m, x) <=> x # l[1] /\ InLine(l, x)
  <2>1. ASSUME InLine(m, x) PROVE x # l[1] /\ InLine(l, x)
    <3>1. PICK i \in 1..Len(m) : m[i] = x
      BY <2>1 DEF InLine
    <3>2. i + 1 \in 1..Len(l) /\ l[i + 1] = x /\ 1 \in 1..Len(l) /\ i + 1 # 1
      BY <1>1, <3>1
    <3>. QED
      BY <3>2 DEF InLine, NoTwice
  <2>2. ASSUME x # l[1], InLine(l, x) PROVE InLine(m, x)
    <3>1. PICK i \in 1..Len(l) : l[i] = x
      BY <2>2 DEF InLine
    <3>2. i - 1 \in 1..Len(m) /\ m[i - 1] = x
      BY <1>1, <2>2, <3>1
    <3>. QED
      BY <3>2 DEF InLine
  <2>. QED
    BY <2>1, <2>2
<1>4. InLine(l, l[1])
  BY <1>1 DEF InLine
<1>. QED
  BY <1>1, <1>2, <1>3, <1>4 DEF m

\* A call that leaves the line is in it no more, the others stay.
LEMMA LineRemove ==
    ASSUME NEW S, NEW l \in Seq(S), NEW s, NoTwice(l), InLine(l, s)
    PROVE  /\ RemoveFirst(l, s) \in Seq(S) /\ NoTwice(RemoveFirst(l, s))
           /\ \A x : InLine(RemoveFirst(l, s), x) <=> x # s /\ InLine(l, x)
<1>. DEFINE k == SelectInSeq(l, LAMBDA v : v = s)
            m == RemoveFirst(l, s)
<1>1. k \in 1..Len(l) /\ l[k] = s
  <2>1. PICK j \in 1..Len(l) : l[j] = s
    BY DEF InLine
  <2>2. {i \in 1..Len(l) : l[i] = s} = {j}
    BY <2>1 DEF NoTwice
  <2>3. k = Min({j})
    BY <2>2 DEF SelectInSeq
  <2>4. j \in Int
    OBVIOUS
  <2>5. Min({j}) = j
    BY <2>4 DEF Min
  <2>. QED
    BY <2>1, <2>3, <2>5
<1>2. m = SubSeq(l, 1, k - 1) \o SubSeq(l, k + 1, Len(l))
  BY DEF InLine, RemoveFirst, RemoveAt
<1>. HIDE DEF k, m
<1>3. /\ m \in Seq(S) /\ Len(m) = Len(l) - 1 /\ Len(l) \in Nat /\ k \in Nat
      /\ \A i \in 1..Len(m) : m[i] = IF i < k THEN l[i] ELSE l[i + 1]
  <2>. DEFINE a == SubSeq(l, 1, k - 1)
              b == SubSeq(l, k + 1, Len(l))
  <2>1. Len(l) \in Nat /\ k \in Nat /\ k >= 1 /\ k <= Len(l) /\ \A i \in 1..Len(l) : l[i] \in S
    BY <1>1
  <2>2. a \in Seq(S) /\ Len(a) = k - 1 /\ \A i \in 1..(k - 1) : a[i] = l[i]
    BY <2>1, SubSeqProperties
  <2>3. /\ b \in Seq(S) /\ Len(b) = Len(l) - k
        /\ \A i \in 1..(Len(l) - k) : b[i] = l[k + i]
    BY <2>1, SubSeqProperties
  <2>4. m = a \o b
    BY <1>2
  <2>. HIDE DEF a, b
  <2>5. /\ m \in Seq(S) /\ Len(m) = Len(a) + Len(b)
        /\ \A i \in 1..(Len(a) + Len(b)) : m[i] = IF i <= Len(a) THEN a[i] ELSE b[i - Len(a)]
    BY <2>2, <2>3, <2>4, ConcatProperties
  <2>6. Len(m) = Len(l) - 1
    BY <2>1, <2>2, <2>3, <2>5
  <2>7. ASSUME NEW i \in 1..Len(m) PROVE m[i] = IF i < k THEN l[i] ELSE l[i + 1]
    <3>1. CASE i < k
      BY <2>1, <2>2, <2>3, <2>5, <3>1
    <3>2. CASE i >= k
      <4>1. m[i] = b[i - (k - 1)] /\ i - (k - 1) \in 1..(Len(l) - k)
        BY <2>1, <2>2, <2>3, <2>5, <2>6, <3>2
      <4>2. b[i - (k - 1)] = l[k + (i - (k - 1))] /\ k + (i - (k - 1)) = i + 1
        BY <2>1, <2>3, <4>1
      <4>. QED
        BY <2>1, <3>2, <4>1, <4>2
    <3>. QED
      BY <2>1, <3>1, <3>2
  <2>. QED
    BY <2>1, <2>5, <2>6, <2>7
<1>4. NoTwice(m)
  <2>. SUFFICES ASSUME NEW i \in 1..Len(m), NEW j \in 1..Len(m), m[i] = m[j] PROVE i = j
    BY DEF NoTwice
  <2>1. /\ i \in 1..Len(l)
        /\ i + 1 \in 1..Len(l)
        /\ j \in 1..Len(l)
        /\ j + 1 \in 1..Len(l)
    BY <1>3
  <2>. QED
    BY <1>1, <1>3, <2>1 DEF NoTwice
<1>5. ASSUME NEW x PROVE InLine(m, x) <=> x # s /\ InLine(l, x)
  <2>1. ASSUME InLine(m, x) PROVE x # s /\ InLine(l, x)
    <3>1. PICK i \in 1..Len(m) : m[i] = x
      BY <2>1 DEF InLine
    <3>2. i \in 1..Len(l) /\ i + 1 \in 1..Len(l)
      BY <1>3
    <3>. QED
      BY <1>1, <1>3, <3>1, <3>2 DEF InLine, NoTwice
  <2>2. ASSUME x # s, InLine(l, x) PROVE InLine(m, x)
    <3>1. PICK i \in 1..Len(l) : l[i] = x
      BY <2>2 DEF InLine
    <3>2. CASE i < k
      BY <1>1, <1>3, <3>1, <3>2 DEF InLine
    <3>3. CASE i > k
      <4>1. i - 1 \in 1..Len(m) /\ m[i - 1] = x
        BY <1>1, <1>3, <3>1, <3>3
      <4>. QED
        BY <4>1 DEF InLine
    <3>. QED
      BY <1>1, <2>2, <3>1, <3>2, <3>3
  <2>. QED
    BY <2>1, <2>2
<1>. QED
  BY <1>3, <1>4, <1>5 DEF m

-----------------------------------------------------------------------------
(* The semaphore. *)

\* There are finitely many spawns, so the slots they hold can be counted.
LEMMA SpawnsFinite == IsFiniteSet(Spawns)
BY GateAssumption, FS_Union DEF Spawns

\* Sets of spawns are counted.
LEMMA Counting ==
    ASSUME NEW A, A \subseteq Spawns
    PROVE  /\ IsFiniteSet(A)
           /\ Cardinality(A) \in Nat
           /\ Cardinality(A) <= Cardinality(Spawns)
           /\ \A s : s \notin A => Cardinality(A \cup {s}) = Cardinality(A) + 1
           /\ \A s \in A : Cardinality(A \ {s}) = Cardinality(A) - 1 /\ Cardinality(A) >= 1
<1>1. /\ IsFiniteSet(A)
      /\ Cardinality(A) \in Nat
      /\ Cardinality(A) <= Cardinality(Spawns)
  BY SpawnsFinite, FS_Subset, FS_CardinalityType
<1>2. ASSUME NEW s, s \notin A PROVE Cardinality(A \cup {s}) = Cardinality(A) + 1
  BY <1>1, <1>2, FS_AddElement
<1>3. ASSUME NEW s \in A PROVE Cardinality(A \ {s}) = Cardinality(A) - 1 /\ Cardinality(A) >= 1
  <2>1. Cardinality(A \ {s}) = Cardinality(A) - 1 /\ Cardinality(A) # 0
    BY <1>1, FS_RemoveElement, FS_EmptySet
  <2>. QED
    BY <1>1, <2>1
<1>. QED
  BY <1>1, <1>2, <1>3

\* A free permit is taken.
LEMMA TakeOk ==
    ASSUME NEW m, NEW p, NEW h \in Nat, SemOk(m, p, h), m.free > 0
    PROVE  SemOk(Take(m), p, h + 1)
<1>. DEFINE t == Take(m)
<1>1. /\ m \in Sems
      /\ t \in Sems
      /\ t.free = m.free - 1
      /\ t.line = m.line
      /\ t.handed = m.handed
  BY DEF SemOk, Sems, Take
<1>. HIDE DEF t
<1>2. Cardinality(m.handed) \in Nat
  BY <1>1, Counting DEF Sems
<1>3. t.free + Cardinality(t.handed) + (h + 1) = Cap
  <2>1. m.free \in Nat /\ m.free + Cardinality(m.handed) + h = Cap
    BY <1>1 DEF SemOk, Sems
  <2>. QED
    BY <1>1, <1>2, <2>1
<1>4. t.line = <<>>
  BY <1>1 DEF SemOk
<1>5. SemOk(t, p, h + 1)
  BY <1>1, <1>3, <1>4 DEF SemOk
<1>. QED
  BY <1>5 DEF t

\* A permit that comes back is free, or handed to the first in line.
LEMMA GiveBackOk ==
    ASSUME NEW m, NEW p, NEW h \in Nat, SemOk(m, p, h + 1)
    PROVE  SemOk(GiveBack(m), p, h)
<1>. DEFINE t == GiveBack(m)
<1>0. m \in Sems /\ Cardinality(m.handed) \in Nat /\ m.free \in Nat
  BY Counting DEF SemOk, Sems
<1>1. CASE m.line = <<>>
  <2>1. /\ t \in Sems
        /\ t.free = m.free + 1
        /\ t.line = m.line
        /\ t.handed = m.handed
    BY <1>0, <1>1 DEF Sems, GiveBack
  <2>. HIDE DEF t
  <2>2. t.free + Cardinality(t.handed) + h = Cap
    <3>1. m.free + Cardinality(m.handed) + (h + 1) = Cap
      BY DEF SemOk
    <3>2. PICK c \in Nat : c = Cardinality(m.handed)
      BY <1>0
    <3> QED BY <1>0, <2>1, <3>1, <3>2, GateAssumption
  <2>3. SemOk(t, p, h)
    BY <1>1, <2>1, <2>2 DEF SemOk
  <2>. QED
    BY <2>3 DEF t
<1>2. CASE m.line # <<>>
  <2>. DEFINE f == Head(m.line)
  <2>0. m.line \in Seq(Spawns) /\ NoTwice(m.line)
    BY <1>0 DEF SemOk, Sems
  <2>1. /\ Tail(m.line) \in Seq(Spawns) /\ NoTwice(Tail(m.line)) /\ f \in Spawns
        /\ InLine(m.line, f)
        /\ \A x : InLine(Tail(m.line), x) <=> x # f /\ InLine(m.line, x)
    BY <1>2, <2>0, LineTail
  <2>. HIDE DEF f
  <2>2. t = [m EXCEPT !.line = Tail(m.line), !.handed = m.handed \cup {f}]
    BY <1>2 DEF GiveBack, f
  <2>3. /\ t \in Sems /\ t.free = m.free /\ t.line = Tail(m.line)
        /\ t.handed = m.handed \cup {f}
    BY <1>0, <2>1, <2>2 DEF Sems
  <2>. HIDE DEF t
  <2>4. f \in p /\ f \notin m.handed
    BY <2>1 DEF SemOk
  <2>5. Cardinality(t.handed) = Cardinality(m.handed) + 1
    BY <1>0, <2>3, <2>4, Counting DEF Sems
  <2>6. t.free + Cardinality(t.handed) + h = Cap
    BY <1>0, <2>3, <2>5, GateAssumption DEF SemOk
  <2>7. m.free = 0
    BY <1>2 DEF SemOk
  <2>8. \A s \in Spawns : InLine(t.line, s) <=> s \in p \ t.handed
    BY <2>1, <2>3 DEF SemOk
  <2>9. SemOk(t, p, h)
    BY <2>1, <2>3, <2>4, <2>6, <2>7, <2>8 DEF SemOk
  <2>. QED
    BY <2>9 DEF t
<1>. QED
  BY <1>1, <1>2

\* A call joins the line when no permit is free.
LEMMA ParkOk ==
    ASSUME NEW m, NEW p, NEW h \in Nat, NEW s \in Spawns, SemOk(m, p, h),
           m.free = 0, s \notin p
    PROVE  SemOk([m EXCEPT !.line = Append(@, s)], p \cup {s}, h)
<1>. DEFINE t == [m EXCEPT !.line = Append(@, s)]
<1>1. /\ m \in Sems
      /\ m.line \in Seq(Spawns)
      /\ NoTwice(m.line)
      /\ ~InLine(m.line, s)
  BY DEF SemOk, Sems
<1>2. /\ Append(m.line, s) \in Seq(Spawns) /\ NoTwice(Append(m.line, s))
      /\ \A x : InLine(Append(m.line, s), x) <=> x = s \/ InLine(m.line, x)
  BY <1>1, LineAppend
<1>3. /\ t \in Sems
      /\ t.free = m.free
      /\ t.line = Append(m.line, s)
      /\ t.handed = m.handed
  BY <1>1, <1>2 DEF Sems
<1>. HIDE DEF t
<1>4. \A x \in Spawns : InLine(t.line, x) <=> x \in (p \cup {s}) \ t.handed
  BY <1>2, <1>3 DEF SemOk
<1>5. SemOk(t, p \cup {s}, h)
  BY <1>2, <1>3, <1>4 DEF SemOk
<1>. QED
  BY <1>5 DEF t

\* A wait takes the permit it was handed.
LEMMA WakeOk ==
    ASSUME NEW m, NEW p, NEW h \in Nat, NEW s \in m.handed, SemOk(m, p, h)
    PROVE  SemOk([m EXCEPT !.handed = @ \ {s}], p \ {s}, h + 1)
<1>. DEFINE t == [m EXCEPT !.handed = @ \ {s}]
<1>1. /\ t \in Sems
      /\ t.free = m.free
      /\ t.line = m.line
      /\ t.handed = m.handed \ {s}
      /\ m.handed \subseteq Spawns /\ m.free \in Nat
  BY DEF SemOk, Sems
<1>. HIDE DEF t
<1>2. /\ Cardinality(t.handed) = Cardinality(m.handed) - 1
      /\ Cardinality(m.handed) \in Nat
  BY <1>1, Counting
<1>3. t.free + Cardinality(t.handed) + (h + 1) = Cap
  BY <1>1, <1>2, GateAssumption DEF SemOk
<1>4. SemOk(t, p \ {s}, h + 1)
  BY <1>1, <1>3 DEF SemOk
<1>. QED
  BY <1>4 DEF t

\* A call that leaves takes no permit with it.
LEMMA LeaveOk ==
    ASSUME NEW p, NEW h \in Nat, NEW s \in p, p \subseteq Spawns, SemOk(sem, p, h)
    PROVE  SemOk(LeaveLine(s), p \ {s}, h)
<1>1. CASE s \in sem.handed
  <2>1. SemOk([sem EXCEPT !.handed = @ \ {s}], p \ {s}, h + 1)
    BY <1>1, WakeOk
  <2>2. SemOk(GiveBack([sem EXCEPT !.handed = @ \ {s}]), p \ {s}, h)
    BY <2>1, GiveBackOk
  <2>. QED
    BY <1>1, <2>2 DEF LeaveLine
<1>2. CASE s \notin sem.handed
  <2>. DEFINE t == LeaveLine(s)
  <2>1. /\ sem \in Sems
        /\ sem.line \in Seq(Spawns)
        /\ NoTwice(sem.line)
        /\ InLine(sem.line, s)
    BY <1>2 DEF SemOk, Sems
  <2>2. /\ RemoveFirst(sem.line, s) \in Seq(Spawns)
        /\ NoTwice(RemoveFirst(sem.line, s))
        /\ \A x : InLine(RemoveFirst(sem.line, s), x) <=> x # s /\ InLine(sem.line, x)
    BY <2>1, LineRemove
  <2>3. /\ t \in Sems /\ t.free = sem.free /\ t.line = RemoveFirst(sem.line, s)
        /\ t.handed = sem.handed
    BY <1>2, <2>1, <2>2 DEF Sems, LeaveLine
  <2>. HIDE DEF t
  <2>4. sem.free = 0
    BY <2>1 DEF SemOk, InLine
  <2>5. \A x \in Spawns : InLine(t.line, x) <=> x \in (p \ {s}) \ t.handed
    BY <2>2, <2>3 DEF SemOk
  <2>6. SemOk(t, p \ {s}, h)
    BY <1>2, <2>2, <2>3, <2>4, <2>5 DEF SemOk
  <2>. QED
    BY <2>6 DEF t
<1>. QED
  BY <1>1, <1>2

-----------------------------------------------------------------------------
(* The steps. *)

\* What the counts say of the sets behind them.
LEMMA SlotSets ==
    ASSUME Slots
    PROVE  /\ sem \in Sems /\ Parked \subseteq Spawns /\ Held \subseteq Spawns
           /\ queued \in Nat
           /\ Cardinality(Held) \in Nat
           /\ Cardinality(Parked) \in Nat
<1>1. Parked \subseteq Spawns /\ Held \subseteq Spawns /\ sem \in Sems
  BY DEF Parked, Held, Slots, SemOk
<1>2. Cardinality(Held) \in Nat /\ Cardinality(Parked) \in Nat
  BY <1>1, Counting
<1>. QED
  BY <1>1, <1>2 DEF Slots

\* A step that moves no call into or out of the line or a slot.
LEMMA SlotsKept ==
    ASSUME Slots, sem' = sem, queued' = queued, Parked' = Parked, Held' = Held
    PROVE  Slots'
BY DEF Slots, SemOk, Sems, InLine, NoTwice

\* A call takes a free permit.
LEMMA SlotsTake ==
    ASSUME Slots, NEW s \in Spawns, s \notin Held, sem.free > 0, sem' = Take(sem),
           queued' = queued, Parked' = Parked, Held' = Held \cup {s}
    PROVE  Slots'
<1>1. SemOk(Take(sem), Parked, Cardinality(Held) + 1)
  BY SlotSets, TakeOk DEF Slots
<1>2. Cardinality(Held \cup {s}) = Cardinality(Held) + 1
  BY SlotSets, Counting
<1>3. SemOk(sem', Parked', Cardinality(Held'))
  BY <1>1, <1>2
<1>. QED
  BY <1>3 DEF Slots

\* A slot is given back.
LEMMA SlotsFreed ==
    ASSUME Slots, NEW s \in Held, sem' = GiveBack(sem),
           queued' = queued, Parked' = Parked, Held' = Held \ {s}
    PROVE  Slots'
<1>1. /\ Cardinality(Held \ {s}) = Cardinality(Held) - 1
      /\ Cardinality(Held) \in Nat
      /\ Cardinality(Held) >= 1
  BY SlotSets, Counting
<1>2. /\ Cardinality(Held \ {s}) \in Nat
      /\ Cardinality(Held) = Cardinality(Held \ {s}) + 1
  BY <1>1
<1>3. SemOk(GiveBack(sem), Parked, Cardinality(Held \ {s}))
  BY <1>2, GiveBackOk DEF Slots
<1>4. SemOk(sem', Parked', Cardinality(Held'))
  BY <1>3
<1>. QED
  BY <1>4 DEF Slots

\* A call joins the line.
LEMMA SlotsPark ==
    ASSUME Slots, NEW s \in Spawns, s \notin Parked, sem.free = 0,
           queued < QueueCap,
           sem' = [sem EXCEPT !.line = Append(@, s)], queued' = queued + 1,
           Parked' = Parked \cup {s}, Held' = Held
    PROVE  Slots'
<1>1. SemOk(sem', Parked \cup {s}, Cardinality(Held))
  BY SlotSets, ParkOk DEF Slots
<1>2. Cardinality(Parked \cup {s}) = Cardinality(Parked) + 1
  BY SlotSets, Counting
<1>3. SemOk(sem', Parked', Cardinality(Held'))
  BY <1>1
<1>. QED
  BY <1>2, <1>3, SlotSets, GateAssumption DEF Slots

\* A wait is over: one call less has a place in the queue.
LEMMA SlotsUnqueued ==
    ASSUME Slots, NEW s \in Parked, QueueSlotDrop, Parked' = Parked \ {s},
           SemOk(sem', Parked \ {s}, Cardinality(Held'))
    PROVE  Slots'
<1>1. Cardinality(Parked \ {s}) = Cardinality(Parked) - 1
  BY SlotSets, Counting
<1>2. SemOk(sem', Parked', Cardinality(Held'))
  OBVIOUS
<1>. QED
  BY <1>1, <1>2, SlotSets, GateAssumption DEF Slots, QueueSlotDrop

\* A background spawn takes a slot or is refused.
LEMMA TryAcquireKeeps == ASSUME IInv, NEW s \in Spawns, TryAcquire(s) PROVE IInv'
<1>. USE DEF IInv
<1>1. Types'
  BY DEF Types, TryAcquire, Step
<1>2. Slots'
  <2>0. Life(s)
    OBVIOUS
  <2>1. CASE sem.free > 0
    <3>1. /\ s \notin Held /\ Parked' = Parked /\ Held' = Held \cup {s}
          /\ sem' = Take(sem) /\ queued' = queued /\ sem.free > 0
      BY <2>0, <2>1 DEF Types, Parked, Held, Life, TryAcquire, Step
    <3>. QED
      BY <3>1, SlotsTake
  <2>2. CASE ~(sem.free > 0)
    <3>1. Parked' = Parked /\ Held' = Held /\ sem' = sem /\ queued' = queued
      BY <2>0, <2>2 DEF Types, Parked, Held, Life, TryAcquire, Step
    <3>. QED
      BY <3>1, SlotsKept
  <2>. QED
    BY <2>1, <2>2
<1>3. ASSUME NEW x \in Spawns PROVE Life(x)'
  <2>1. Life(x) /\ Life(s)
    OBVIOUS
  <2>. QED
    BY <2>1 DEF Types, Life, Found, Joining, TryAcquire, Step
<1>4. Joining'
  BY DEF Types, Joining, TryAcquire, Step
<1>. QED
  BY <1>1, <1>2, <1>3, <1>4

\* The fast path of a foreground spawn.
LEMMA AcquireKeeps == ASSUME IInv, NEW s \in Spawns, Acquire(s) PROVE IInv'
<1>. USE DEF IInv
<1>1. Types'
  BY DEF Types, Acquire, Step
<1>2. Slots'
  <2>0. Life(s)
    OBVIOUS
  <2>1. CASE ~reg.closing /\ sem.free > 0
    <3>1. /\ s \notin Held /\ Parked' = Parked /\ Held' = Held \cup {s}
          /\ sem' = Take(sem) /\ queued' = queued /\ sem.free > 0
      BY <2>0, <2>1 DEF Types, Parked, Held, Life, Acquire, Step
    <3>. QED
      BY <3>1, SlotsTake
  <2>2. CASE ~(~reg.closing /\ sem.free > 0)
    <3>1. Parked' = Parked /\ Held' = Held /\ sem' = sem /\ queued' = queued
      BY <2>0, <2>2 DEF Types, Parked, Held, Life, Acquire, Step
    <3>. QED
      BY <3>1, SlotsKept
  <2>. QED
    BY <2>1, <2>2
<1>3. ASSUME NEW x \in Spawns PROVE Life(x)'
  <2>1. Life(x) /\ Life(s)
    OBVIOUS
  <2>. QED
    BY <2>1 DEF Types, Life, Found, Joining, Acquire, Step
<1>4. Joining'
  BY DEF Types, Joining, Acquire, Step
<1>. QED
  BY <1>1, <1>2, <1>3, <1>4

\* A call for which the queue has no place.
LEMMA RejectKeeps == ASSUME IInv, NEW s \in Spawns, Reject(s) PROVE IInv'
<1>. USE DEF IInv
<1>1. Types'
  BY DEF Types, Reject, Step
<1>2. Slots'
  <2>1. Parked' = Parked /\ Held' = Held /\ sem' = sem /\ queued' = queued
    BY DEF Types, Parked, Held, Reject, Step
  <2>. QED
    BY <2>1, SlotsKept
<1>3. ASSUME NEW x \in Spawns PROVE Life(x)'
  <2>1. Life(x) /\ Life(s)
    OBVIOUS
  <2>. QED
    BY <2>1 DEF Types, Life, Found, Joining, Reject, Step
<1>4. Joining'
  BY DEF Types, Joining, Reject, Step
<1>. QED
  BY <1>1, <1>2, <1>3, <1>4

\* A place in the queue: the slow path of a foreground spawn.
LEMMA ParkKeeps == ASSUME IInv, NEW s \in Spawns, Park(s) PROVE IInv'
<1>. USE DEF IInv
<1>1. Types'
  BY DEF Types, Park, Step
<1>2. Slots'
  <2>0. Life(s)
    OBVIOUS
  <2>1. CASE sem.free > 0
    <3>1. /\ s \notin Held /\ Parked' = Parked /\ Held' = Held \cup {s}
          /\ sem' = Take(sem) /\ queued' = queued
      BY <2>0, <2>1 DEF Types, Parked, Held, Life, Park, Step
    <3>. QED
      BY <2>1, <3>1, SlotsTake
  <2>2. CASE sem.free = 0
    <3>1. /\ s \notin Parked /\ Parked' = Parked \cup {s} /\ Held' = Held
          /\ sem' = [sem EXCEPT !.line = Append(@, s)] /\ queued' = queued + 1
          /\ queued < QueueCap
      BY <2>0, <2>2 DEF Types, Parked, Held, Life, Room, Park, Step
    <3>. QED
      BY <2>2, <3>1, SlotsPark
  <2>. QED
    BY <2>1, <2>2 DEF Park
<1>3. ASSUME NEW x \in Spawns PROVE Life(x)'
  <2>1. Life(x) /\ Life(s)
    OBVIOUS
  <2>. QED
    BY <2>1 DEF Types, Life, Found, Joining, Park, Step
<1>4. Joining'
  BY DEF Types, Joining, Park, Step
<1>. QED
  BY <1>1, <1>2, <1>3, <1>4

\* A wait that was handed a permit.
LEMMA WakeKeeps == ASSUME IInv, NEW s \in Spawns, Wake(s) PROVE IInv'
<1>. USE DEF IInv
<1>1. Types'
  BY DEF Types, Wake, Step
<1>2. Slots'
  <2>0. Life(s)
    OBVIOUS
  <2>1. /\ s \in Parked
        /\ s \notin Held
        /\ Parked' = Parked \ {s}
        /\ Held' = Held \cup {s}
    BY <2>0 DEF Types, Parked, Held, Life, Wake, Step
  <2>2. SemOk(sem', Parked \ {s}, Cardinality(Held) + 1)
    BY SlotSets, WakeOk DEF Slots, Wake
  <2>3. Cardinality(Held') = Cardinality(Held) + 1
    BY <2>1, SlotSets, Counting
  <2>4. SemOk(sem', Parked \ {s}, Cardinality(Held'))
    BY <2>2, <2>3
  <2>. QED
    BY <2>1, <2>4, SlotsUnqueued DEF Wake
<1>3. ASSUME NEW x \in Spawns PROVE Life(x)'
  <2>1. Life(x) /\ Life(s)
    OBVIOUS
  <2>. QED
    BY <2>1 DEF Types, Life, Found, Joining, Wake, Step
<1>4. Joining'
  BY DEF Types, Joining, Wake, Step
<1>. QED
  BY <1>1, <1>2, <1>3, <1>4

\* A caller that goes away while it waits.
LEMMA LeaveKeeps == ASSUME IInv, NEW s \in Spawns, Leave(s) PROVE IInv'
<1>. USE DEF IInv
<1>1. Types'
  BY DEF Types, Leave, Step
<1>2. Slots'
  <2>0. Life(s)
    OBVIOUS
  <2>1. s \in Parked /\ Parked' = Parked \ {s} /\ Held' = Held
    BY <2>0 DEF Types, Parked, Held, Life, Leave, Step
  <2>2. SemOk(sem', Parked \ {s}, Cardinality(Held))
    BY <2>1, SlotSets, LeaveOk DEF Slots, Leave
  <2>3. SemOk(sem', Parked \ {s}, Cardinality(Held'))
    BY <2>1, <2>2
  <2>. QED
    BY <2>1, <2>3, SlotsUnqueued DEF Leave
<1>3. ASSUME NEW x \in Spawns PROVE Life(x)'
  <2>1. Life(x) /\ Life(s)
    OBVIOUS
  <2>. QED
    BY <2>1 DEF Types, Life, Found, Joining, Leave, Step
<1>4. Joining'
  BY DEF Types, Joining, Leave, Step
<1>. QED
  BY <1>1, <1>2, <1>3, <1>4

\* The child is filed and its task started, or the shutdown has closed the gate.
LEMMA AdmitKeeps == ASSUME IInv, NEW s \in Spawns, Admit(s) PROVE IInv'
<1>. USE DEF IInv
<1>1. Types'
  BY DEF Types, Admit, Step, Open
<1>2. Slots'
  <2>0. Life(s)
    OBVIOUS
  <2>1. CASE Open
    <3>1. Parked' = Parked /\ Held' = Held /\ sem' = sem /\ queued' = queued
      BY <2>0, <2>1 DEF Types, Parked, Held, Life, Admit, Step, Open
    <3>. QED
      BY <3>1, SlotsKept
  <2>2. CASE ~Open
    <3>1. /\ s \in Held /\ Parked' = Parked /\ Held' = Held \ {s}
          /\ sem' = GiveBack(sem) /\ queued' = queued
      BY <2>0, <2>2 DEF Types, Parked, Held, Life, Admit, Step, Open
    <3>. QED
      BY <3>1, SlotsFreed
  <2>. QED
    BY <2>1, <2>2
<1>3. ASSUME NEW x \in Spawns PROVE Life(x)'
  <2>1. Life(x) /\ Life(s)
    OBVIOUS
  <2>. QED
    BY <2>1 DEF Types, Life, Found, Joining, Admit, Step, Open
<1>4. Joining'
  BY DEF Types, Joining, Admit, Step, Open
<1>. QED
  BY <1>1, <1>2, <1>3, <1>4

\* The watch is attached to a slot that is still filed.
LEMMA AttachWatchKeeps ==
    ASSUME IInv, NEW s \in Spawns, AttachWatch(s)
    PROVE  IInv'
<1>. USE DEF IInv
<1>1. Types'
  BY DEF Types, AttachWatch, Step
<1>2. Slots'
  <2>1. Parked' = Parked /\ Held' = Held /\ sem' = sem /\ queued' = queued
    BY DEF Types, Parked, Held, AttachWatch, Step
  <2>. QED
    BY <2>1, SlotsKept
<1>3. ASSUME NEW x \in Spawns PROVE Life(x)'
  <2>1. Life(x) /\ Life(s)
    OBVIOUS
  <2>. QED
    BY <2>1 DEF Types, Life, Found, Joining, AttachWatch, Step
<1>4. Joining'
  BY DEF Types, Joining, AttachWatch, Step
<1>. QED
  BY <1>1, <1>2, <1>3, <1>4

\* The call returns.
LEMMA ReturnKeeps == ASSUME IInv, NEW s \in Spawns, Return(s) PROVE IInv'
<1>. USE DEF IInv
<1>1. Types'
  BY DEF Types, Return, Step
<1>2. Slots'
  <2>1. Parked' = Parked /\ Held' = Held /\ sem' = sem /\ queued' = queued
    BY DEF Types, Parked, Held, Return, Step
  <2>. QED
    BY <2>1, SlotsKept
<1>3. ASSUME NEW x \in Spawns PROVE Life(x)'
  <2>1. Life(x) /\ Life(s)
    OBVIOUS
  <2>. QED
    BY <2>1 DEF Types, Life, Found, Joining, Return, Step
<1>4. Joining'
  BY DEF Types, Joining, Return, Step
<1>. QED
  BY <1>1, <1>2, <1>3, <1>4

\* The child is handed over.
LEMMA HandOverKeeps == ASSUME IInv, NEW s \in Spawns, HandOver(s) PROVE IInv'
<1>. USE DEF IInv
<1>1. Types'
  BY DEF Types, HandOver
<1>2. Slots'
  <2>1. Parked' = Parked /\ Held' = Held /\ sem' = sem /\ queued' = queued
    BY DEF Types, Parked, Held, HandOver
  <2>. QED
    BY <2>1, SlotsKept
<1>3. ASSUME NEW x \in Spawns PROVE Life(x)'
  <2>1. Life(x) /\ Life(s)
    OBVIOUS
  <2>. QED
    BY <2>1 DEF Types, Life, Found, Joining, HandOver
<1>4. Joining'
  BY DEF Types, Joining, HandOver
<1>. QED
  BY <1>1, <1>2, <1>3, <1>4

\* The turn stops.
LEMMA StopKeeps == ASSUME IInv, NEW s \in Spawns, Stop(s) PROVE IInv'
<1>. USE DEF IInv
<1>1. Types'
  BY DEF Types, Stop, Step
<1>2. Slots'
  <2>1. Parked' = Parked /\ Held' = Held /\ sem' = sem /\ queued' = queued
    BY DEF Types, Parked, Held, Stop, Step
  <2>. QED
    BY <2>1, SlotsKept
<1>3. ASSUME NEW x \in Spawns PROVE Life(x)'
  <2>1. Life(x) /\ Life(s)
    OBVIOUS
  <2>. QED
    BY <2>1 DEF Types, Life, Found, Joining, Stop, Step
<1>4. Joining'
  BY DEF Types, Joining, Stop, Step
<1>. QED
  BY <1>1, <1>2, <1>3, <1>4

\* The link cancels the child.
LEMMA ForwardKeeps == ASSUME IInv, NEW s \in Spawns, Forward(s) PROVE IInv'
<1>. USE DEF IInv
<1>1. Types'
  BY DEF Types, Forward
<1>2. Slots'
  <2>1. Parked' = Parked /\ Held' = Held /\ sem' = sem /\ queued' = queued
    BY DEF Types, Parked, Held, Forward
  <2>. QED
    BY <2>1, SlotsKept
<1>3. ASSUME NEW x \in Spawns PROVE Life(x)'
  <2>1. Life(x) /\ Life(s)
    OBVIOUS
  <2>. QED
    BY <2>1 DEF Types, Life, Found, Joining, Forward
<1>4. Joining'
  BY DEF Types, Joining, Forward
<1>. QED
  BY <1>1, <1>2, <1>3, <1>4

\* The claim is bound and the child announced.
LEMMA AnnounceKeeps == ASSUME IInv, NEW s \in Spawns, Announce(s) PROVE IInv'
<1>. USE DEF IInv
<1>1. Types'
  BY DEF Types, Announce, Binding
<1>2. Slots'
  <2>1. Parked' = Parked /\ Held' = Held /\ sem' = sem /\ queued' = queued
    BY DEF Types, Parked, Held, Announce, Binding
  <2>. QED
    BY <2>1, SlotsKept
<1>3. ASSUME NEW x \in Spawns PROVE Life(x)'
  <2>1. Life(x) /\ Life(s)
    OBVIOUS
  <2>. QED
    BY <2>1 DEF Types, Life, Found, Joining, Announce, Binding
<1>4. Joining'
  BY DEF Types, Joining, Announce, Binding
<1>. QED
  BY <1>1, <1>2, <1>3, <1>4

\* A task hangs.
LEMMA HangKeeps == ASSUME IInv, NEW s \in Spawns, Hang(s) PROVE IInv'
<1>. USE DEF IInv
<1>1. Types'
  BY DEF Types, Hang
<1>2. Slots'
  <2>1. Parked' = Parked /\ Held' = Held /\ sem' = sem /\ queued' = queued
    BY DEF Types, Parked, Held, Hang
  <2>. QED
    BY <2>1, SlotsKept
<1>3. ASSUME NEW x \in Spawns PROVE Life(x)'
  <2>1. Life(x) /\ Life(s)
    OBVIOUS
  <2>. QED
    BY <2>1 DEF Types, Life, Found, Joining, Hang
<1>4. Joining'
  BY DEF Types, Joining, Hang
<1>. QED
  BY <1>1, <1>2, <1>3, <1>4

\* A run is over.
LEMMA FinishKeeps == ASSUME IInv, NEW s \in Spawns, Finish(s) PROVE IInv'
<1>. USE DEF IInv
<1>1. Types'
  BY DEF Types, Finish, Alive
<1>2. Slots'
  <2>1. Parked' = Parked /\ Held' = Held /\ sem' = sem /\ queued' = queued
    BY DEF Types, Parked, Held, Finish, Alive
  <2>. QED
    BY <2>1, SlotsKept
<1>3. ASSUME NEW x \in Spawns PROVE Life(x)'
  <2>1. Life(x) /\ Life(s)
    OBVIOUS
  <2>. QED
    BY <2>1 DEF Types, Life, Found, Joining, Finish, Alive
<1>4. Joining'
  BY DEF Types, Joining, Finish, Alive
<1>. QED
  BY <1>1, <1>2, <1>3, <1>4

\* A task gives its slot back.
LEMMA CompleteKeeps == ASSUME IInv, NEW s \in Spawns, Complete(s) PROVE IInv'
<1>. USE DEF IInv
<1>1. Types'
  BY DEF Types, Complete
<1>2. Slots'
  <2>0. Life(s)
    OBVIOUS
  <2>1. /\ s \in Held /\ Parked' = Parked /\ Held' = Held \ {s}
        /\ sem' = GiveBack(sem) /\ queued' = queued
    BY <2>0 DEF Types, Parked, Held, Life, Complete
  <2>. QED
    BY <2>1, SlotsFreed
<1>3. ASSUME NEW x \in Spawns PROVE Life(x)'
  <2>1. Life(x) /\ Life(s)
    OBVIOUS
  <2>. QED
    BY <2>1 DEF Types, Life, Found, Joining, Complete
<1>4. Joining'
  BY DEF Types, Joining, Complete
<1>. QED
  BY <1>1, <1>2, <1>3, <1>4

\* The shutdown cancels every child, closes the gate and sets the children aside.
LEMMA CloseKeeps == ASSUME IInv, Close PROVE IInv'
<1>. USE DEF IInv
<1>1. Types'
  BY DEF Types, Close, Told
<1>2. Slots'
  <2>1. Parked' = Parked /\ Held' = Held /\ sem' = sem /\ queued' = queued
    BY DEF Types, Parked, Held, Close, Told
  <2>. QED
    BY <2>1, SlotsKept
<1>3. ASSUME NEW x \in Spawns PROVE Life(x)'
  <2>1. Life(x)
    OBVIOUS
  <2>. QED
    BY <2>1 DEF Types, Life, Found, Joining, Close, Told
<1>4. Joining'
  BY DEF Types, Joining, Close, Told
<1>. QED
  BY <1>1, <1>2, <1>3, <1>4

\* The join takes over the children set aside.
LEMMA TakeDrainedKeeps == ASSUME IInv, TakeDrained PROVE IInv'
<1>. USE DEF IInv
<1>1. Types'
  BY DEF Types, TakeDrained
<1>2. Slots'
  <2>1. Parked' = Parked /\ Held' = Held /\ sem' = sem /\ queued' = queued
    BY DEF Types, Parked, Held, TakeDrained
  <2>. QED
    BY <2>1, SlotsKept
<1>3. ASSUME NEW x \in Spawns PROVE Life(x)'
  <2>1. Life(x)
    OBVIOUS
  <2>. QED
    BY <2>1 DEF Types, Life, Found, Joining, TakeDrained
<1>4. Joining'
  BY DEF Types, Joining, TakeDrained
<1>. QED
  BY <1>1, <1>2, <1>3, <1>4

\* The join picks the next child.
LEMMA JoinNextKeeps == ASSUME IInv, JoinNext PROVE IInv'
<1>. USE DEF IInv
<1>. DEFINE Same == /\ call' = call /\ task' = task /\ sem' = sem /\ queued' = queued
                    /\ reg' = reg
                    /\ token' = token
                    /\ ending' = ending
                    /\ link' = link
                    /\ bound' = bound /\ stuck' = stuck /\ aborted' = aborted
                    /\ freed' = freed /\ join.pc = "joins" /\ join.cur = {}
<1>0. Same
  BY DEF JoinNext
<1>1. Slots'
  <2>1. Parked' = Parked /\ Held' = Held /\ sem' = sem /\ queued' = queued
    BY <1>0 DEF Parked, Held
  <2>. QED
    BY <2>1, SlotsKept
<1>2. CASE \E s \in join.left : join' = [join EXCEPT !.left = @ \ {s}, !.cur = {s}]
  <2>1. PICK s \in join.left : join' = [join EXCEPT !.left = @ \ {s}, !.cur = {s}]
    BY <1>2
  <2>2. s \in Spawns
    BY <2>1 DEF Types
  <2>3. /\ join'.pc = join.pc /\ join'.left = join.left \ {s} /\ join'.cur = {s}
        /\ join' \in [pc : {"none", "closed", "joins", "done"}, left : SUBSET Spawns,
                      cur : SUBSET Spawns]
    <3>. DEFINE left == join.left \ {s}
                cur == {s}
    <3>1. left \in SUBSET Spawns /\ cur \in SUBSET Spawns
      BY <2>2 DEF Types
    <3>2. join' = [join EXCEPT !.left = left, !.cur = cur]
      BY <2>1
    <3>. HIDE DEF left, cur
    <3>3. /\ join'.pc = join.pc /\ join'.left = left /\ join'.cur = cur
          /\ join' \in [pc : {"none", "closed", "joins", "done"}, left : SUBSET Spawns,
                        cur : SUBSET Spawns]
      BY <3>1, <3>2 DEF Types
    <3>. QED
      BY <3>3 DEF left, cur
  <2>4. Types'
    BY <1>0, <2>3 DEF Types
  <2>5. Found' = Found
    BY <1>0, <2>1, <2>3 DEF Found
  <2>6. ASSUME NEW x \in Spawns PROVE Life(x)'
    <3>1. Life(x)
      OBVIOUS
    <3>. QED
      BY <1>0, <2>5, <3>1 DEF Life
  <2>7. Joining'
    BY <1>0, <2>3 DEF Joining
  <2>. QED
    BY <1>1, <2>4, <2>6, <2>7
<1>3. CASE join.left = {} /\ join' = [join EXCEPT !.pc = "done"]
  <2>1. /\ join'.pc = "done" /\ join'.left = join.left /\ join'.cur = join.cur
        /\ join' \in [pc : {"none", "closed", "joins", "done"}, left : SUBSET Spawns,
                      cur : SUBSET Spawns]
    BY <1>3 DEF Types
  <2>2. Types'
    BY <1>0, <2>1 DEF Types
  <2>3. ASSUME NEW x \in Spawns PROVE Life(x)'
    <3>1. Life(x) /\ Found' = Found
      BY <1>0, <2>1 DEF Found
    <3>. QED
      BY <1>0, <3>1 DEF Life
  <2>4. Joining'
    BY <1>0, <1>3, <2>1 DEF Joining
  <2>. QED
    BY <1>1, <2>2, <2>3, <2>4
<1>. QED
  BY <1>2, <1>3 DEF JoinNext

\* The join has waited for a child.
LEMMA JoinOneKeeps == ASSUME IInv, NEW s \in Spawns, JoinOne(s) PROVE IInv'
<1>. USE DEF IInv
<1>1. Types'
  BY DEF Types, JoinOne, Joined
<1>2. Slots'
  <2>1. Parked' = Parked /\ Held' = Held /\ sem' = sem /\ queued' = queued
    BY DEF Types, Parked, Held, JoinOne, Joined
  <2>. QED
    BY <2>1, SlotsKept
<1>3. ASSUME NEW x \in Spawns PROVE Life(x)'
  <2>1. Life(x) /\ Life(s)
    OBVIOUS
  <2>. QED
    BY <2>1 DEF Types, Life, Found, Joining, JoinOne, Joined
<1>4. Joining'
  BY DEF Types, Joining, JoinOne, Joined
<1>. QED
  BY <1>1, <1>2, <1>3, <1>4

\* The join aborts a child.
LEMMA JoinTimeoutKeeps ==
    ASSUME IInv, NEW s \in Spawns, JoinTimeout(s)
    PROVE  IInv'
<1>. USE DEF IInv
<1>1. Types'
  BY DEF Types, JoinTimeout, Joined, Abortable
<1>2. Slots'
  <2>1. Parked' = Parked /\ Held' = Held /\ sem' = sem /\ queued' = queued
    BY DEF Types, Parked, Held, JoinTimeout, Joined, Abortable
  <2>. QED
    BY <2>1, SlotsKept
<1>3. ASSUME NEW x \in Spawns PROVE Life(x)'
  <2>1. Life(x) /\ Life(s)
    OBVIOUS
  <2>. QED
    BY <2>1 DEF Types, Life, Found, Joining, JoinTimeout, Joined, Abortable
<1>4. Joining'
  BY DEF Types, Joining, JoinTimeout, Joined, Abortable
<1>. QED
  BY <1>1, <1>2, <1>3, <1>4

-----------------------------------------------------------------------------
(* The invariant. *)

\* The invariant holds before the first spawn.
LEMMA InitHolds == Init => IInv
<1>. SUFFICES ASSUME Init PROVE IInv
  OBVIOUS
<1>1. Types
  BY DEF Init, Types
<1>2. Slots
  <2>1. Parked = {} /\ Held = {}
    BY DEF Init, Parked, Held
  <2>2. sem \in Sems /\ sem.free = Cap /\ sem.line = <<>> /\ sem.handed = {}
    BY GateAssumption DEF Init, Sems
  <2>3. /\ Cardinality(Parked) = 0
        /\ Cardinality(Held) = 0
        /\ Cardinality(sem.handed) = 0
    BY <2>1, <2>2, FS_EmptySet
  <2>4. SemOk(sem, Parked, Cardinality(Held))
    BY <2>1, <2>2, <2>3, GateAssumption DEF SemOk, InLine, NoTwice
  <2>. QED
    BY <2>3, <2>4, GateAssumption DEF Init, Slots
<1>3. \A s \in Spawns : Life(s)
  BY GateAssumption DEF Init, Life, Spawns
<1>4. Joining
  BY DEF Init, Joining
<1>. QED
  BY <1>1, <1>2, <1>3, <1>4 DEF IInv

\* It says nothing of anything but the variables.
LEMMA StutterKeeps == IInv /\ UNCHANGED vars => IInv'
<1>. SUFFICES ASSUME IInv, UNCHANGED vars PROVE IInv'
  OBVIOUS
<1>1. Parked' = Parked /\ Held' = Held /\ sem' = sem /\ queued' = queued
  BY DEF vars, Parked, Held
<1>2. Slots'
  BY <1>1, SlotsKept DEF IInv
<1>. QED
  BY <1>2 DEF IInv, vars, Types, Life, Found, Joining

\* Every step of a call, a child, the gate or the join keeps it.
LEMMA Inductive == IInv /\ [Next]_vars => IInv'
<1>. SUFFICES ASSUME IInv, Next PROVE IInv'
  BY StutterKeeps
<1>1. ASSUME NEW s \in Spawns, CallStep(s) PROVE IInv'
  BY <1>1, TryAcquireKeeps, AcquireKeeps, RejectKeeps, ParkKeeps, WakeKeeps,
     AdmitKeeps,
     AttachWatchKeeps, ReturnKeeps DEF CallStep
<1>2. ASSUME NEW s \in Spawns, TaskStep(s) PROVE IInv'
  BY <1>2, AnnounceKeeps, FinishKeeps, CompleteKeeps DEF TaskStep
<1>3. ASSUME NEW s \in Spawns, Leave(s) \/ HandOver(s) \/ Stop(s) \/ Forward(s) \/ Hang(s)
      PROVE  IInv'
  BY <1>3, LeaveKeeps, HandOverKeeps, StopKeeps, ForwardKeeps, HangKeeps
<1>4. ASSUME Close \/ JoinStep PROVE IInv'
  BY <1>4, CloseKeeps, TakeDrainedKeeps, JoinNextKeeps, JoinOneKeeps,
     JoinTimeoutKeeps
     DEF JoinStep
<1>. QED
  BY <1>1, <1>2, <1>3, <1>4 DEF Next

\* IInv holds of every reachable state of the gate, the filed children and the
\* shutdown join (concurrency_gate.rs, children.rs).
THEOREM Invariance == Spec => []IInv
BY InitHolds, Inductive, PTL DEF Spec

-----------------------------------------------------------------------------
(* What the components promise. *)

\* Type correctness, with the bounds of the two counters: no more permits are free than
\* the gate was made with, no more calls queued than there are.
THEOREM TypeCorrect == Spec => []TypeOK
<1>1. ASSUME IInv PROVE TypeOK
  <2>1. Types /\ Slots
    BY <1>1 DEF IInv
  <2>2. /\ sem \in Sems /\ Parked \subseteq Spawns /\ Held \subseteq Spawns
        /\ Cardinality(Held) \in Nat
    BY <2>1, SlotSets
  <2>3. queued \in 0..Cardinality(Spawns)
    <3>1. /\ Cardinality(Parked) \in Nat
          /\ Cardinality(Parked) <= Cardinality(Spawns)
      BY <2>2, Counting
    <3>2. Cardinality(Spawns) \in Nat
      BY Counting
    <3>. QED
      BY <2>1, <3>1, <3>2 DEF Slots
  <2>4. sem.free \in 0..Cap
    <3>1. sem.handed \subseteq Spawns /\ sem.free \in Nat
      BY <2>2 DEF Sems
    <3>2. Cardinality(sem.handed) \in Nat
      BY <3>1, Counting
    <3>3. sem.free + Cardinality(sem.handed) + Cardinality(Held) = Cap
      BY <2>1 DEF Slots, SemOk
    <3>. QED
      BY <2>2, <3>1, <3>2, <3>3, GateAssumption
  <2>5. ToSet(sem.line) \subseteq Spawns /\ sem.handed \subseteq Spawns
    BY <2>2 DEF Sems, ToSet
  <2>. QED
    BY <2>1, <2>3, <2>4, <2>5 DEF Types, TypeOK
<1>. QED
  BY <1>1, Invariance, PTL

\* concurrency_gate.rs, for every number of slots, places and calls: a slot is free,
\* handed, held or ridden, never lost and never lent twice, none is free while a call
\* waits, and the queue's counter is exact and bounded.
THEOREM SlotsNeverLeak == Spec => []SlotsAccounted
<1>1. ASSUME IInv PROVE SlotsAccounted
  <2>1. Held = {s \in Spawns : call[s] = "holds" \/ Alive(s) \/ task[s] = "drops"}
    BY DEF Held, Alive
  <2>. QED
    BY <1>1, <2>1 DEF IInv, Slots, SemOk, SlotsAccounted, Parked
<1>. QED
  BY <1>1, Invariance, PTL

\* children.rs, multi_agent.rs: whatever races the shutdown, a child that may still
\* work once the gate is closed has a cancelled token.
THEOREM NoneEscapesShutdown == Spec => []TokenOrGate
<1>1. ASSUME IInv PROVE TokenOrGate
  BY <1>1 DEF IInv, TokenOrGate, Life, Alive
<1>. QED
  BY <1>1, Invariance, PTL

\* multi_agent.rs: when the join is over, no child works, so that the worktrees can be
\* reclaimed.
THEOREM JoinWaitsForAll == Spec => []JoinedAll
<1>1. ASSUME IInv PROVE JoinedAll
  <2>. SUFFICES ASSUME NEW s \in Spawns, join.pc = "done", Alive(s) PROVE FALSE
    BY DEF JoinedAll
  <2>1. Life(s) /\ Joining
    BY <1>1 DEF IInv
  <2>2. reg.closing /\ Found = {}
    BY <2>1 DEF Joining, Found
  <2>. QED
    BY <2>1, <2>2 DEF Life, Alive
<1>. QED
  BY <1>1, Invariance, PTL

\* handover.rs: a stop of the turn never cancels a child that was handed over before.
THEOREM HandedOverRunsOn == Spec => []FreedKeepRunning
<1>1. ASSUME IInv PROVE FreedKeepRunning
  BY <1>1 DEF IInv, Types, FreedKeepRunning, Life
<1>. QED
  BY <1>1, Invariance, PTL

=============================================================================
