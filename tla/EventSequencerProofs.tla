------------------------ MODULE EventSequencerProofs ------------------------
(***************************************************************************)
(* The safety of EventSequencer, for every window, batch and log, and for  *)
(* any number of attaches, resets and lost connections.                    *)
(***************************************************************************)
EXTENDS EventSequencer, TLAPS, FiniteSetTheorems, WellFoundedInduction

-----------------------------------------------------------------------------
(* The inductive invariant, in the parts the theorems need.                *)

\* The frames a connection still has to send.
UnderWay == Range(outbox) \cup Range(opening)

Ascending(s) == \A i, j \in DOMAIN s : i < j => s[i].seq < s[j].seq

\* Only a status names an agent.
Formed(p) == p.agent \in Agents => p.kind = "status"

Types ==
    /\ TypeOK /\ pos <= log
    /\ conn # Down => conn.who \in Clients /\ conn.phase \in {"replay", "flush", "live"}

\* Numbers: none is used twice by what memory keeps, and all are below the next.
Numbered ==
    /\ floor < nextSeq
    /\ \A f \in window :
         floor < f.seq /\ f.seq < nextSeq /\ Retainable(f) /\ Formed(f.payload)
    /\ \A f, g \in window : f.seq = g.seq => f = g
    /\ \A a \in Agents : latest[a] # NoFrame =>
         /\ 0 < latest[a].seq /\ latest[a].seq < nextSeq
         /\ latest[a].payload.kind = "status" /\ latest[a].payload.agent = a
         /\ \A b \in Agents : latest[b].seq = latest[a].seq => a = b
         /\ \A f \in window : f.seq # latest[a].seq
    /\ \A c \in Clients : client[c].cursor < nextSeq
    /\ \A p \in Range(pending) \cup Range(held) : Formed(p)

\* What a connection has to send is in order, and all of it is new to its client.
InLine ==
    /\ Ascending(outbox) /\ Ascending(opening)
    /\ \A f \in UnderWay : f.seq < nextSeq
    /\ conn # Down => \A f \in UnderWay : client[conn.who].cursor < f.seq
    /\ conn = Down => outbox = << >>
    /\ conn.phase # "replay" => opening = << >> /\ held = << >>
    /\ outbox # << >> => opening = << >>

OrderInv == Types /\ Numbered /\ InLine

\* A frame of the window that is new to the client is on its way, and one on its
\* way is in the window or below its floor.
WindowSent ==
    conn # Down =>
        /\ \A f \in window : client[conn.who].cursor < f.seq => f \in UnderWay
        /\ \A f \in UnderWay : Retainable(f) => f \in window \/ f.seq <= floor

\* A record the walk has passed was received or is on its way, or another client's
\* fresh attach started the walk above it.
RecordSent ==
    conn # Down =>
        \A n \in 1..pos : \/ n <= skipped[conn.who] \/ n \in client[conn.who].recs
                          \/ \E f \in UnderWay : f.payload = Rec(n)

\* A record the walk has passed was received, or the window still has it for the
\* client's cursor, or does not cover that cursor.
RecordKept ==
    \A c \in Clients : Covers(client[c].cursor) =>
        \A n \in 1..pos :
            \/ n <= skipped[c] \/ n \in client[c].recs
            \/ \E f \in window : f.payload = Rec(n) /\ client[c].cursor < f.seq

Durable ==
    /\ \A f \in window \cup UnderWay : f.payload.kind = "rec" => f.payload.n \in 1..pos
    /\ \A p \in Range(pending) \cup Range(held) : p.kind # "rec"
    /\ \A c \in Clients : client[c].recs \subseteq 1..log

DurableInv == OrderInv /\ Durable /\ WindowSent /\ RecordSent /\ RecordKept

\* A notice that is not lost was received, or waits, or is in the window above the
\* client's cursor.
NoticeKept ==
    \A c \in Clients, m \in 1..notices :
        \/ Note(m) \in lost \/ m \in client[c].notes
        \/ Note(m) \in Range(pending) \cup Range(held)
        \/ \E f \in window : f.payload = Note(m) /\ client[c].cursor < f.seq

\* Where the newest status of an agent is.
StatusHeld(a) ==
    /\ \A i \in DOMAIN pending : pending[i].agent = a =>
         /\ pending[i] = Status(a, version[a])
         /\ \A j \in DOMAIN pending : pending[j].agent = a => i = j
    /\ \/ Status(a, version[a]) \in Range(pending)
       \/ (latest[a] = NoFrame /\ version[a] = 0)
       \/ latest[a].payload = Status(a, version[a])
    /\ \A p \in Range(held) : p.agent = a =>
         latest[a] # NoFrame /\ p = latest[a].payload
    /\ \A f \in UnderWay : f.payload.agent = a =>
         latest[a] # NoFrame /\ (f = latest[a] \/ f.seq < latest[a].seq)

\* What a client shows for an agent is the newest status sequenced, or that one
\* is still to come, or is lost.
StatusShown(a) ==
    \A c \in Clients :
        IF latest[a] = NoFrame THEN client[c].status[a] = 0
        ELSE \/ latest[a].payload \in Range(held) \cup lost
             \/ /\ client[c].cursor < latest[a].seq
                /\ conn # Down /\ conn.who = c => latest[a] \in UnderWay
             \/ /\ latest[a].seq <= client[c].cursor
                /\ client[c].status[a] = latest[a].payload.n

MemoryInv ==
    /\ DurableInv
    /\ NoticeKept
    /\ \A a \in Agents : StatusHeld(a) /\ StatusShown(a)

-----------------------------------------------------------------------------
(* Sequences, and the greatest of some numbers.                            *)

\* A list of numbers below a bound has a greatest one.
LEMMA MaxIs ==
    ASSUME NEW S \in SUBSET Nat, NEW n \in Nat, S # {}, \A x \in S : x <= n
    PROVE Max(S) \in S /\ \A x \in S : x <= Max(S)
<1> DEFINE Gap == {n - x : x \in S}
           Less == {p \in Nat \X Nat : p[1] < p[2]}
<1>1. Gap \subseteq Nat /\ Gap # {}
  <2>1. \A x \in S : x \in Nat /\ n - x \in Nat
    OBVIOUS
  <2> QED BY <2>1
<1>2. IsWellFoundedOn(Less, Nat)
  BY NatLessThanWellFounded DEF OpToRel
<1>3. PICK g \in Gap : \A h \in Gap : <<h, g>> \notin Less
  <2> HIDE DEF Less, Gap
  <2> QED BY <1>1, <1>2, WFMin
<1>4. PICK x \in S : g = n - x
  BY <1>3
<1>5. ASSUME NEW y \in S PROVE y <= x
  <2>1. n - y \in Gap /\ n - y \in Nat /\ g \in Nat
    BY <1>1, <1>3
  <2>2. ~(n - y < g)
    BY <1>3, <2>1
  <2> QED BY <1>4, <2>2
<1>6. \A y \in S : x >= y
  BY <1>5
<1> QED BY <1>6 DEF Max

\* The entries of a sequence and of the sequences made from it.
LEMMA RangeIs ==
    ASSUME NEW S, NEW s \in Seq(S)
    PROVE /\ Range(s) \subseteq S
          /\ \A x : x \in Range(s) <=> \E i \in 1..Len(s) : s[i] = x
          /\ s = << >> <=> Range(s) = {}
<1>1. DOMAIN s = 1..Len(s) /\ Len(s) \in Nat /\ \A i \in 1..Len(s) : s[i] \in S
  OBVIOUS
<1>2. \A x : x \in Range(s) <=> \E i \in 1..Len(s) : s[i] = x
  BY <1>1 DEF Range
<1>3. s # << >> => 1 \in 1..Len(s)
  OBVIOUS
<1>4. s = << >> => 1..Len(s) = {}
  OBVIOUS
<1> QED BY <1>1, <1>2, <1>3, <1>4

\* The entries of two sequences, one after the other.
LEMMA RangeConcat ==
    ASSUME NEW S, NEW s \in Seq(S), NEW t \in Seq(S)
    PROVE s \o t \in Seq(S) /\ Range(s \o t) = Range(s) \cup Range(t)
<1>1. /\ s \o t \in Seq(S) /\ Len(s \o t) = Len(s) + Len(t)
      /\ Len(s) \in Nat /\ Len(t) \in Nat
      /\ \A i \in 1..Len(s) : (s \o t)[i] = s[i]
      /\ \A i \in 1..Len(t) : (s \o t)[Len(s) + i] = t[i]
  OBVIOUS
<1>2. \A i \in 1..Len(s \o t) : i \in 1..Len(s) \/ i - Len(s) \in 1..Len(t)
  BY <1>1
<1>3. \A i \in 1..Len(t) : Len(s) + i \in 1..Len(s \o t)
  BY <1>1
<1>4. \A i \in 1..Len(s) : i \in 1..Len(s \o t)
  BY <1>1
<1>5. ASSUME NEW x \in Range(s \o t) PROVE x \in Range(s) \cup Range(t)
  <2>1. PICK i \in 1..Len(s \o t) : (s \o t)[i] = x
    BY <1>1, RangeIs
  <2>2. CASE i \in 1..Len(s)
    BY <1>1, <2>1, <2>2, RangeIs
  <2>3. CASE i - Len(s) \in 1..Len(t)
    <3>1. t[i - Len(s)] = (s \o t)[Len(s) + (i - Len(s))] /\ Len(s) + (i - Len(s)) = i
      BY <1>1, <2>3
    <3> QED BY <2>1, <2>3, <3>1, RangeIs
  <2> QED BY <1>2, <2>2, <2>3
<1>6. ASSUME NEW x \in Range(s) PROVE x \in Range(s \o t)
  <2>1. PICK i \in 1..Len(s) : s[i] = x
    BY RangeIs
  <2> QED BY <1>1, <1>4, <2>1, RangeIs
<1>7. ASSUME NEW x \in Range(t) PROVE x \in Range(s \o t)
  <2>1. PICK i \in 1..Len(t) : t[i] = x
    BY RangeIs
  <2>2. PICK j : j = Len(s) + i
    OBVIOUS
  <2>3. (s \o t)[j] = x /\ j \in 1..Len(s \o t)
    BY <1>1, <1>3, <2>1, <2>2
  <2> QED BY <1>1, <2>3, RangeIs
<1> QED BY <1>1, <1>5, <1>6, <1>7

\* The entries of a sequence with one more, and with the first one taken.
LEMMA RangeAppend ==
    ASSUME NEW S, NEW s \in Seq(S), NEW x \in S
    PROVE Append(s, x) \in Seq(S) /\ Range(Append(s, x)) = Range(s) \cup {x}
<1>1. /\ Append(s, x) \in Seq(S) /\ Len(Append(s, x)) = Len(s) + 1 /\ Len(s) \in Nat
      /\ \A i \in 1..Len(s) : Append(s, x)[i] = s[i]
      /\ Append(s, x)[Len(s) + 1] = x
  OBVIOUS
<1>2. 1..(Len(s) + 1) = 1..Len(s) \cup {Len(s) + 1}
  BY <1>1
<1>3. \A y : y \in Range(s) <=> \E i \in 1..Len(s) : s[i] = y
  BY RangeIs
<1>4. \A y : y \in Range(Append(s, x)) <=> \E i \in 1..(Len(s) + 1) : Append(s, x)[i] = y
  BY <1>1, RangeIs
<1>5. \A y : y \in Range(Append(s, x)) <=> y \in Range(s) \/ y = x
  BY <1>1, <1>2, <1>3, <1>4
<1> QED BY <1>1, <1>5

\* The first entry and the others.
LEMMA RangeTail ==
    ASSUME NEW S, NEW s \in Seq(S), s # << >>
    PROVE /\ Tail(s) \in Seq(S) /\ Head(s) \in S
          /\ Range(s) = {Head(s)} \cup Range(Tail(s))
<1>1. /\ Tail(s) \in Seq(S) /\ Head(s) \in S /\ Head(s) = s[1]
      /\ Len(Tail(s)) = Len(s) - 1 /\ Len(s) \in Nat /\ Len(s) > 0
      /\ \A i \in 1..(Len(s) - 1) : Tail(s)[i] = s[i + 1]
  OBVIOUS
<1>2. \A x : x \in Range(s) <=> \E i \in 1..Len(s) : s[i] = x
  BY RangeIs
<1>3. \A x : x \in Range(Tail(s)) <=> \E i \in 1..(Len(s) - 1) : Tail(s)[i] = x
  BY <1>1, RangeIs
<1>4. ASSUME NEW x \in Range(s) PROVE x \in {Head(s)} \cup Range(Tail(s))
  <2>1. PICK i \in 1..Len(s) : s[i] = x
    BY <1>2
  <2>2. CASE i = 1
    BY <1>1, <2>1, <2>2
  <2>3. CASE i # 1
    <3>1. i - 1 \in 1..(Len(s) - 1) /\ (i - 1) + 1 = i
      BY <1>1, <2>3
    <3> QED BY <1>1, <1>3, <2>1, <3>1
  <2> QED BY <2>2, <2>3
<1>5. ASSUME NEW x \in Range(Tail(s)) PROVE x \in Range(s)
  <2>1. PICK i \in 1..(Len(s) - 1) : Tail(s)[i] = x
    BY <1>3
  <2>2. i + 1 \in 1..Len(s)
    BY <1>1
  <2> QED BY <1>1, <1>2, <2>1, <2>2
<1>6. Head(s) \in Range(s)
  BY <1>1, <1>2
<1> QED BY <1>1, <1>4, <1>5, <1>6

\* One entry taken out.
LEMMA RangeRemoveAt ==
    ASSUME NEW S, NEW s \in Seq(S), NEW k \in 1..Len(s)
    PROVE /\ RemoveAt(s, k) \in Seq(S) /\ Len(RemoveAt(s, k)) = Len(s) - 1
          /\ \A i \in 1..(Len(s) - 1) :
                RemoveAt(s, k)[i] = s[IF i < k THEN i ELSE i + 1]
<1> DEFINE a == SubSeq(s, 1, k - 1)
           b == SubSeq(s, k + 1, Len(s))
<1>1. Len(s) \in Nat /\ k \in Nat /\ 1 <= k /\ k <= Len(s)
  OBVIOUS
<1>2. a \in Seq(S) /\ Len(a) = k - 1 /\ \A i \in 1..(k - 1) : a[i] = s[i]
  BY <1>1
<1>3. b \in Seq(S) /\ Len(b) = Len(s) - k /\ \A i \in 1..(Len(s) - k) : b[i] = s[k + i]
  BY <1>1
<1> HIDE DEF a, b
<1>4. a \o b \in Seq(S) /\ Len(a \o b) = Len(s) - 1
  <2>0. a \in Seq(S) /\ b \in Seq(S)
    BY <1>2, <1>3
  <2>1. a \o b \in Seq(S) /\ Len(a \o b) = Len(a) + Len(b)
    BY <2>0
  <2> QED BY <1>1, <1>2, <1>3, <2>1
<1>5. ASSUME NEW i \in 1..(Len(s) - 1)
      PROVE (a \o b)[i] = s[IF i < k THEN i ELSE i + 1]
  <2>1. CASE i < k
    BY <1>1, <1>2, <1>3, <2>1
  <2>2. CASE ~(i < k)
    <3>1. PICK j : j = i - (k - 1)
      OBVIOUS
    <3>2. j \in 1..(Len(s) - k) /\ i = (k - 1) + j /\ k + j = i + 1
      BY <1>1, <2>2, <3>1
    <3>3. (a \o b)[i] = b[j]
      BY <1>2, <1>3, <3>2
    <3> QED BY <1>3, <2>2, <3>2, <3>3
  <2> QED BY <2>1, <2>2
<1> QED BY <1>4, <1>5 DEF RemoveAt, a, b

\* In order stays in order: a later run of numbers behind an earlier one.
LEMMA AscendingConcat ==
    ASSUME NEW s \in Seq(Frames), NEW t \in Seq(Frames), Ascending(s), Ascending(t),
           \A f \in Range(s), g \in Range(t) : f.seq < g.seq
    PROVE Ascending(s \o t)
<1>1. /\ s \o t \in Seq(Frames) /\ Len(s \o t) = Len(s) + Len(t)
      /\ Len(s) \in Nat /\ Len(t) \in Nat
      /\ DOMAIN s = 1..Len(s) /\ DOMAIN t = 1..Len(t) /\ DOMAIN (s \o t) = 1..Len(s \o t)
  OBVIOUS
<1>2. ASSUME NEW i \in 1..Len(s \o t)
      PROVE \/ i \in 1..Len(s) /\ (s \o t)[i] = s[i]
            \/ ~(i <= Len(s)) /\ i - Len(s) \in 1..Len(t) /\ (s \o t)[i] = t[i - Len(s)]
  BY <1>1
<1> SUFFICES ASSUME NEW i \in 1..Len(s \o t), NEW j \in 1..Len(s \o t), i < j
             PROVE (s \o t)[i].seq < (s \o t)[j].seq
  BY <1>1 DEF Ascending
<1>3. CASE j \in 1..Len(s)
  <2>1. i \in 1..Len(s)
    BY <1>1, <1>3
  <2> QED BY <1>1, <1>2, <1>3, <2>1 DEF Ascending
<1>4. CASE ~(i <= Len(s))
  <2>1. PICK k \in 1..Len(t) : k = i - Len(s) /\ (s \o t)[i] = t[k]
    BY <1>1, <1>2, <1>4
  <2>2. PICK l \in 1..Len(t) : l = j - Len(s) /\ (s \o t)[j] = t[l]
    BY <1>1, <1>2, <1>4
  <2>3. k < l
    BY <1>1, <2>1, <2>2
  <2> QED BY <1>1, <2>1, <2>2, <2>3 DEF Ascending
<1>5. CASE i <= Len(s) /\ ~(j \in 1..Len(s))
  <2>1. (s \o t)[i] = s[i] /\ i \in 1..Len(s)
    BY <1>1, <1>2, <1>5
  <2>2. PICK l \in 1..Len(t) : (s \o t)[j] = t[l]
    BY <1>1, <1>2, <1>5
  <2>3. s[i] \in Range(s) /\ t[l] \in Range(t)
    BY <2>1, <2>2, RangeIs
  <2> QED BY <2>1, <2>2, <2>3
<1> QED BY <1>1, <1>3, <1>4, <1>5

\* Without its first entry a list in order is in order, and all of it is later.
LEMMA AscendingTail ==
    ASSUME NEW s \in Seq(Frames), s # << >>, Ascending(s)
    PROVE Ascending(Tail(s)) /\ \A f \in Range(Tail(s)) : Head(s).seq < f.seq
<1>1. /\ Tail(s) \in Seq(Frames) /\ Head(s) = s[1]
      /\ Len(Tail(s)) = Len(s) - 1 /\ Len(s) \in Nat /\ Len(s) > 0
      /\ \A i \in 1..(Len(s) - 1) : Tail(s)[i] = s[i + 1]
      /\ DOMAIN s = 1..Len(s) /\ DOMAIN Tail(s) = 1..(Len(s) - 1)
  OBVIOUS
<1>2. ASSUME NEW i \in 1..Len(s), NEW j \in 1..Len(s), i < j PROVE s[i].seq < s[j].seq
  BY <1>1, <1>2 DEF Ascending
<1>3. ASSUME NEW i \in 1..(Len(s) - 1), NEW j \in 1..(Len(s) - 1), i < j
      PROVE Tail(s)[i].seq < Tail(s)[j].seq
  <2>1. i + 1 \in 1..Len(s) /\ j + 1 \in 1..Len(s) /\ i + 1 < j + 1
    BY <1>1, <1>3
  <2>2. s[i + 1].seq < s[j + 1].seq
    BY <1>2, <2>1
  <2> QED BY <1>1, <2>2
<1>4. ASSUME NEW f \in Range(Tail(s)) PROVE Head(s).seq < f.seq
  <2>1. PICK i \in 1..(Len(s) - 1) : Tail(s)[i] = f
    BY <1>1, RangeIs
  <2>2. i + 1 \in 1..Len(s) /\ 1 \in 1..Len(s) /\ 1 < i + 1
    BY <1>1
  <2>3. s[1].seq < s[i + 1].seq
    BY <1>2, <2>2
  <2> QED BY <1>1, <2>1, <2>3
<1> QED BY <1>1, <1>3, <1>4 DEF Ascending

-----------------------------------------------------------------------------
(* One batch: its numbers, and what File makes of them.                    *)

\* The frames of a batch: new numbers, in order, one frame for each payload.
LEMMA SequencedIs ==
    ASSUME nextSeq \in Nat, NEW ps \in Seq(Payload), NEW frames, frames = Sequenced(ps)
    PROVE /\ frames \in Seq(Frames) /\ Len(frames) = Len(ps)
          /\ Ascending(frames)
          /\ \A f \in Range(frames) :
                nextSeq <= f.seq /\ f.seq < nextSeq + Len(ps) /\ f.payload \in Range(ps)
          /\ \A f, g \in Range(frames) : f.seq = g.seq => f = g
          /\ \A p \in Range(ps) : \E f \in Range(frames) : f.payload = p
          /\ IsFiniteSet(Range(frames))
<1>1. Len(ps) \in Nat /\ \A i \in 1..Len(ps) : ps[i] \in Payload
  OBVIOUS
<1>2. ASSUME NEW i \in 1..Len(ps) PROVE nextSeq + i - 1 \in Nat
  BY <1>1
<1>3. ASSUME NEW i \in 1..Len(ps)
      PROVE frames[i].seq = nextSeq + i - 1 /\ frames[i].payload = ps[i] /\ frames[i] \in Frames
  <2>1. frames[i] = [seq |-> nextSeq + i - 1, payload |-> ps[i]]
    BY <1>1, <1>2 DEF Sequenced, Frame
  <2> QED BY <1>1, <1>2, <2>1 DEF Frames
<1>4. frames \in Seq(Frames) /\ Len(frames) = Len(ps) /\ DOMAIN frames = 1..Len(ps)
  <2>1. frames = [i \in 1..Len(ps) |-> frames[i]]
    BY DEF Sequenced
  <2>2. frames \in [1..Len(ps) -> Frames]
    BY <1>3, <2>1
  <2> QED BY <1>1, <2>2
<1>5. \A f : f \in Range(frames) <=> \E i \in 1..Len(ps) : frames[i] = f
  BY <1>4, RangeIs
<1>6. ASSUME NEW f \in Range(frames)
      PROVE nextSeq <= f.seq /\ f.seq < nextSeq + Len(ps) /\ f.payload \in Range(ps)
  <2>1. PICK i \in 1..Len(ps) : frames[i] = f
    BY <1>5
  <2>2. f.seq = nextSeq + i - 1 /\ f.payload = ps[i]
    BY <1>3, <2>1
  <2>3. ps[i] \in Range(ps)
    BY RangeIs
  <2> QED BY <1>1, <2>2, <2>3
<1>7. Ascending(frames)
  BY <1>1, <1>3, <1>4 DEF Ascending
<1>8. ASSUME NEW f \in Range(frames), NEW g \in Range(frames), f.seq = g.seq PROVE f = g
  <2>1. PICK i \in 1..Len(ps) : frames[i] = f
    BY <1>5
  <2>2. PICK j \in 1..Len(ps) : frames[j] = g
    BY <1>5
  <2>3. nextSeq + i - 1 = nextSeq + j - 1
    BY <1>3, <1>8, <2>1, <2>2
  <2>4. i = j
    BY <1>1, <2>3
  <2> QED BY <2>1, <2>2, <2>4
<1>9. ASSUME NEW p \in Range(ps) PROVE \E f \in Range(frames) : f.payload = p
  <2>1. PICK i \in 1..Len(ps) : ps[i] = p
    BY RangeIs
  <2> QED BY <1>3, <1>5, <2>1
<1>10. IsFiniteSet(Range(frames))
  <2>1. frames \in Surjection(1..Len(ps), Range(frames))
    BY <1>4, <1>5 DEF Surjection
  <2>2. IsFiniteSet(1..Len(ps))
    BY <1>1, FS_Interval
  <2> QED BY <2>1, <2>2, FS_Surjection
<1> QED BY <1>4, <1>6, <1>7, <1>8, <1>9, <1>10

\* What retain drops is older than everything it keeps.
LEMMA TrimmedIs ==
    ASSUME NEW all \in SUBSET Frames, IsFiniteSet(all), NEW n \in Nat,
           \A f \in all : f.seq < n
    PROVE LET old == Trimmed(all)
              top == Max({f.seq : f \in old})
          IN /\ old \subseteq all
             /\ old # {} => \E f \in old : top = f.seq
             /\ old # {} => top \in Nat /\ top < n
             /\ \A f \in old : f.seq <= top
             /\ old # {} => \A g \in all \ old : top < g.seq
<1> DEFINE old == Trimmed(all)
           top == Max({f.seq : f \in old})
<1>1. old \subseteq all /\ \A f \in all : f.seq \in Nat /\ f.seq <= n
  BY DEF Trimmed, Frames
<1>2. {f.seq : f \in old} \in SUBSET Nat /\ \A x \in {f.seq : f \in old} : x <= n
  BY <1>1
<1>3. old # {} => top \in {f.seq : f \in old}
  BY <1>2, MaxIs
<1>4. \A f \in old : f.seq <= top
  BY <1>2, MaxIs
<1>5. ASSUME NEW f \in old, NEW g \in all \ old PROVE f.seq < g.seq
  <2> SUFFICES ASSUME g.seq <= f.seq PROVE g \in old
    BY <1>1
  <2> DEFINE A == {h \in all : h.seq > f.seq}
             B == {h \in all : h.seq > g.seq}
  <2>1. A \subseteq B
    BY <1>1
  <2>2. IsFiniteSet(B) /\ IsFiniteSet(A) /\ Cardinality(A) <= Cardinality(B)
    <3>1. IsFiniteSet(B)
      BY FS_Subset
    <3>2. A \in SUBSET B
      BY <2>1
    <3> HIDE DEF A, B
    <3> QED BY <3>1, <3>2, FS_Subset
  <2>3. Cardinality(A) >= Budget
    BY DEF Trimmed
  <2>4. Cardinality(A) \in Nat /\ Cardinality(B) \in Nat /\ Budget \in Nat
    <3> HIDE DEF A, B
    <3> QED BY <2>2, FS_CardinalityType, ConstantsAssumption
  <2>5. Cardinality(B) >= Budget
    <3> HIDE DEF A, B
    <3> QED BY <2>2, <2>3, <2>4
  <2> QED BY <2>5 DEF Trimmed
<1> QED BY <1>1, <1>3, <1>4, <1>5

\* What a batch leaves in the window: the newest frames, all above the floor.
LEMMA WindowFiled ==
    ASSUME OrderInv, NEW ps \in Seq(Payload), NEW frames, frames = Sequenced(ps),
           File(frames), nextSeq' = nextSeq + Len(ps)
    PROVE /\ window' \in SUBSET Frames /\ IsFiniteSet(window')
          /\ \A f \in window' : f \in window \/ (f \in Range(frames) /\ Retainable(f))
          /\ floor' \in Nat /\ floor <= floor' /\ floor' < nextSeq' /\ nextSeq' \in Nat
          /\ \A f \in window \cup Range(frames) :
                Retainable(f) => f \in window' \/ f.seq <= floor'
          /\ \A f \in window' : floor' < f.seq
          /\ lost' \subseteq Payload
          /\ \A p \in lost : p \in lost' \/ \E f \in Range(frames) : f.payload = p
          /\ \A f \in window \cup Range(frames) :
                IsNote(f.payload) => f \in window' \/ f.payload \in lost'
<1> DEFINE all == window \cup {f \in Range(frames) : Retainable(f)}
           old == Trimmed(all)
           top == Max({f.seq : f \in old})
<1>1. /\ nextSeq \in Nat /\ floor \in Nat /\ floor < nextSeq
      /\ window \in SUBSET Frames /\ IsFiniteSet(window) /\ lost \subseteq Payload
      /\ \A f \in window : floor < f.seq /\ f.seq < nextSeq /\ Retainable(f)
  BY DEF OrderInv, Types, TypeOK, Numbered
<1>2. /\ frames \in Seq(Frames) /\ Len(ps) \in Nat
      /\ \A f \in Range(frames) : nextSeq <= f.seq /\ f.seq < nextSeq + Len(ps)
      /\ IsFiniteSet(Range(frames))
  BY <1>1, SequencedIs
<1>3. Range(frames) \subseteq Frames
  BY <1>2, RangeIs
<1>4. all \in SUBSET Frames /\ IsFiniteSet(all)
  <2>1. IsFiniteSet({f \in Range(frames) : Retainable(f)})
    BY <1>2, FS_Subset
  <2> QED BY <1>1, <1>3, <2>1, FS_Union
<1>5. nextSeq' \in Nat /\ nextSeq <= nextSeq'
  BY <1>1, <1>2
<1>6. \A f \in all : f.seq \in Nat /\ floor < f.seq /\ f.seq < nextSeq'
  <2>1. ASSUME NEW f \in all PROVE f.seq \in Nat /\ floor < f.seq /\ f.seq < nextSeq'
    <3>1. f.seq \in Nat
      BY <1>4 DEF Frames
    <3>2. CASE f \in window
      BY <1>1, <1>5, <3>1, <3>2
    <3>3. CASE f \in Range(frames)
      BY <1>1, <1>2, <3>1, <3>3
    <3> QED BY <3>2, <3>3
  <2> QED BY <2>1
<1>7. /\ old \subseteq all
      /\ old # {} => \E f \in old : top = f.seq
      /\ old # {} => top \in Nat /\ top < nextSeq'
      /\ \A f \in old : f.seq <= top
      /\ old # {} => \A g \in all \ old : top < g.seq
  <2>1. \A f \in all : f.seq < nextSeq'
    BY <1>6
  <2>2. PICK n \in Nat : n = nextSeq'
    BY <1>5
  <2> HIDE DEF all
  <2>4. \A f \in all : f.seq < n
    BY <2>1, <2>2
  <2>5. /\ old \subseteq all
        /\ old # {} => \E f \in old : top = f.seq
        /\ old # {} => top \in Nat /\ top < n
        /\ \A f \in old : f.seq <= top
        /\ old # {} => \A g \in all \ old : top < g.seq
    BY <1>4, <2>4, TrimmedIs
  <2> QED BY <2>2, <2>5
<1>8. /\ window' = all \ old
      /\ floor' = IF old = {} THEN floor ELSE top
      /\ lost' = (lost \ {f.payload : f \in Range(frames)})
                   \cup {f.payload : f \in {g \in old : IsNote(g.payload)}}
  BY DEF File
<1>9. \A f \in window \cup Range(frames) : Retainable(f) => f \in all
  BY <1>1
<1>10. \A f \in all : f \in window \/ (f \in Range(frames) /\ Retainable(f))
  OBVIOUS
<1>11. \A f \in Frames : IsNote(f.payload) => Retainable(f)
  BY DEF IsNote, Retainable
<1>12. \A f \in Frames : f.payload \in Payload
  BY DEF Frames
<1> HIDE DEF all, old, top
<1>13. window' \in SUBSET Frames /\ IsFiniteSet(window')
  BY <1>4, <1>8, FS_Difference
<1>14. floor' \in Nat /\ floor <= floor' /\ floor' < nextSeq'
  <2>1. CASE old = {}
    BY <1>1, <1>2, <1>8, <2>1
  <2>2. CASE old # {}
    <3>1. PICK f \in old : top = f.seq
      BY <1>7, <2>2
    <3>2. floor < top /\ top \in Nat /\ top < nextSeq'
      BY <1>6, <1>7, <2>2, <3>1
    <3> QED BY <1>1, <1>8, <2>2, <3>2
  <2> QED BY <2>1, <2>2
<1>15. \A f \in window \cup Range(frames) :
          Retainable(f) => f \in window' \/ f.seq <= floor'
  <2>1. \A f \in old : f.seq <= floor'
    BY <1>7, <1>8
  <2> QED BY <1>8, <1>9, <2>1
<1>16. \A f \in window' : floor' < f.seq
  BY <1>6, <1>7, <1>8
<1>17. lost' \subseteq Payload
  <2>1. \A f \in old : f.payload \in Payload
    BY <1>4, <1>7, <1>12
  <2> QED BY <1>1, <1>8, <2>1
<1>18. ASSUME NEW f \in window \cup Range(frames), IsNote(f.payload)
       PROVE f \in window' \/ f.payload \in lost'
  <2>1. f \in all
    BY <1>1, <1>3, <1>9, <1>11, <1>18
  <2> QED BY <1>8, <1>18, <2>1
<1>19. \A f \in window' : f \in window \/ (f \in Range(frames) /\ Retainable(f))
  BY <1>8, <1>10
<1>20. \A p \in lost : p \in lost' \/ \E f \in Range(frames) : f.payload = p
  BY <1>8
<1> QED BY <1>5, <1>13, <1>14, <1>15, <1>16, <1>17, <1>18, <1>19, <1>20

\* The newest status of an agent after a batch.
LEMMA LatestFiled ==
    ASSUME OrderInv, NEW ps \in Seq(Payload), NEW frames, frames = Sequenced(ps),
           File(frames), NEW a \in Agents
    PROVE \/ /\ latest'[a] = latest[a]
             /\ \A f \in Range(frames) : f.payload.agent # a
          \/ /\ latest'[a] \in Range(frames) /\ latest'[a].payload.agent = a
             /\ \A f \in Range(frames) : f.payload.agent = a =>
                    f = latest'[a] \/ f.seq < latest'[a].seq
<1> DEFINE mine == {i \in 1..Len(frames) : frames[i].payload.agent = a}
<1>1. nextSeq \in Nat
  BY DEF OrderInv, Types, TypeOK
<1>2. frames \in Seq(Frames) /\ Ascending(frames)
  BY <1>1, SequencedIs
<1>3. Len(frames) \in Nat /\ DOMAIN frames = 1..Len(frames)
  BY <1>2
<1>4. \A f : f \in Range(frames) <=> \E i \in 1..Len(frames) : frames[i] = f
  BY <1>2, RangeIs
<1>5. latest'[a] = IF mine = {} THEN latest[a] ELSE frames[Max(mine)]
  BY DEF File
<1>6. CASE mine = {}
  BY <1>4, <1>5, <1>6
<1>7. CASE mine # {}
  <2>1. mine \in SUBSET Nat /\ \A x \in mine : x <= Len(frames)
    BY <1>3
  <2>2. Max(mine) \in mine /\ \A x \in mine : x <= Max(mine)
    <3> HIDE DEF mine
    <3> QED BY <1>3, <1>7, <2>1, MaxIs
  <2>3. PICK k : k = Max(mine)
    OBVIOUS
  <2>4. k \in 1..Len(frames) /\ frames[k].payload.agent = a /\ latest'[a] = frames[k]
    BY <1>5, <1>7, <2>2, <2>3
  <2>5. ASSUME NEW f \in Range(frames), f.payload.agent = a
        PROVE f = latest'[a] \/ f.seq < latest'[a].seq
    <3>1. PICK i \in 1..Len(frames) : frames[i] = f
      BY <1>4
    <3>2. i <= k
      BY <2>2, <2>3, <2>5, <3>1
    <3>3. CASE i = k
      BY <2>4, <3>1, <3>3
    <3>4. CASE i < k
      BY <1>2, <1>3, <2>4, <3>1, <3>4 DEF Ascending
    <3> QED BY <1>3, <2>4, <3>2, <3>3, <3>4
  <2> QED BY <1>4, <2>4, <2>5
<1> QED BY <1>6, <1>7

\* The listings by number of frames no two of which have the same.
LEMMA BySeqIs ==
    ASSUME NEW S \in SUBSET Frames, IsFiniteSet(S),
           \A f, g \in S : f.seq = g.seq => f = g,
           NEW s \in BySeq(S)
    PROVE s \in Seq(Frames) /\ Range(s) = S /\ Ascending(s)
<1>1. PICK n \in Nat : n = Cardinality(S)
  BY FS_CardinalityType
<1>2. /\ s \in [1..n -> S] /\ IsInjective(s)
      /\ \A f \in S : \E i \in 1..n : s[i] = f
      /\ \A i, j \in 1..n : i < j => s[i].seq <= s[j].seq
  BY <1>1 DEF BySeq, Bijection, Injection, Surjection
<1>3. s \in Seq(Frames) /\ DOMAIN s = 1..n
  BY <1>1, <1>2
<1>4. Range(s) = S
  BY <1>2, <1>3 DEF Range
<1>5. ASSUME NEW i \in 1..n, NEW j \in 1..n, i < j PROVE s[i].seq < s[j].seq
  <2>1. s[i] # s[j] /\ s[i] \in S /\ s[j] \in S
    BY <1>1, <1>2, <1>3, <1>5 DEF IsInjective
  <2>2. s[i].seq # s[j].seq /\ s[i].seq \in Nat /\ s[j].seq \in Nat
    BY <2>1 DEF Frames
  <2> QED BY <1>2, <1>5, <2>2
<1> QED BY <1>3, <1>4, <1>5 DEF Ascending

\* The frames of the agents' statuses are finitely many frames.
LEMMA StatusesFinite ==
    ASSUME latest \in [Agents -> Frames]
    PROVE /\ IsFiniteSet(Range(latest)) /\ Range(latest) \in SUBSET Frames
          /\ \A f : f \in Range(latest) <=> \E a \in Agents : latest[a] = f
<1>1. \A f : f \in Range(latest) <=> \E a \in Agents : latest[a] = f
  BY DEF Range
<1>2. latest \in Surjection(Agents, Range(latest))
  BY <1>1 DEF Surjection
<1> QED BY <1>1, <1>2, FS_Surjection, ConstantsAssumption

\* What a covered client is answered with: all it has not seen, in order.
LEMMA ReliableAfterIs ==
    ASSUME OrderInv, NEW last \in Nat, NEW s \in ReliableAfter(last)
    PROVE /\ s \in Seq(Frames) /\ Ascending(s)
          /\ \A f : f \in Range(s) <=>
                /\ last < f.seq
                /\ f \in window \/ \E a \in Agents : f = latest[a] /\ latest[a] # NoFrame
<1> DEFINE S == {f \in window \cup Range(latest) : f.seq > last}
<1>1. /\ latest \in [Agents -> Frames] /\ window \in SUBSET Frames /\ IsFiniteSet(window)
  BY DEF OrderInv, Types, TypeOK
<1>2. /\ IsFiniteSet(Range(latest)) /\ Range(latest) \in SUBSET Frames
      /\ \A f : f \in Range(latest) <=> \E a \in Agents : latest[a] = f
  BY <1>1, StatusesFinite
<1>3. S \in SUBSET Frames /\ IsFiniteSet(S)
  <2>1. IsFiniteSet(window \cup Range(latest))
    BY <1>1, <1>2, FS_Union
  <2> QED BY <1>1, <1>2, <2>1, FS_Subset
<1>4. NoFrame.seq = 0
  BY DEF NoFrame, Frame
<1>5. \A f \in S : f \in window \/ \E a \in Agents : f = latest[a] /\ latest[a] # NoFrame
  BY <1>2, <1>4
<1>6. ASSUME NEW f \in S, NEW g \in S, f.seq = g.seq PROVE f = g
  BY <1>5, <1>6 DEF OrderInv, Numbered
<1>7. s \in BySeq(S)
  BY DEF ReliableAfter
<1>8. s \in Seq(Frames) /\ Range(s) = S /\ Ascending(s)
  <2> HIDE DEF S
  <2> QED BY <1>3, <1>6, <1>7, BySeqIs
<1>9. \A f : f \in S <=>
         /\ last < f.seq
         /\ f \in window \/ \E a \in Agents : f = latest[a] /\ latest[a] # NoFrame
  <2>1. \A f \in S : last < f.seq
    BY <1>3 DEF Frames
  <2>2. \A f \in window \cup Range(latest) : last < f.seq => f \in S
    BY <1>1, <1>2 DEF Frames
  <2> QED BY <1>2, <1>5, <2>1, <2>2
<1> QED BY <1>8, <1>9

\* What is kept aside: the notices of the window and the newest statuses.
LEMMA RuntimePayloadsIs ==
    ASSUME OrderInv, NEW h, RuntimePayloads(h)
    PROVE /\ h \in Seq(Payload)
          /\ \A p : p \in Range(h) <=>
                \/ \E f \in window : IsNote(f.payload) /\ p = f.payload
                \/ \E a \in Agents : latest[a] # NoFrame /\ p = latest[a].payload
<1> DEFINE notes == {f \in window : IsNote(f.payload)}
           known == Range(latest) \ {NoFrame}
<1>1. /\ latest \in [Agents -> Frames] /\ window \in SUBSET Frames /\ IsFiniteSet(window)
      /\ \A f, g \in window : f.seq = g.seq => f = g
  BY DEF OrderInv, Types, TypeOK, Numbered
<1>2. /\ IsFiniteSet(Range(latest)) /\ Range(latest) \in SUBSET Frames
      /\ \A f : f \in Range(latest) <=> \E a \in Agents : latest[a] = f
  BY <1>1, StatusesFinite
<1>3. /\ notes \in SUBSET Frames /\ IsFiniteSet(notes)
      /\ \A f, g \in notes : f.seq = g.seq => f = g
  BY <1>1, FS_Subset
<1>4. IsFiniteSet(known)
  BY <1>2, FS_Difference
<1>5. PICK s \in BySeq(notes), t \in Bijection(1..Cardinality(known), known) :
         h = [i \in 1..Len(s \o t) |-> (s \o t)[i].payload]
  BY DEF RuntimePayloads
<1>6. s \in Seq(Frames) /\ Range(s) = notes
  <2> HIDE DEF notes
  <2> QED BY <1>3, BySeqIs
<1>7. t \in Seq(Frames) /\ Range(t) = known
  <2>1. PICK n \in Nat : n = Cardinality(known)
    <3> HIDE DEF known
    <3> QED BY <1>4, FS_CardinalityType
  <2>2. t \in [1..n -> known] /\ \A f \in known : \E i \in 1..n : t[i] = f
    BY <2>1 DEF Bijection, Injection, Surjection
  <2>3. known \in SUBSET Frames
    BY <1>2
  <2> HIDE DEF known
  <2>4. t \in [1..n -> Frames] /\ DOMAIN t = 1..n
    BY <2>2, <2>3
  <2>5. Range(t) = known
    BY <2>2, <2>4 DEF Range
  <2> QED BY <2>1, <2>4, <2>5
<1>8. s \o t \in Seq(Frames) /\ Range(s \o t) = notes \cup known
  <2> HIDE DEF notes, known
  <2> QED BY <1>6, <1>7, RangeConcat
<1>9. PICK u \in Seq(Frames) : u = s \o t
  BY <1>8
<1>10. h = [i \in 1..Len(u) |-> u[i].payload] /\ Len(u) \in Nat
       /\ \A i \in 1..Len(u) : u[i].payload \in Payload
  <2>1. \A i \in 1..Len(u) : u[i] \in Frames
    BY <1>9
  <2>2. h = [i \in 1..Len(u) |-> u[i].payload]
    BY <1>5, <1>9
  <2>3. \A f \in Frames : f.payload \in Payload
    BY DEF Frames
  <2> QED BY <1>9, <2>1, <2>2, <2>3
<1>11. h \in Seq(Payload) /\ Len(h) = Len(u)
  BY <1>10
<1>12. \A p : p \in Range(h) <=> \E f \in Range(u) : p = f.payload
  <2>1. \A f : f \in Range(u) <=> \E i \in 1..Len(u) : u[i] = f
    BY <1>9, RangeIs
  <2>2. \A p : p \in Range(h) <=> \E i \in 1..Len(u) : h[i] = p
    BY <1>11, RangeIs
  <2>3. \A i \in 1..Len(u) : h[i] = u[i].payload
    BY <1>10
  <2> QED BY <2>1, <2>2, <2>3
<1>13. \A f : f \in known <=> \E a \in Agents : latest[a] # NoFrame /\ f = latest[a]
  BY <1>2
<1>14. Range(u) = notes \cup known
  BY <1>8, <1>9
<1> QED BY <1>11, <1>12, <1>13, <1>14

\* The payloads.
LEMMA PayloadsAre ==
    /\ Ephemeral \in Payload /\ Ephemeral.agent = NoAgent /\ Ephemeral.kind = "ephemeral"
    /\ \A n \in Nat :
         /\ Rec(n) \in Payload /\ Rec(n).agent = NoAgent /\ Rec(n).kind = "rec" /\ Rec(n).n = n
         /\ Note(n) \in Payload /\ Note(n).agent = NoAgent
         /\ Note(n).kind = "note" /\ Note(n).n = n
    /\ \A a \in Agents, v \in Nat :
         /\ Status(a, v) \in Payload /\ Status(a, v).agent = a
         /\ Status(a, v).kind = "status" /\ Status(a, v).n = v
  BY DEF Ephemeral, Rec, Note, Status, Payload

\* One round of the walk maps the records that follow, none beyond the log.
LEMMA RoundIs ==
    ASSUME Types, NEW n \in Rounds
    PROVE /\ n \in Nat /\ pos + n <= log /\ pos + n \in Nat
          /\ Round(n) \in Seq(Payload) /\ Len(Round(n)) = n
          /\ \A p : p \in Range(Round(n)) <=> \E i \in (pos + 1)..(pos + n) : p = Rec(i)
<1>1. pos \in Nat /\ log \in Nat /\ pos <= log /\ Batch \in Nat
  BY ConstantsAssumption DEF Types, TypeOK
<1>2. log - pos \in Nat
  BY <1>1
<1>3. WholeRound \in Nat /\ WholeRound <= log - pos
  <2>1. \E x \in {Batch, log - pos} : \A y \in {Batch, log - pos} : x <= y
    BY <1>1, <1>2
  <2>2. PICK m : m = Min({Batch, log - pos})
    OBVIOUS
  <2>3. m \in {Batch, log - pos} /\ \A y \in {Batch, log - pos} : m <= y
    BY <2>1, <2>2 DEF Min
  <2> QED BY <1>1, <1>2, <2>2, <2>3 DEF WholeRound
<1>4. n \in Nat /\ n <= log - pos
  BY <1>2, <1>3 DEF Rounds
<1>5. \A i \in 1..n : pos + i \in Nat /\ Rec(pos + i) \in Payload
  BY <1>1, <1>4, PayloadsAre
<1>6. /\ Round(n) \in Seq(Payload) /\ Len(Round(n)) = n
      /\ \A i \in 1..n : Round(n)[i] = Rec(pos + i)
  BY <1>4, <1>5 DEF Round
<1>7. \A p : p \in Range(Round(n)) <=> \E i \in 1..n : Round(n)[i] = p
  BY <1>6, RangeIs
<1>8. ASSUME NEW p \in Range(Round(n)) PROVE \E i \in (pos + 1)..(pos + n) : p = Rec(i)
  <2>1. PICK i \in 1..n : p = Rec(pos + i)
    BY <1>6, <1>7
  <2>2. pos + i \in (pos + 1)..(pos + n)
    BY <1>1, <1>4
  <2> QED BY <2>1, <2>2
<1>9. ASSUME NEW i \in (pos + 1)..(pos + n) PROVE Rec(i) \in Range(Round(n))
  <2>1. PICK j : j = i - pos
    OBVIOUS
  <2>2. j \in 1..n /\ pos + j = i
    BY <1>1, <1>4, <2>1
  <2> QED BY <1>6, <1>7, <2>2
<1> QED BY <1>1, <1>4, <1>6, <1>8, <1>9

-----------------------------------------------------------------------------
(* The order of frames: each action keeps OrderInv.                        *)

\* A batch for the connection, whether of a replay or of the live stream.
LEMMA BatchOrdered ==
    ASSUME OrderInv, conn # Down, outbox = << >>,
           NEW ps \in Seq(Payload), \A p \in Range(ps) : Formed(p),
           NEW frames, frames = Sequenced(ps), File(frames),
           nextSeq' = nextSeq + Len(frames),
           outbox' = opening \o frames, opening' = << >>, client' = client,
           conn' # Down, conn'.who = conn.who, conn'.phase # "replay" => held' = << >>,
           \A p \in Range(pending') \cup Range(held') : Formed(p),
           Types'
    PROVE OrderInv'
<1>1. /\ nextSeq \in Nat /\ opening \in Seq(Frames) /\ conn.who \in Clients
      /\ client \in [Clients -> [cursor : Nat, recs : SUBSET Nat, notes : SUBSET Nat,
                                  status : [Agents -> Nat]]]
      /\ window \in SUBSET Frames /\ latest \in [Agents -> Frames]
  BY DEF OrderInv, Types, TypeOK
<1>2. /\ frames \in Seq(Frames) /\ Len(frames) = Len(ps) /\ Ascending(frames)
      /\ \A f \in Range(frames) :
            nextSeq <= f.seq /\ f.seq < nextSeq + Len(ps) /\ f.payload \in Range(ps)
      /\ \A f, g \in Range(frames) : f.seq = g.seq => f = g
  BY <1>1, SequencedIs
<1>3. /\ \A f \in window' : f \in window \/ (f \in Range(frames) /\ Retainable(f))
      /\ floor' < nextSeq' /\ nextSeq' \in Nat /\ nextSeq' = nextSeq + Len(ps)
      /\ \A f \in window' : floor' < f.seq
  BY <1>2, WindowFiled
<1>4. Len(ps) \in Nat /\ nextSeq <= nextSeq'
  BY <1>1, <1>3
<1>5. /\ Range(frames) \subseteq Frames
      /\ \A f \in Range(frames) : nextSeq <= f.seq /\ f.seq < nextSeq' /\ f.seq \in Nat
  <2>1. Range(frames) \subseteq Frames
    BY <1>2, RangeIs
  <2>2. \A f \in Frames : f.seq \in Nat
    BY DEF Frames
  <2> QED BY <1>2, <1>3, <2>1, <2>2
<1>6. Numbered'
  <2>1. ASSUME NEW f \in window'
        PROVE /\ f.seq < nextSeq' /\ Retainable(f) /\ Formed(f.payload)
              /\ f.seq \in Nat
              /\ f \in Range(frames) \/ f.seq < nextSeq
    <3>1. CASE f \in window
      <4>1. f.seq < nextSeq /\ Retainable(f) /\ Formed(f.payload) /\ f.seq \in Nat
        BY <1>1, <3>1 DEF OrderInv, Numbered, Frames
      <4> QED BY <1>1, <1>3, <1>4, <4>1
    <3>2. CASE f \in Range(frames) /\ Retainable(f)
      BY <1>2, <1>5, <3>2
    <3> QED BY <1>3, <3>1, <3>2
  <2>2. ASSUME NEW f \in window', NEW g \in window', f.seq = g.seq PROVE f = g
    <3>1. CASE f \in window /\ g \in window
      BY <2>2, <3>1 DEF OrderInv, Numbered
    <3>2. CASE f \in Range(frames) /\ g \in Range(frames)
      BY <1>2, <2>2, <3>2
    <3>3. CASE f \in Range(frames) /\ g \in window
      <4>1. g.seq < nextSeq /\ nextSeq <= f.seq
        BY <1>2, <3>3 DEF OrderInv, Numbered
      <4> QED BY <1>1, <2>1, <2>2, <4>1
    <3>4. CASE f \in window /\ g \in Range(frames)
      <4>1. f.seq < nextSeq /\ nextSeq <= g.seq
        BY <1>2, <3>4 DEF OrderInv, Numbered
      <4> QED BY <1>1, <2>1, <2>2, <4>1
    <3> QED BY <1>3, <3>1, <3>2, <3>3, <3>4
  <2>3. ASSUME NEW a \in Agents, latest'[a] # NoFrame
        PROVE /\ 0 < latest'[a].seq /\ latest'[a].seq < nextSeq' /\ latest'[a].seq \in Nat
              /\ latest'[a].payload.kind = "status" /\ latest'[a].payload.agent = a
              /\ \/ latest'[a] = latest[a] /\ latest[a] # NoFrame /\ latest[a].seq < nextSeq
                 \/ latest'[a] \in Range(frames) /\ nextSeq <= latest'[a].seq
    <3>1. CASE latest'[a] = latest[a]
      <4>1. /\ 0 < latest[a].seq /\ latest[a].seq < nextSeq
            /\ latest[a].payload.kind = "status" /\ latest[a].payload.agent = a
        BY <2>3, <3>1 DEF OrderInv, Numbered
      <4>2. latest[a].seq \in Nat
        BY <1>1 DEF Frames
      <4> QED BY <1>1, <1>3, <1>4, <2>3, <3>1, <4>1, <4>2
    <3>2. CASE latest'[a] \in Range(frames) /\ latest'[a].payload.agent = a
      <4>1. latest'[a].payload.kind = "status"
        BY <1>2, <3>2 DEF Formed
      <4>2. 0 < nextSeq
        <5>1. floor \in Nat /\ floor < nextSeq
          BY DEF OrderInv, Types, TypeOK, Numbered
        <5> QED BY <1>1, <5>1
      <4>3. nextSeq <= latest'[a].seq /\ latest'[a].seq < nextSeq' /\ latest'[a].seq \in Nat
        BY <1>5, <3>2
      <4> QED BY <1>1, <3>2, <4>1, <4>2, <4>3
    <3> QED BY <3>1, <3>2, LatestFiled
  <2>4. ASSUME NEW a \in Agents, latest'[a] # NoFrame, NEW b \in Agents,
               latest'[b].seq = latest'[a].seq
        PROVE a = b
    <3>1. latest'[b] # NoFrame
      BY <2>3, <2>4 DEF NoFrame, Frame
    <3>2. CASE latest'[a] = latest[a] /\ latest'[b] = latest[b]
      BY <2>4, <3>2 DEF OrderInv, Numbered
    <3>3. CASE latest'[a] \in Range(frames) /\ latest'[b] \in Range(frames)
      <4>1. latest'[a] = latest'[b]
        BY <1>2, <2>4, <3>3
      <4> QED BY <2>3, <2>4, <3>1, <4>1
    <3>4. latest'[a].seq \in Nat /\ latest'[b].seq \in Nat
      BY <2>3, <2>4, <3>1
    <3> QED BY <1>1, <2>3, <2>4, <3>1, <3>2, <3>3, <3>4
  <2>5. ASSUME NEW a \in Agents, latest'[a] # NoFrame, NEW f \in window'
        PROVE f.seq # latest'[a].seq
    <3>1. CASE latest'[a] = latest[a] /\ latest[a] # NoFrame /\ latest[a].seq < nextSeq
      <4>1. CASE f \in window
        BY <3>1, <4>1 DEF OrderInv, Numbered
      <4>2. CASE f \in Range(frames)
        BY <1>1, <1>5, <2>3, <2>5, <3>1, <4>2
      <4> QED BY <1>3, <4>1, <4>2
    <3>2. CASE latest'[a] \in Range(frames) /\ nextSeq <= latest'[a].seq
      <4>1. CASE f \in window
        <5>1. f.seq < nextSeq /\ f.seq \in Nat /\ latest'[a].seq \in Nat
          BY <2>1, <2>3, <2>5, <4>1 DEF OrderInv, Numbered
        <5> QED BY <1>1, <3>2, <5>1
      <4>2. CASE f \in Range(frames) /\ Retainable(f)
        <5> SUFFICES ASSUME f.seq = latest'[a].seq PROVE FALSE
          OBVIOUS
        <5>1. f = latest'[a]
          BY <1>2, <3>2, <4>2
        <5> QED BY <2>3, <2>5, <4>2, <5>1 DEF Retainable
      <4> QED BY <1>3, <4>1, <4>2
    <3> QED BY <2>3, <2>5, <3>1, <3>2
  <2>6. ASSUME NEW c \in Clients PROVE client'[c].cursor < nextSeq'
    <3>1. client[c].cursor < nextSeq /\ client[c].cursor \in Nat
      BY <1>1 DEF OrderInv, Numbered
    <3> QED BY <1>1, <1>3, <1>4, <3>1
  <2> QED BY <1>3, <2>1, <2>2, <2>3, <2>4, <2>5, <2>6 DEF Numbered
<1>7. InLine'
  <2>1. /\ outbox' \in Seq(Frames) /\ Range(outbox') = Range(opening) \cup Range(frames)
    BY <1>1, <1>2, RangeConcat
  <2>2. /\ \A f \in Range(opening) : f.seq < nextSeq /\ client[conn.who].cursor < f.seq
        /\ Ascending(opening) /\ Range(opening) \subseteq Frames
        /\ client[conn.who].cursor < nextSeq /\ client[conn.who].cursor \in Nat
    BY <1>1, RangeIs DEF OrderInv, InLine, UnderWay, Numbered
  <2>3. \A f \in Range(opening) : f.seq \in Nat
    BY <2>2 DEF Frames
  <2>4. \A f \in Range(opening), g \in Range(frames) : f.seq < g.seq
    BY <1>1, <1>5, <2>2, <2>3
  <2>5. Ascending(outbox')
    BY <1>1, <1>2, <2>2, <2>4, AscendingConcat
  <2>6. Range(opening') = {} /\ Ascending(opening')
    BY DEF Range, Ascending
  <2>7. ASSUME NEW f \in UnderWay'
        PROVE f.seq < nextSeq' /\ client'[conn'.who].cursor < f.seq
    <3>1. f \in Range(opening) \/ f \in Range(frames)
      BY <2>1, <2>6, <2>7 DEF UnderWay
    <3>2. CASE f \in Range(opening)
      BY <1>1, <1>3, <1>4, <2>2, <2>3, <3>2
    <3>3. CASE f \in Range(frames)
      BY <1>1, <1>5, <2>2, <3>3
    <3> QED BY <3>1, <3>2, <3>3
  <2> QED BY <2>5, <2>6, <2>7 DEF InLine
<1> QED BY <1>6, <1>7 DEF OrderInv

\* A producer's step: only what waits to be sequenced changes.
LEMMA ProducerOrdered ==
    ASSUME OrderInv, Types', \A p \in Range(pending') : Formed(p),
           UNCHANGED <<nextSeq, window, floor, latest, conn, opening, held, outbox, client>>
    PROVE OrderInv'
<1>1. Numbered'
  BY DEF OrderInv, Numbered
<1>2. InLine'
  BY DEF OrderInv, InLine, UnderWay
<1> QED BY <1>1, <1>2 DEF OrderInv

\* A record is appended to the log.
LEMMA AppendRecordOrdered == ASSUME OrderInv, AppendRecord PROVE OrderInv'
<1>1. log \in Nat /\ log' = log + 1 /\ pos \in Nat /\ pos <= log
  BY DEF OrderInv, Types, TypeOK, AppendRecord
<1>2. log' \in Nat /\ pos <= log'
  BY <1>1
<1>3. Types'
  <2>1. /\ lost' \subseteq Payload /\ skipped' \in [Clients -> Nat]
        /\ wake' \in BOOLEAN /\ halted' \in BOOLEAN
    BY DEF OrderInv, Types, TypeOK, AppendRecord, history
  <2> QED BY <1>2, <2>1 DEF OrderInv, Types, TypeOK, AppendRecord
<1>4. \A p \in Range(pending') : Formed(p)
  BY DEF OrderInv, Numbered, AppendRecord
<1> QED BY <1>3, <1>4, ProducerOrdered DEF AppendRecord

\* A notice waits.
LEMMA EnqueueReliableOrdered == ASSUME OrderInv, EnqueueReliable PROVE OrderInv'
<1>1. notices \in Nat /\ pending \in Seq(Payload)
  BY DEF OrderInv, Types, TypeOK
<1>2. notices + 1 \in Nat
  BY <1>1
<1>3. Note(notices + 1) \in Payload /\ Formed(Note(notices + 1))
  BY <1>2, PayloadsAre, ConstantsAssumption DEF Formed
<1>4. /\ pending' \in Seq(Payload)
      /\ Range(pending') = Range(pending) \cup {Note(notices + 1)}
  BY <1>1, <1>3, RangeAppend DEF EnqueueReliable
<1>5. Types'
  <2>1. /\ lost' \subseteq Payload /\ skipped' \in [Clients -> Nat]
        /\ wake' \in BOOLEAN /\ halted' \in BOOLEAN
    BY DEF OrderInv, Types, TypeOK, EnqueueReliable, history
  <2> QED BY <1>2, <1>4, <2>1 DEF OrderInv, Types, TypeOK, EnqueueReliable
<1>6. \A p \in Range(pending') : Formed(p)
  BY <1>3, <1>4 DEF OrderInv, Numbered
<1> QED BY <1>5, <1>6, ProducerOrdered DEF EnqueueReliable

\* A preview waits.
LEMMA EnqueueEphemeralOrdered == ASSUME OrderInv, EnqueueEphemeral PROVE OrderInv'
<1>1. ephemerals \in Nat /\ pending \in Seq(Payload)
  BY DEF OrderInv, Types, TypeOK
<1>2. ephemerals + 1 \in Nat
  BY <1>1
<1>3. Ephemeral \in Payload /\ Formed(Ephemeral)
  BY PayloadsAre, ConstantsAssumption DEF Formed
<1>4. pending' \in Seq(Payload) /\ Range(pending') = Range(pending) \cup {Ephemeral}
  BY <1>1, <1>3, RangeAppend DEF EnqueueEphemeral
<1>5. Types'
  <2>1. /\ lost' \subseteq Payload /\ skipped' \in [Clients -> Nat]
        /\ wake' \in BOOLEAN /\ halted' \in BOOLEAN
    BY DEF OrderInv, Types, TypeOK, EnqueueEphemeral, history
  <2> QED BY <1>2, <1>4, <2>1 DEF OrderInv, Types, TypeOK, EnqueueEphemeral
<1>6. \A p \in Range(pending') : Formed(p)
  BY <1>3, <1>4 DEF OrderInv, Numbered
<1> QED BY <1>5, <1>6, ProducerOrdered DEF EnqueueEphemeral

\* What waits after a status of an agent came: what waited, without one entry
\* of that agent if it had any, and the new status behind it.
LEMMA EnqueueStatusIs ==
    ASSUME Types, NEW a \in Agents, EnqueueStatus(a)
    PROVE /\ version[a] + 1 \in Nat /\ Status(a, version[a] + 1) \in Payload
          /\ version' = [version EXCEPT ![a] = version[a] + 1]
          /\ \E others \in Seq(Payload) :
               /\ pending' = Append(others, Status(a, version[a] + 1))
               /\ \/ others = pending /\ \A i \in 1..Len(pending) : pending[i].agent # a
                  \/ \E k \in 1..Len(pending) :
                        /\ pending[k].agent = a /\ Len(others) = Len(pending) - 1
                        /\ \A i \in 1..Len(others) :
                              others[i] = pending[IF i < k THEN i ELSE i + 1]
<1> DEFINE mine == {i \in 1..Len(pending) : pending[i].agent = a}
           others == IF mine = {} THEN pending ELSE RemoveAt(pending, Max(mine))
<1>1. version \in [Agents -> Nat] /\ pending \in Seq(Payload) /\ Len(pending) \in Nat
  BY DEF Types, TypeOK
<1>2. version[a] + 1 \in Nat /\ Status(a, version[a] + 1) \in Payload
  BY <1>1, PayloadsAre
<1>3. /\ pending' = Append(others, Status(a, version[a] + 1))
      /\ version' = [version EXCEPT ![a] = version[a] + 1]
  BY DEF EnqueueStatus
<1>4. CASE mine = {}
  <2>1. others = pending /\ \A i \in 1..Len(pending) : pending[i].agent # a
    BY <1>4
  <2> QED BY <1>1, <1>2, <1>3, <2>1
<1>5. CASE mine # {}
  <2>1. mine \in SUBSET Nat /\ \A x \in mine : x <= Len(pending)
    BY <1>1
  <2>2. Max(mine) \in mine
    <3> HIDE DEF mine
    <3> QED BY <1>1, <1>5, <2>1, MaxIs
  <2>3. PICK k \in 1..Len(pending) : k = Max(mine) /\ pending[k].agent = a
    BY <2>2
  <2>4. others = RemoveAt(pending, k)
    BY <1>5, <2>3
  <2> HIDE DEF others
  <2>5. /\ others \in Seq(Payload) /\ Len(others) = Len(pending) - 1
        /\ \A i \in 1..(Len(pending) - 1) :
              others[i] = pending[IF i < k THEN i ELSE i + 1]
    BY <1>1, <2>4, RangeRemoveAt
  <2> QED BY <1>2, <1>3, <2>3, <2>5
<1> QED BY <1>4, <1>5

\* What waits then is what waited, some of it dropped, and the new status.
LEMMA EnqueueStatusWaits ==
    ASSUME Types, NEW a \in Agents, EnqueueStatus(a)
    PROVE /\ pending' \in Seq(Payload)
          /\ Range(pending') \subseteq Range(pending) \cup {Status(a, version[a] + 1)}
<1>1. Status(a, version[a] + 1) \in Payload
  BY EnqueueStatusIs
<1>2. PICK others \in Seq(Payload) :
          /\ pending' = Append(others, Status(a, version[a] + 1))
          /\ \/ others = pending /\ \A i \in 1..Len(pending) : pending[i].agent # a
             \/ \E k \in 1..Len(pending) :
                   /\ pending[k].agent = a /\ Len(others) = Len(pending) - 1
                   /\ \A i \in 1..Len(others) :
                         others[i] = pending[IF i < k THEN i ELSE i + 1]
  BY EnqueueStatusIs
<1>3. pending \in Seq(Payload) /\ Len(pending) \in Nat /\ Len(others) \in Nat
  BY DEF Types, TypeOK
<1>4. Range(others) \subseteq Range(pending)
  <2>1. CASE others = pending
    BY <2>1
  <2>2. ASSUME NEW k \in 1..Len(pending), Len(others) = Len(pending) - 1,
               \A i \in 1..Len(others) : others[i] = pending[IF i < k THEN i ELSE i + 1]
        PROVE Range(others) \subseteq Range(pending)
    <3>1. ASSUME NEW x \in Range(others) PROVE x \in Range(pending)
      <4>1. PICK i \in 1..Len(others) : others[i] = x
        BY RangeIs
      <4>2. PICK j : j = IF i < k THEN i ELSE i + 1
        OBVIOUS
      <4>3. j \in 1..Len(pending) /\ pending[j] = x
        BY <1>3, <2>2, <4>1, <4>2
      <4> QED BY <1>3, <4>3, RangeIs
    <3> QED BY <3>1
  <2> QED BY <1>2, <2>1, <2>2
<1>5. /\ pending' \in Seq(Payload)
      /\ Range(pending') = Range(others) \cup {Status(a, version[a] + 1)}
  BY <1>1, <1>2, RangeAppend
<1> QED BY <1>4, <1>5

\* A status waits, in the place of the agent's earlier one.
LEMMA EnqueueStatusOrdered ==
    ASSUME OrderInv, NEW a \in Agents, EnqueueStatus(a) PROVE OrderInv'
<1>1. /\ version[a] + 1 \in Nat
      /\ version' = [version EXCEPT ![a] = version[a] + 1]
  BY EnqueueStatusIs DEF OrderInv
<1>2. /\ pending' \in Seq(Payload)
      /\ Range(pending') \subseteq Range(pending) \cup {Status(a, version[a] + 1)}
  BY EnqueueStatusWaits DEF OrderInv
<1>3. Types'
  <2>1. version' \in [Agents -> Nat]
    BY <1>1 DEF OrderInv, Types, TypeOK
  <2>2. /\ lost' \subseteq Payload /\ skipped' \in [Clients -> Nat]
        /\ wake' \in BOOLEAN /\ halted' \in BOOLEAN
    BY DEF OrderInv, Types, TypeOK, EnqueueStatus, history
  <2> QED BY <1>2, <2>1, <2>2 DEF OrderInv, Types, TypeOK, EnqueueStatus
<1>4. Formed(Status(a, version[a] + 1))
  BY <1>1, PayloadsAre DEF Formed, Status
<1>5. \A p \in Range(pending') : Formed(p)
  BY <1>2, <1>4 DEF OrderInv, Numbered
<1> QED BY <1>3, <1>5, ProducerOrdered DEF EnqueueStatus

ClientViews == [cursor : Nat, recs : SUBSET Nat, notes : SUBSET Nat, status : [Agents -> Nat]]

\* A replay begins: answered from the window, or by the log and what is kept aside.
LEMMA BeginReplayIs ==
    ASSUME OrderInv, NEW c \in Clients, NEW start \in 0..log, BeginReplay(c, start)
    PROVE \/ /\ Covers(client[c].cursor)
             /\ opening' \in Seq(Frames) /\ Ascending(opening')
             /\ \A f : f \in Range(opening') <=>
                   /\ client[c].cursor < f.seq
                   /\ \/ f \in window
                      \/ \E a \in Agents : f = latest[a] /\ latest[a] # NoFrame
             /\ held' = << >> /\ UNCHANGED <<pos, window, floor, skipped>>
          \/ /\ ~Covers(client[c].cursor)
             /\ opening' = << >> /\ held' \in Seq(Payload)
             /\ \A p : p \in Range(held') <=>
                   \/ \E f \in window : IsNote(f.payload) /\ p = f.payload
                   \/ \E a \in Agents : latest[a] # NoFrame /\ p = latest[a].payload
             /\ pos' = start /\ window' = {} /\ floor' = 0
             /\ skipped' = [d \in Clients |-> IF d = c THEN 0 ELSE start]
<1>1. PICK last \in Nat : last = client[c].cursor
  BY DEF OrderInv, Types, TypeOK
<1>2. CASE Covers(client[c].cursor)
  <2>1. PICK s : s = opening'
    OBVIOUS
  <2>2. s \in ReliableAfter(last) /\ held' = << >> /\ UNCHANGED <<pos, window, floor, skipped>>
    BY <1>1, <1>2, <2>1 DEF BeginReplay
  <2>3. /\ s \in Seq(Frames) /\ Ascending(s)
        /\ \A f : f \in Range(s) <=>
              /\ last < f.seq
              /\ f \in window \/ \E a \in Agents : f = latest[a] /\ latest[a] # NoFrame
    BY <2>2, ReliableAfterIs
  <2> QED BY <1>1, <1>2, <2>1, <2>2, <2>3
<1>3. CASE ~Covers(client[c].cursor)
  <2>1. PICK h : h = held'
    OBVIOUS
  <2>2. /\ RuntimePayloads(h) /\ opening' = << >> /\ pos' = start /\ window' = {} /\ floor' = 0
        /\ skipped' = [d \in Clients |-> IF d = c THEN 0 ELSE start]
    BY <1>3, <2>1 DEF BeginReplay
  <2>3. /\ h \in Seq(Payload)
        /\ \A p : p \in Range(h) <=>
              \/ \E f \in window : IsNote(f.payload) /\ p = f.payload
              \/ \E a \in Agents : latest[a] # NoFrame /\ p = latest[a].payload
    BY <2>2, RuntimePayloadsIs
  <2> QED BY <1>3, <2>1, <2>2, <2>3
<1> QED BY <1>2, <1>3

\* A client attaches: what it is sent first is in order and new to it.
LEMMA AttachOrdered ==
    ASSUME OrderInv, conn = Down, NEW c \in Clients, NEW start \in 0..log,
           BeginReplay(c, start), conn' = [who |-> c, phase |-> "replay"],
           client' \in [Clients -> ClientViews],
           \A d \in Clients : client'[d].cursor = client[d].cursor,
           changes' \in Nat,
           UNCHANGED <<log, nextSeq, pending, ephemerals, latest, wake, outbox, notices, version,
                       lost, halted>>
    PROVE OrderInv'
<1>1. /\ log \in Nat /\ pos \in Nat /\ pos <= log /\ nextSeq \in Nat /\ floor \in Nat
      /\ floor < nextSeq /\ start \in Nat /\ start <= log
      /\ window \in SUBSET Frames /\ latest \in [Agents -> Frames]
  BY DEF OrderInv, Types, TypeOK, Numbered
<1>2. conn' # Down /\ conn'.who = c /\ conn'.phase = "replay"
  BY DEF Down
<1>3. outbox = << >>
  BY DEF OrderInv, InLine
<1>4. CASE /\ opening' \in Seq(Frames) /\ Ascending(opening')
           /\ \A f : f \in Range(opening') <=>
                 /\ client[c].cursor < f.seq
                 /\ \/ f \in window
                    \/ \E a \in Agents : f = latest[a] /\ latest[a] # NoFrame
           /\ held' = << >> /\ UNCHANGED <<pos, window, floor, skipped>>
  <2>1. Types'
    <3>1. held' \in Seq(Payload)
      BY <1>4
    <3>2. conn' \in [who : Clients \cup {NoAgent}, phase : {"down", "replay", "flush", "live"}]
      OBVIOUS
    <3>3. pos' = pos /\ window' = window /\ floor' = floor /\ skipped' = skipped
      BY <1>4
    <3>4. opening' \in Seq(Frames) /\ TypeOK
      BY <1>4 DEF OrderInv, Types
    <3>5. /\ {log', nextSeq', pos', ephemerals', floor', notices', changes'}
                \subseteq Nat
          /\ pending' \in Seq(Payload) /\ outbox' \in Seq(Frames)
          /\ window' \in SUBSET Frames /\ IsFiniteSet(window')
      BY <3>3, <3>4 DEF TypeOK
    <3>6. /\ latest' \in [Agents -> Frames] /\ version' \in [Agents -> Nat]
          /\ lost' \subseteq Payload /\ skipped' \in [Clients -> Nat]
          /\ wake' \in BOOLEAN /\ halted' \in BOOLEAN
      BY <3>3, <3>4 DEF TypeOK
    <3>7. TypeOK'
      BY <3>1, <3>2, <3>4, <3>5, <3>6 DEF TypeOK, ClientViews
    <3> QED BY <1>1, <1>2, <3>3, <3>7 DEF Types
  <2>2. Range(held') = {} /\ Range(outbox') = {} /\ Ascending(outbox')
    BY <1>3, <1>4 DEF Range, Ascending
  <2>3. Numbered'
    BY <1>4, <2>2 DEF OrderInv, Numbered
  <2>4. ASSUME NEW f \in UnderWay'
        PROVE f.seq < nextSeq' /\ client'[conn'.who].cursor < f.seq
    BY <1>2, <1>4, <2>2 DEF OrderInv, Numbered, UnderWay
  <2>5. InLine'
    BY <1>2, <1>3, <1>4, <2>2, <2>4 DEF InLine
  <2> QED BY <2>1, <2>3, <2>5 DEF OrderInv
<1>5. CASE /\ opening' = << >> /\ held' \in Seq(Payload)
           /\ \A p : p \in Range(held') <=>
                 \/ \E f \in window : IsNote(f.payload) /\ p = f.payload
                 \/ \E a \in Agents : latest[a] # NoFrame /\ p = latest[a].payload
           /\ pos' = start /\ window' = {} /\ floor' = 0
           /\ skipped' = [d \in Clients |-> IF d = c THEN 0 ELSE start]
  <2>1. Types'
    <3>1. opening' \in Seq(Frames)
      BY <1>5
    <3>2. conn' \in [who : Clients \cup {NoAgent}, phase : {"down", "replay", "flush", "live"}]
      OBVIOUS
    <3>3. window' \in SUBSET Frames /\ IsFiniteSet(window') /\ skipped' \in [Clients -> Nat]
      BY <1>1, <1>5, FS_EmptySet
    <3> QED BY <1>1, <1>2, <1>5, <3>1, <3>2, <3>3 DEF OrderInv, Types, TypeOK, ClientViews
  <2>2. Range(opening') = {} /\ Ascending(opening') /\ Range(outbox') = {} /\ Ascending(outbox')
    BY <1>3, <1>5 DEF Range, Ascending
  <2>3. \A p \in Range(held') : Formed(p)
    BY <1>5 DEF OrderInv, Numbered, Formed
  <2>4. Numbered'
    BY <1>1, <1>5, <2>3 DEF OrderInv, Numbered
  <2>5. InLine'
    BY <1>2, <1>3, <1>5, <2>2 DEF InLine, UnderWay
  <2> QED BY <2>1, <2>4, <2>5 DEF OrderInv
<1> QED BY <1>4, <1>5, BeginReplayIs

\* A client comes back with its cursor.
LEMMA ReconnectOrdered ==
    ASSUME OrderInv, NEW c \in Clients, Reconnect(c) PROVE OrderInv'
<1>1. 0 \in 0..log /\ changes' \in Nat
  BY DEF OrderInv, Types, TypeOK, Reconnect
<1>2. client' \in [Clients -> ClientViews]
  BY DEF OrderInv, Types, TypeOK, Reconnect, ClientViews
<1>3. \A d \in Clients : client'[d].cursor = client[d].cursor
  BY DEF Reconnect
<1>4. /\ conn = Down /\ BeginReplay(c, 0) /\ conn' = [who |-> c, phase |-> "replay"]
      /\ UNCHANGED <<log, nextSeq, pending, ephemerals, latest, wake, outbox, notices, version,
                      lost, halted>>
  BY DEF Reconnect
<1> QED BY <1>1, <1>2, <1>3, <1>4, AttachOrdered

\* The views after a fresh attach.
LEMMA AttachFreshIs ==
    ASSUME Types, NEW c \in Clients, NEW start \in 0..log,
           client' = [client EXCEPT ![c].recs = 1..start]
    PROVE /\ client' \in [Clients -> ClientViews]
          /\ \A d \in Clients :
                /\ client'[d].cursor = client[d].cursor
                /\ client'[d].notes = client[d].notes
                /\ client'[d].status = client[d].status
                /\ client'[d].recs = IF d = c THEN 1..start ELSE client[d].recs
<1>1. client \in [Clients -> ClientViews] /\ log \in Nat
  BY DEF Types, TypeOK, ClientViews
<1>2. 1..start \in SUBSET Nat
  BY <1>1
<1>3. client' = [client EXCEPT ![c] = [client[c] EXCEPT !.recs = 1..start]]
  BY <1>1
<1>4. [client[c] EXCEPT !.recs = 1..start] \in ClientViews
  BY <1>1, <1>2 DEF ClientViews
<1>5. /\ client'[c] = [client[c] EXCEPT !.recs = 1..start]
      /\ \A d \in Clients : d # c => client'[d] = client[d]
  BY <1>1, <1>3
<1>6. /\ client'[c].cursor = client[c].cursor /\ client'[c].notes = client[c].notes
      /\ client'[c].status = client[c].status /\ client'[c].recs = 1..start
  BY <1>1, <1>5 DEF ClientViews
<1>7. client' \in [Clients -> ClientViews]
  BY <1>1, <1>3, <1>4
<1> QED BY <1>5, <1>6, <1>7

\* A client attaches that has seen nothing.
LEMMA AttachFreshOrdered ==
    ASSUME OrderInv, NEW c \in Clients, AttachFresh(c) PROVE OrderInv'
<1>1. PICK start \in 0..log :
         BeginReplay(c, start) /\ client' = [client EXCEPT ![c].recs = 1..start]
  BY DEF AttachFresh
<1>2. changes' \in Nat
  BY DEF OrderInv, Types, TypeOK, AttachFresh
<1>3. /\ client' \in [Clients -> ClientViews]
      /\ \A d \in Clients : client'[d].cursor = client[d].cursor
  BY <1>1, AttachFreshIs DEF OrderInv
<1>4. /\ conn = Down /\ conn' = [who |-> c, phase |-> "replay"]
      /\ UNCHANGED <<log, nextSeq, pending, ephemerals, latest, wake, outbox, notices, version,
                      lost, halted>>
  BY DEF AttachFresh
<1> QED BY <1>1, <1>2, <1>3, <1>4, AttachOrdered

\* The payloads of a round, and those that follow it when it is the last.
LEMMA BatchIs ==
    ASSUME OrderInv, NEW n \in Rounds, NEW more \in Seq(Payload),
           \A p \in Range(more) : Formed(p),
           NEW ps, ps = Round(n) \o more
    PROVE /\ ps \in Seq(Payload) /\ \A p \in Range(ps) : Formed(p)
          /\ n \in Nat /\ pos + n \in Nat /\ pos + n <= log
          /\ \A p : p \in Range(ps) <=>
                p \in Range(more) \/ \E i \in (pos + 1)..(pos + n) : p = Rec(i)
<1>1. /\ n \in Nat /\ pos + n <= log /\ pos + n \in Nat
      /\ Round(n) \in Seq(Payload)
      /\ \A p : p \in Range(Round(n)) <=> \E i \in (pos + 1)..(pos + n) : p = Rec(i)
  BY RoundIs DEF OrderInv
<1>2. ps \in Seq(Payload) /\ Range(ps) = Range(Round(n)) \cup Range(more)
  BY <1>1, RangeConcat
<1>3. \A i \in (pos + 1)..(pos + n) : Formed(Rec(i))
  <2>1. pos \in Nat
    BY DEF OrderInv, Types, TypeOK
  <2>2. ASSUME NEW i \in (pos + 1)..(pos + n) PROVE i \in Nat
    BY <1>1, <2>1
  <2>3. \A i \in Nat : Formed(Rec(i))
    BY PayloadsAre, ConstantsAssumption DEF Formed
  <2> QED BY <2>2, <2>3
<1>4. \A p \in Range(ps) : Formed(p)
  BY <1>1, <1>2, <1>3
<1> QED BY <1>1, <1>2, <1>4

\* What a batch of a replay and a batch of the live stream have in common: a
\* round of the log and the payloads that follow it, for a connection that has
\* sent all it had.
Batched(n, more) ==
    LET frames == Sequenced(Round(n) \o more)
    IN /\ conn # Down /\ outbox = << >>
       /\ n \in Rounds /\ more \in Seq(Payload) /\ \A p \in Range(more) : Formed(p)
       /\ outbox' = opening \o frames /\ opening' = << >>
       /\ nextSeq' = nextSeq + Len(frames) /\ pos' = pos + n /\ File(frames)
       /\ conn' # Down /\ conn'.who = conn.who
       /\ UNCHANGED <<log, wake, client, notices, version, changes, skipped>>

\* A batch of a replay: the last one carries what was kept aside.
LEMMA ReplayBatchIs ==
    ASSUME OrderInv, ReplayBatch
    PROVE /\ conn.phase = "replay" /\ UNCHANGED <<pending, ephemerals, halted>>
          /\ \E n \in Rounds :
               \/ Batched(n, << >>) /\ held' = held /\ conn' = conn
               \/ /\ Batched(n, held) /\ held' = << >>
                  /\ conn' = [who |-> conn.who, phase |-> "flush"]
<1>1. /\ conn.phase = "replay" /\ outbox = << >>
      /\ UNCHANGED <<log, pending, ephemerals, wake, client, notices, version, changes>>
      /\ UNCHANGED <<skipped, halted>>
  BY DEF ReplayBatch
<1>2. conn # Down
  BY <1>1 DEF Down
<1>3. held \in Seq(Payload) /\ \A p \in Range(held) : Formed(p)
  BY DEF OrderInv, Types, TypeOK, Numbered
<1>4. << >> \in Seq(Payload) /\ Range(<< >>) = {}
  BY DEF Range
<1>5. [conn EXCEPT !.phase = "flush"] = [who |-> conn.who, phase |-> "flush"]
  <2>1. conn \in [who : Clients \cup {NoAgent}, phase : {"down", "replay", "flush", "live"}]
    BY DEF OrderInv, Types, TypeOK
  <2> QED BY <2>1
<1>6. PICK n \in Rounds :
         LET complete == n < Batch
             frames == Sequenced(Round(n) \o (IF complete THEN held ELSE << >>))
         IN /\ outbox' = opening \o frames
            /\ opening' = << >>
            /\ nextSeq' = nextSeq + Len(frames)
            /\ pos' = pos + n
            /\ File(frames)
            /\ held' = IF complete THEN << >> ELSE held
            /\ conn' = IF complete THEN [conn EXCEPT !.phase = "flush"] ELSE conn
  BY DEF ReplayBatch
<1>7. CASE n < Batch
  <2>1. LET frames == Sequenced(Round(n) \o held)
        IN /\ outbox' = opening \o frames /\ opening' = << >>
           /\ nextSeq' = nextSeq + Len(frames) /\ pos' = pos + n /\ File(frames)
           /\ held' = << >> /\ conn' = [who |-> conn.who, phase |-> "flush"]
    BY <1>5, <1>6, <1>7
  <2>2. conn' # Down /\ conn'.who = conn.who
    BY <2>1 DEF Down
  <2>3. Batched(n, held)
    BY <1>1, <1>2, <1>3, <2>1, <2>2 DEF Batched
  <2> QED BY <1>1, <2>1, <2>3
<1>8. CASE ~(n < Batch)
  <2>1. LET frames == Sequenced(Round(n) \o << >>)
        IN /\ outbox' = opening \o frames /\ opening' = << >>
           /\ nextSeq' = nextSeq + Len(frames) /\ pos' = pos + n /\ File(frames)
           /\ held' = held /\ conn' = conn
    BY <1>6, <1>8
  <2>2. Batched(n, << >>)
    BY <1>1, <1>2, <1>4, <2>1 DEF Batched
  <2> QED BY <1>1, <2>1, <2>2
<1> QED BY <1>7, <1>8

\* A batch of the live stream: the last one carries what waits.
LEMMA FlushIs ==
    ASSUME OrderInv, Flush
    PROVE /\ conn.phase = "flush" /\ held' = held /\ ephemerals' \in Nat
          /\ conn' \in {conn, [who |-> conn.who, phase |-> "live"]} /\ halted' \in BOOLEAN
          /\ \E n \in Rounds :
               \/ Batched(n, << >>) /\ pending' = pending
               \/ Batched(n, pending) /\ pending' = << >>
<1>1. /\ conn.phase = "flush" /\ outbox = << >>
      /\ UNCHANGED <<log, wake, opening, held, client, notices, version, changes, skipped>>
  BY DEF Flush
<1>2. conn # Down /\ opening = << >>
  BY <1>1 DEF Down, OrderInv, InLine
<1>3. pending \in Seq(Payload) /\ \A p \in Range(pending) : Formed(p)
  BY DEF OrderInv, Types, TypeOK, Numbered
<1>4. << >> \in Seq(Payload) /\ Range(<< >>) = {}
  BY DEF Range
<1>5. PICK n \in Rounds :
         LET finished == n < Batch
             frames == Sequenced(Round(n) \o (IF finished THEN pending ELSE << >>))
         IN /\ outbox' = frames
            /\ nextSeq' = nextSeq + Len(frames)
            /\ pos' = pos + n
            /\ File(frames)
            /\ pending' = IF finished THEN << >> ELSE pending
            /\ ephemerals' = IF finished THEN Drained ELSE ephemerals
            /\ conn' = IF finished THEN [conn EXCEPT !.phase = "live"] ELSE conn
            /\ halted' = (n < WholeRound)
  BY DEF Flush
<1>6. ephemerals' \in Nat
  BY <1>5 DEF Drained, OrderInv, Types, TypeOK
<1>10. /\ conn' \in {conn, [who |-> conn.who, phase |-> "live"]} /\ halted' \in BOOLEAN
       /\ conn' # Down /\ conn'.who = conn.who
  <2>1. conn \in [who : Clients \cup {NoAgent}, phase : {"down", "replay", "flush", "live"}]
    BY DEF OrderInv, Types, TypeOK
  <2>2. [conn EXCEPT !.phase = "live"] = [who |-> conn.who, phase |-> "live"]
    BY <2>1
  <2>3. halted' \in BOOLEAN
    BY <1>5
  <2>4. conn' \in {conn, [who |-> conn.who, phase |-> "live"]}
    BY <1>5, <2>2
  <2> QED BY <1>2, <2>3, <2>4 DEF Down
<1>7. ASSUME NEW more \in Seq(Payload), \A p \in Range(more) : Formed(p)
      PROVE << >> \o Sequenced(Round(n) \o more) = Sequenced(Round(n) \o more)
  <2>1. nextSeq \in Nat
    BY DEF OrderInv, Types, TypeOK
  <2>2. PICK ps \in Seq(Payload) : ps = Round(n) \o more
    BY <1>7, BatchIs
  <2>3. Sequenced(ps) \in Seq(Frames)
    BY <2>1, SequencedIs
  <2> QED BY <2>2, <2>3
<1>8. CASE n < Batch
  <2>1. LET frames == Sequenced(Round(n) \o pending)
        IN /\ outbox' = frames /\ nextSeq' = nextSeq + Len(frames) /\ pos' = pos + n
           /\ File(frames) /\ pending' = << >>
    BY <1>5, <1>8
  <2>2. Batched(n, pending)
    BY <1>1, <1>2, <1>3, <1>7, <1>10, <2>1 DEF Batched
  <2> QED BY <1>1, <1>6, <1>10, <2>1, <2>2
<1>9. CASE ~(n < Batch)
  <2>1. LET frames == Sequenced(Round(n) \o << >>)
        IN /\ outbox' = frames /\ nextSeq' = nextSeq + Len(frames) /\ pos' = pos + n
           /\ File(frames) /\ pending' = pending
    BY <1>5, <1>9
  <2>2. Batched(n, << >>)
    BY <1>1, <1>2, <1>4, <1>7, <1>10, <2>1 DEF Batched
  <2> QED BY <1>1, <1>6, <1>10, <2>1, <2>2
<1> QED BY <1>8, <1>9

\* A batch keeps the order.
LEMMA BatchedOrdered ==
    ASSUME OrderInv, NEW n, NEW more, Batched(n, more),
           held' \in {held, << >>}, pending' \in {pending, << >>}, ephemerals' \in Nat,
           \/ conn' = conn
           \/ \E ph \in {"flush", "live"} : conn' = [who |-> conn.who, phase |-> ph],
           halted' \in BOOLEAN, conn'.phase # "replay" => held' = << >>
    PROVE OrderInv'
<1> DEFINE ps == Round(n) \o more
           frames == Sequenced(ps)
<1>1. /\ ps \in Seq(Payload) /\ \A p \in Range(ps) : Formed(p)
      /\ pos + n \in Nat /\ pos + n <= log
  BY BatchIs DEF Batched
<1>2. /\ conn # Down /\ outbox = << >> /\ File(frames) /\ nextSeq' = nextSeq + Len(frames)
      /\ outbox' = opening \o frames /\ opening' = << >> /\ client' = client
      /\ conn' # Down /\ conn'.who = conn.who /\ pos' = pos + n
      /\ UNCHANGED <<log, wake, client, notices, version, changes, skipped>>
  BY DEF Batched
<1>3. nextSeq \in Nat /\ opening \in Seq(Frames)
  BY DEF OrderInv, Types, TypeOK
<1>4. frames \in Seq(Frames) /\ Len(frames) = Len(ps) /\ Range(frames) \subseteq Frames
  <2> HIDE DEF ps
  <2> QED BY <1>1, <1>3, SequencedIs, RangeIs
<1> HIDE DEF ps, frames
<1>5. /\ window' \in SUBSET Frames /\ IsFiniteSet(window') /\ floor' \in Nat
      /\ nextSeq' \in Nat /\ lost' \subseteq Payload
  <2>1. frames = Sequenced(ps)
    BY DEF frames
  <2> QED BY <1>1, <1>2, <1>4, <2>1, WindowFiled
<1>6. latest' \in [Agents -> Frames]
  <2>1. ASSUME NEW a \in Agents PROVE latest'[a] \in Frames
    <3>1. frames = Sequenced(ps)
      BY DEF frames
    <3>2. latest[a] \in Frames
      BY DEF OrderInv, Types, TypeOK
    <3> QED BY <1>1, <1>2, <1>4, <3>1, <3>2, LatestFiled
  <2>2. latest' = [a \in Agents |-> latest'[a]]
    BY <1>2 DEF File
  <2> QED BY <2>1, <2>2
<1>7. outbox' \in Seq(Frames) /\ opening' \in Seq(Frames)
  BY <1>2, <1>3, <1>4
<1>8. held' \in Seq(Payload) /\ pending' \in Seq(Payload)
  <2>1. held \in Seq(Payload) /\ pending \in Seq(Payload) /\ << >> \in Seq(Payload)
    BY DEF OrderInv, Types, TypeOK
  <2> QED BY <2>1
<1>9. \A p \in Range(pending') \cup Range(held') : Formed(p)
  <2>1. Range(<< >>) = {}
    BY DEF Range
  <2> QED BY <2>1 DEF OrderInv, Numbered
<1>10. /\ conn' \in [who : Clients \cup {NoAgent}, phase : {"down", "replay", "flush", "live"}]
       /\ conn'.who \in Clients /\ conn'.phase \in {"replay", "flush", "live"}
  <2>1. /\ conn \in [who : Clients \cup {NoAgent}, phase : {"down", "replay", "flush", "live"}]
        /\ conn.who \in Clients /\ conn.phase \in {"replay", "flush", "live"}
    BY <1>2 DEF OrderInv, Types, TypeOK
  <2> QED BY <2>1
<1>11. Types'
  <2>1. pos' \in Nat /\ pos' <= log'
    BY <1>1, <1>2
  <2>2. TypeOK'
    BY <1>2, <1>5, <1>6, <1>7, <1>8, <1>10, <2>1 DEF OrderInv, Types, TypeOK
  <2> QED BY <1>10, <2>1, <2>2 DEF Types
<1>12. frames = Sequenced(ps)
  BY DEF frames
<1> QED BY <1>1, <1>2, <1>9, <1>11, <1>12, BatchOrdered

\* A batch of a replay, and one of the live stream, keep the order.
LEMMA ReplayBatchOrdered == ASSUME OrderInv, ReplayBatch PROVE OrderInv'
<1>1. /\ conn.phase = "replay" /\ UNCHANGED <<pending, ephemerals>> /\ ephemerals \in Nat
      /\ halted' \in BOOLEAN
  BY ReplayBatchIs DEF OrderInv, Types, TypeOK
<1>2. PICK n \in Rounds :
         \/ Batched(n, << >>) /\ held' = held /\ conn' = conn
         \/ /\ Batched(n, held) /\ held' = << >>
            /\ conn' = [who |-> conn.who, phase |-> "flush"]
  BY ReplayBatchIs
<1> QED BY <1>1, <1>2, BatchedOrdered

\* The same of the live stream.
LEMMA FlushOrdered == ASSUME OrderInv, Flush PROVE OrderInv'
<1>1. /\ conn.phase = "flush" /\ held' = held /\ ephemerals' \in Nat /\ halted' \in BOOLEAN
      /\ conn' \in {conn, [who |-> conn.who, phase |-> "live"]}
  BY FlushIs
<1>2. held = << >>
  BY <1>1 DEF OrderInv, InLine
<1>3. PICK n \in Rounds :
         \/ Batched(n, << >>) /\ pending' = pending
         \/ Batched(n, pending) /\ pending' = << >>
  BY FlushIs
<1> QED BY <1>1, <1>2, <1>3, BatchedOrdered

\* What a client has after a frame reached it.
LEMMA SendIs ==
    ASSUME OrderInv, Send
    PROVE /\ conn # Down /\ conn.who \in Clients /\ outbox # << >>
          /\ opening = << >> /\ opening' = << >>
          /\ Head(outbox) \in Frames /\ outbox' = Tail(outbox) /\ outbox' \in Seq(Frames)
          /\ Range(outbox) = {Head(outbox)} \cup Range(outbox')
          /\ UnderWay = Range(outbox) /\ UnderWay' = Range(outbox')
          /\ \A f \in UnderWay' : Head(outbox).seq < f.seq
          /\ Ascending(outbox')
          /\ client' \in [Clients -> ClientViews]
          /\ \A d \in Clients : d # conn.who => client'[d] = client[d]
          /\ LET c == client[conn.who]
                 v == client'[conn.who]
                 h == Head(outbox)
             IN /\ v.cursor = h.seq /\ c.cursor < h.seq /\ h.seq < nextSeq
                /\ v.recs = IF h.payload.kind = "rec" THEN c.recs \cup {h.payload.n} ELSE c.recs
                /\ v.notes = IF IsNote(h.payload) THEN c.notes \cup {h.payload.n} ELSE c.notes
                /\ \A a \in Agents :
                     v.status[a] = IF h.payload.agent = a THEN h.payload.n ELSE c.status[a]
          /\ UNCHANGED <<log, nextSeq, pos, pending, ephemerals, window, floor, latest>>
          /\ UNCHANGED <<conn, wake, held, notices, version, changes, lost, skipped, halted>>
<1>1. /\ conn # Down /\ outbox # << >> /\ outbox' = Tail(outbox)
      /\ client' = [client EXCEPT ![conn.who] = Received(client[conn.who], Head(outbox))]
      /\ UNCHANGED <<log, nextSeq, pos, pending, ephemerals, window, floor, latest>>
      /\ UNCHANGED <<conn, wake, opening, held, notices, version, changes, lost, skipped, halted>>
  BY DEF Send, state, history
<1>2. /\ conn.who \in Clients /\ outbox \in Seq(Frames) /\ opening = << >>
      /\ client \in [Clients -> ClientViews] /\ Ascending(outbox)
  BY <1>1 DEF OrderInv, Types, TypeOK, InLine, ClientViews
<1>3. /\ Tail(outbox) \in Seq(Frames) /\ Head(outbox) \in Frames
      /\ Range(outbox) = {Head(outbox)} \cup Range(Tail(outbox))
  BY <1>1, <1>2, RangeTail
<1>4. Ascending(Tail(outbox)) /\ \A f \in Range(Tail(outbox)) : Head(outbox).seq < f.seq
  BY <1>1, <1>2, AscendingTail
<1>5. UnderWay = Range(outbox) /\ UnderWay' = Range(outbox')
  <2>1. Range(<< >>) = {}
    BY DEF Range
  <2> QED BY <1>1, <1>2, <2>1 DEF UnderWay
<1>6. PICK h \in Frames : h = Head(outbox)
  BY <1>3
<1>7. h.seq \in Nat /\ h.payload \in Payload /\ h.payload.n \in Nat
  BY DEF Frames, Payload
<1>8. PICK c \in ClientViews : c = client[conn.who]
  BY <1>2
<1>9. c.cursor < h.seq /\ h.seq < nextSeq
  BY <1>1, <1>3, <1>5, <1>6, <1>8 DEF OrderInv, InLine
<1>10. PICK v : v = Received(c, h)
  OBVIOUS
<1>11. /\ v = [cursor |-> h.seq,
              recs |-> IF h.payload.kind = "rec" THEN c.recs \cup {h.payload.n} ELSE c.recs,
              notes |-> IF IsNote(h.payload) THEN c.notes \cup {h.payload.n} ELSE c.notes,
              status |-> [a \in Agents |->
                            IF h.payload.agent = a THEN h.payload.n ELSE c.status[a]]]
  BY <1>8, <1>10 DEF Received, ClientViews
<1>12. v \in ClientViews
  <2>1. c.recs \in SUBSET Nat /\ c.notes \in SUBSET Nat /\ c.status \in [Agents -> Nat]
    BY DEF ClientViews
  <2>2. [a \in Agents |-> IF h.payload.agent = a THEN h.payload.n ELSE c.status[a]]
           \in [Agents -> Nat]
    BY <1>7, <2>1
  <2> QED BY <1>7, <1>11, <2>1, <2>2 DEF ClientViews
<1>13. client' = [client EXCEPT ![conn.who] = v]
  BY <1>1, <1>6, <1>8, <1>10
<1>14. /\ client' \in [Clients -> ClientViews] /\ client'[conn.who] = v
       /\ \A d \in Clients : d # conn.who => client'[d] = client[d]
  BY <1>2, <1>12, <1>13
<1>15. /\ v.cursor = h.seq
       /\ v.recs = IF h.payload.kind = "rec" THEN c.recs \cup {h.payload.n} ELSE c.recs
       /\ v.notes = IF IsNote(h.payload) THEN c.notes \cup {h.payload.n} ELSE c.notes
       /\ \A a \in Agents :
            v.status[a] = IF h.payload.agent = a THEN h.payload.n ELSE c.status[a]
  BY <1>11
<1> QED BY <1>1, <1>2, <1>3, <1>4, <1>5, <1>6, <1>8, <1>9, <1>14, <1>15

\* A frame is sent.
LEMMA SendOrdered == ASSUME OrderInv, Send PROVE OrderInv'
<1> DEFINE h == Head(outbox)
<1>1. /\ conn # Down /\ conn.who \in Clients /\ opening = << >> /\ opening' = << >>
      /\ outbox' \in Seq(Frames) /\ UnderWay = Range(outbox) /\ UnderWay' = Range(outbox')
      /\ Range(outbox) = {h} \cup Range(outbox')
      /\ \A f \in UnderWay' : h.seq < f.seq
      /\ Ascending(outbox') /\ client' \in [Clients -> ClientViews]
      /\ \A d \in Clients : d # conn.who => client'[d] = client[d]
      /\ client'[conn.who].cursor = h.seq /\ h.seq < nextSeq
  BY SendIs
<1>2. /\ UNCHANGED <<log, nextSeq, pos, pending, ephemerals, window, floor, latest>>
      /\ UNCHANGED <<conn, wake, held, notices, version, changes, lost, skipped, halted>>
  BY SendIs
<1> HIDE DEF h
<1>3. TypeOK'
  BY <1>1, <1>2 DEF OrderInv, Types, TypeOK, ClientViews
<1>4. Types'
  BY <1>2, <1>3 DEF OrderInv, Types
<1>5. \A d \in Clients : client'[d].cursor < nextSeq
  BY <1>1 DEF OrderInv, Numbered
<1>6. Numbered'
  BY <1>2, <1>5 DEF OrderInv, Numbered
<1>7. Ascending(opening')
  BY <1>1 DEF Ascending
<1>8. \A f \in UnderWay' : f.seq < nextSeq
  BY <1>1 DEF OrderInv, InLine
<1>9. InLine'
  BY <1>1, <1>2, <1>7, <1>8 DEF OrderInv, InLine
<1> QED BY <1>4, <1>6, <1>9 DEF OrderInv

\* The connection is gone, with what it had not sent.
LEMMA DisconnectOrdered == ASSUME OrderInv, Disconnect PROVE OrderInv'
<1>1. /\ conn' = Down /\ outbox' = << >> /\ held' = << >>
      /\ UNCHANGED <<log, nextSeq, pos, pending, ephemerals, window, floor, latest>>
      /\ UNCHANGED <<wake, opening, client, notices, version, changes, skipped, halted>>
      /\ conn.phase = "live" \/ outbox # << >>
      /\ lost' = lost \cup Range(held)
  BY DEF Disconnect, state
<1>2. opening = << >> /\ Range(<< >>) = {} /\ Ascending(<< >>)
  BY <1>1 DEF OrderInv, InLine, Range, Ascending
<1>3. /\ Down \in [who : Clients \cup {NoAgent}, phase : {"down", "replay", "flush", "live"}]
      /\ << >> \in Seq(Payload) /\ << >> \in Seq(Frames)
  BY DEF Down
<1>8. lost' \subseteq Payload
  BY <1>1, RangeIs DEF OrderInv, Types, TypeOK
<1>4. TypeOK'
  BY <1>1, <1>3, <1>8 DEF OrderInv, Types, TypeOK
<1>5. Types'
  BY <1>1, <1>4 DEF OrderInv, Types
<1>6. Numbered'
  BY <1>1, <1>2 DEF OrderInv, Numbered
<1>7. InLine'
  BY <1>1, <1>2 DEF InLine, UnderWay
<1> QED BY <1>5, <1>6, <1>7 DEF OrderInv

\* The views after a reset.
LEMMA ResetIs ==
    ASSUME OrderInv, ResetSequencer
    PROVE /\ conn.who \in Clients /\ conn # Down
          /\ outbox = << >> /\ opening = << >> /\ held = << >>
          /\ log' = 1 /\ pos' = 0 /\ pending' = << >> /\ ephemerals' = 0
          /\ window' = {} /\ floor' = 0 /\ latest' = [a \in Agents |-> NoFrame]
          /\ wake' \in BOOLEAN /\ version' = [a \in Agents |-> 0]
          /\ lost' = {Note(n) : n \in 1..notices} /\ skipped' = [c \in Clients |-> 0]
          /\ UNCHANGED <<nextSeq, conn, opening, held, outbox, notices, halted>>
          /\ changes' \in Nat
          /\ client' \in [Clients -> ClientViews]
          /\ \A d \in Clients :
                /\ client'[d].cursor = client[d].cursor /\ client'[d].recs = {}
                /\ client'[d].notes = client[d].notes
                /\ client'[d].status = [a \in Agents |-> 0]
<1>1. /\ conn.phase = "live" /\ outbox = << >>
      /\ log' = 1 /\ pos' = 0 /\ pending' = << >> /\ ephemerals' = 0
      /\ window' = {} /\ floor' = 0 /\ latest' = [a \in Agents |-> NoFrame]
      /\ wake' \in BOOLEAN /\ version' = [a \in Agents |-> 0]
      /\ lost' = {Note(n) : n \in 1..notices} /\ skipped' = [c \in Clients |-> 0]
      /\ UNCHANGED <<nextSeq, conn, opening, held, outbox, notices, halted>>
      /\ changes' = changes + 1
  <2>1. wake' \in BOOLEAN
    BY DEF ResetSequencer
  <2> QED BY <2>1 DEF ResetSequencer
<1>2. conn # Down /\ opening = << >> /\ held = << >> /\ conn.who \in Clients
  <2>1. conn.phase = "live" /\ outbox = << >>
    BY <1>1
  <2> QED BY <2>1 DEF OrderInv, Types, InLine, Down
<1>3. client \in [Clients -> ClientViews] /\ changes' \in Nat
  <2>1. changes' = changes + 1
    BY <1>1
  <2> QED BY <2>1 DEF OrderInv, Types, TypeOK, ClientViews
<1>4. ASSUME NEW d \in Clients
      PROVE client'[d] = [cursor |-> client[d].cursor, recs |-> {}, notes |-> client[d].notes,
                          status |-> [a \in Agents |-> 0]]
  <2>1. PICK c \in ClientViews : c = client[d]
    BY <1>3
  <2>2. PICK z : z = [a \in Agents |-> 0]
    OBVIOUS
  <2>3. client'[d] = [c EXCEPT !.recs = {}, !.status = z]
    <3>1. version' = z
      BY <1>1, <2>2
    <3>2. client' = [e \in Clients |-> [client[e] EXCEPT !.recs = {}, !.status = version']]
      BY DEF ResetSequencer
    <3> QED BY <2>1, <3>1, <3>2
  <2>4. client'[d] = [cursor |-> c.cursor, recs |-> {}, notes |-> c.notes, status |-> z]
    BY <2>3 DEF ClientViews
  <2> QED BY <2>1, <2>2, <2>4
<1>5. ASSUME NEW d \in Clients
      PROVE /\ client'[d] \in ClientViews
            /\ client'[d].cursor = client[d].cursor /\ client'[d].recs = {}
            /\ client'[d].notes = client[d].notes
            /\ client'[d].status = [a \in Agents |-> 0]
  <2>1. /\ client[d].cursor \in Nat /\ client[d].notes \in SUBSET Nat
        /\ [a \in Agents |-> 0] \in [Agents -> Nat]
    BY <1>3 DEF ClientViews
  <2>2. PICK v, x, y, z : /\ v = client'[d] /\ x = client[d].cursor /\ y = client[d].notes
                          /\ z = [a \in Agents |-> 0]
    OBVIOUS
  <2>3. v = [cursor |-> x, recs |-> {}, notes |-> y, status |-> z]
    BY <1>4, <2>2
  <2>4. v \in ClientViews /\ v.cursor = x /\ v.recs = {} /\ v.notes = y /\ v.status = z
    BY <2>1, <2>2, <2>3 DEF ClientViews
  <2> QED BY <2>2, <2>4
<1>6. client' = [c \in Clients |-> client'[c]]
  BY DEF ResetSequencer
<1>7. client' \in [Clients -> ClientViews]
  BY <1>5, <1>6
<1>8. \A d \in Clients :
         /\ client'[d].cursor = client[d].cursor /\ client'[d].recs = {}
         /\ client'[d].notes = client[d].notes
         /\ client'[d].status = [a \in Agents |-> 0]
  BY <1>5
<1> QED BY <1>1, <1>2, <1>3, <1>7, <1>8

\* The session is reset.
LEMMA ResetOrdered == ASSUME OrderInv, ResetSequencer PROVE OrderInv'
<1>1. /\ conn.who \in Clients /\ conn # Down
      /\ outbox = << >> /\ opening = << >> /\ held = << >>
      /\ log' = 1 /\ pos' = 0 /\ pending' = << >> /\ ephemerals' = 0
      /\ window' = {} /\ floor' = 0 /\ latest' = [a \in Agents |-> NoFrame]
      /\ wake' \in BOOLEAN /\ version' = [a \in Agents |-> 0]
      /\ lost' = {Note(n) : n \in 1..notices} /\ skipped' = [c \in Clients |-> 0]
      /\ UNCHANGED <<nextSeq, conn, opening, held, outbox, notices, halted>>
      /\ changes' \in Nat /\ client' \in [Clients -> ClientViews]
  BY ResetIs
<1>2. \A d \in Clients : client'[d].cursor = client[d].cursor
  BY ResetIs
<1>3. NoFrame \in Frames
  <2>1. NoFrame = [seq |-> 0, payload |-> Ephemeral] /\ Ephemeral \in Payload
    BY PayloadsAre DEF NoFrame, Frame
  <2> QED BY <2>1 DEF Frames
<1>4. /\ latest' \in [Agents -> Frames] /\ version' \in [Agents -> Nat]
      /\ window' \in SUBSET Frames /\ IsFiniteSet(window') /\ lost' \subseteq Payload
      /\ pending' \in Seq(Payload) /\ skipped' \in [Clients -> Nat]
  <2>1. notices \in Nat
    BY DEF OrderInv, Types, TypeOK
  <2>2. \A n \in 1..notices : Note(n) \in Payload
    BY <2>1, PayloadsAre
  <2> QED BY <1>1, <1>3, <2>1, <2>2, FS_EmptySet
<1>5. TypeOK'
  BY <1>1, <1>4 DEF OrderInv, Types, TypeOK, ClientViews
<1>6. Types'
  BY <1>1, <1>5 DEF OrderInv, Types
<1>7. Range(<< >>) = {}
  BY DEF Range
<1>8. Numbered'
  <2>1. nextSeq \in Nat /\ floor \in Nat /\ floor < nextSeq
    BY DEF OrderInv, Types, TypeOK, Numbered
  <2>2. 0 < nextSeq
    BY <2>1
  <2> QED BY <1>1, <1>2, <1>7, <2>2 DEF OrderInv, Numbered
<1>9. InLine'
  BY <1>1, <1>2, <1>7 DEF OrderInv, InLine, UnderWay
<1> QED BY <1>6, <1>8, <1>9 DEF OrderInv

\* The server wakes, by a permit or at the end of a leg: only its phase changes.
LEMMA WokenIs ==
    ASSUME OrderInv, Wake \/ LegEnds
    PROVE /\ conn.phase = "live" /\ conn' = [who |-> conn.who, phase |-> "flush"]
          /\ conn # Down /\ conn' # Down /\ conn.who \in Clients /\ wake' \in BOOLEAN
          /\ UNCHANGED <<log, nextSeq, pos, pending, ephemerals, window, floor, latest>>
          /\ UNCHANGED <<opening, held, outbox, client, notices, version, changes>>
          /\ UNCHANGED <<lost, skipped, halted>>
<1>1. /\ conn.phase = "live" /\ conn' = [conn EXCEPT !.phase = "flush"]
      /\ UNCHANGED <<log, nextSeq, pos, pending, ephemerals, window, floor, latest>>
      /\ UNCHANGED <<opening, held, outbox, client, notices, version, changes>>
      /\ UNCHANGED <<lost, skipped, halted>>
      /\ wake' = wake \/ wake' = FALSE
  BY DEF Wake, LegEnds, state, history
<1>2. /\ conn \in [who : Clients \cup {NoAgent}, phase : {"down", "replay", "flush", "live"}]
      /\ wake \in BOOLEAN /\ (conn # Down => conn.who \in Clients)
  BY DEF OrderInv, Types, TypeOK
<1>3. conn' = [who |-> conn.who, phase |-> "flush"]
  BY <1>1, <1>2
<1>4. conn # Down /\ conn' # Down
  BY <1>1, <1>3 DEF Down
<1> QED BY <1>1, <1>2, <1>3, <1>4

\* It keeps the order.
LEMMA WokenOrdered == ASSUME OrderInv, Wake \/ LegEnds PROVE OrderInv'
<1>1. /\ conn.phase = "live" /\ conn' = [who |-> conn.who, phase |-> "flush"]
      /\ conn # Down /\ conn' # Down /\ conn.who \in Clients /\ wake' \in BOOLEAN
      /\ UNCHANGED <<log, nextSeq, pos, pending, ephemerals, window, floor, latest>>
      /\ UNCHANGED <<opening, held, outbox, client, notices, version, changes>>
      /\ UNCHANGED <<lost, skipped, halted>>
  BY WokenIs
<1>2. conn'.who = conn.who /\ conn'.phase = "flush"
  BY <1>1
<1>3. conn' \in [who : Clients \cup {NoAgent}, phase : {"down", "replay", "flush", "live"}]
  BY <1>1
<1>4. TypeOK'
  BY <1>1, <1>3 DEF OrderInv, Types, TypeOK
<1>5. Types'
  BY <1>1, <1>2, <1>4 DEF OrderInv, Types
<1>6. Numbered'
  BY <1>1 DEF OrderInv, Numbered
<1>7. InLine'
  BY <1>1, <1>2 DEF OrderInv, InLine, UnderWay
<1> QED BY <1>5, <1>6, <1>7 DEF OrderInv

-----------------------------------------------------------------------------
(* Frames are sent in order.                                               *)

\* A new sequencer is in order.
LEMMA InitOrdered == Init => OrderInv
<1> SUFFICES ASSUME Init PROVE OrderInv
  OBVIOUS
<1>1. NoFrame \in Frames
  <2>1. NoFrame = [seq |-> 0, payload |-> Ephemeral] /\ Ephemeral \in Payload
    BY PayloadsAre DEF NoFrame, Frame
  <2> QED BY <2>1 DEF Frames
<1>2. Fresh \in ClientViews /\ Fresh.cursor = 0
  BY DEF Fresh, ClientViews
<1>3. Down \in [who : Clients \cup {NoAgent}, phase : {"down", "replay", "flush", "live"}]
  BY DEF Down
<1>4. latest \in [Agents -> Frames] /\ client \in [Clients -> ClientViews]
  BY <1>1, <1>2 DEF Init
<1>5. /\ pending \in Seq(Payload) /\ held \in Seq(Payload)
      /\ opening \in Seq(Frames) /\ outbox \in Seq(Frames)
  BY DEF Init
<1>6. TypeOK
  <2>1. /\ lost \subseteq Payload /\ skipped \in [Clients -> Nat]
        /\ wake \in BOOLEAN /\ halted \in BOOLEAN
    BY DEF Init
  <2> QED BY <1>3, <1>4, <1>5, <2>1, FS_EmptySet DEF Init, TypeOK, ClientViews
<1>7. Types
  BY <1>6 DEF Init, Types
<1>8. Range(<< >>) = {} /\ Ascending(<< >>)
  BY DEF Range, Ascending
<1>9. Numbered
  BY <1>2, <1>8 DEF Init, Numbered
<1>10. InLine
  BY <1>8 DEF Init, InLine, UnderWay
<1> QED BY <1>7, <1>9, <1>10 DEF OrderInv

\* Every step keeps the order.
LEMMA StepOrdered == OrderInv /\ [Next]_vars => OrderInv'
<1> SUFFICES ASSUME OrderInv, [Next]_vars PROVE OrderInv'
  OBVIOUS
<1>1. ASSUME NEW a \in Agents, EnqueueStatus(a) PROVE OrderInv'
  BY <1>1, EnqueueStatusOrdered
<1>2. ASSUME NEW c \in Clients, Reconnect(c) \/ AttachFresh(c) PROVE OrderInv'
  BY <1>2, ReconnectOrdered, AttachFreshOrdered
<1>3. CASE UNCHANGED vars
  BY <1>3 DEF vars, state, history, OrderInv, Types, TypeOK, Numbered, InLine, UnderWay
<1> QED BY <1>1, <1>2, <1>3, AppendRecordOrdered, EnqueueReliableOrdered,
           EnqueueEphemeralOrdered, ReplayBatchOrdered, FlushOrdered, SendOrdered,
           DisconnectOrdered, ResetOrdered, WokenOrdered DEF Next

\* It holds of every behaviour.
LEMMA OrderInvariant == Spec => []OrderInv
  BY InitOrdered, StepOrdered, PTL DEF Spec

\* For any number of frontends, agents, records, notices and lost connections,
\* also in the middle of a replay: a connection sends frames in the order of
\* their numbers, each above the cursor of its client and below the next number.
THEOREM FramesInOrder == Spec => []SeqOrdered
<1>1. OrderInv => SeqOrdered
  <2> SUFFICES ASSUME OrderInv PROVE SeqOrdered
    OBVIOUS
  <2>1. outbox \in Seq(Frames) /\ Len(outbox) \in Nat /\ DOMAIN outbox = 1..Len(outbox)
    BY DEF OrderInv, Types, TypeOK
  <2>2. \A i \in 1..Len(outbox) : outbox[i] \in UnderWay
    BY <2>1, RangeIs DEF UnderWay
  <2>3. \A i \in 1..(Len(outbox) - 1) : i \in 1..Len(outbox) /\ i + 1 \in 1..Len(outbox) /\ i < i + 1
    BY <2>1
  <2>4. \A i \in 1..(Len(outbox) - 1) : outbox[i].seq < outbox[i + 1].seq
    BY <2>1, <2>3 DEF OrderInv, InLine, Ascending
  <2>5. outbox # << >> => 1 \in 1..Len(outbox)
    BY <2>1
  <2> QED BY <2>2, <2>4, <2>5 DEF OrderInv, InLine, SeqOrdered
<1> QED BY <1>1, OrderInvariant, PTL

\* Every variable has its type in every behaviour, and the window is finite.
THEOREM TypeCorrect == Spec => []TypeOK
<1>1. OrderInv => TypeOK
  BY DEF OrderInv, Types
<1> QED BY <1>1, OrderInvariant, PTL

-----------------------------------------------------------------------------
(* A batch as the delivery invariants see it: the frames it adds.          *)

\* The frames F a batch adds, and where they are afterwards.
Added(F, n, more) ==
    /\ F \subseteq Frames
    /\ UnderWay' = UnderWay \cup F
    /\ \A f \in F : \A c \in Clients : client[c].cursor < f.seq
    /\ \A f \in F :
         f.payload \in Range(more) \/ \E i \in (pos + 1)..(pos + n) : f.payload = Rec(i)
    /\ \A p \in Range(more) : \E f \in F : f.payload = p
    /\ \A i \in (pos + 1)..(pos + n) : \E f \in F : f.payload = Rec(i)
    /\ \A f \in window' : f \in window \cup F
    /\ \A f \in window \cup F : Retainable(f) => f \in window' \/ f.seq <= floor'
    /\ \A f \in window \cup F :
         IsNote(f.payload) => f \in window' \/ f.payload \in lost'
    /\ \A p \in lost : p \in lost' \/ \E f \in F : f.payload = p
    /\ \A a \in Agents :
         \/ /\ latest'[a] = latest[a]
            /\ \A f \in F : f.payload.agent # a
         \/ /\ latest'[a] \in F /\ latest'[a].payload.agent = a
            /\ \A f \in F : f.payload.agent = a => f = latest'[a] \/ f.seq < latest'[a].seq
            /\ \A f \in UnderWay : f.seq < latest'[a].seq

\* A batch adds such frames, and only moves the floor up.
LEMMA BatchAdds ==
    ASSUME OrderInv, NEW n, NEW more, Batched(n, more)
    PROVE /\ \E F : Added(F, n, more)
          /\ floor \in Nat /\ floor' \in Nat /\ floor <= floor'
          /\ n \in Nat /\ pos \in Nat /\ pos' = pos + n /\ pos + n <= log
<1>1. PICK ps \in Seq(Payload) :
         /\ ps = Round(n) \o more
         /\ n \in Nat /\ pos + n \in Nat /\ pos + n <= log
         /\ \A p : p \in Range(ps) <=>
               p \in Range(more) \/ \E i \in (pos + 1)..(pos + n) : p = Rec(i)
  BY BatchIs DEF Batched
<1>2. PICK frames : frames = Sequenced(ps)
  OBVIOUS
<1>3. /\ outbox = << >> /\ File(frames) /\ nextSeq' = nextSeq + Len(frames)
      /\ outbox' = opening \o frames /\ opening' = << >> /\ pos' = pos + n
  BY <1>1, <1>2 DEF Batched
<1>4. /\ nextSeq \in Nat /\ opening \in Seq(Frames) /\ pos \in Nat /\ floor \in Nat
      /\ \A c \in Clients : client[c].cursor < nextSeq /\ client[c].cursor \in Nat
  BY DEF OrderInv, Types, TypeOK, Numbered
<1>5. /\ frames \in Seq(Frames) /\ Len(frames) = Len(ps)
      /\ \A f \in Range(frames) :
            nextSeq <= f.seq /\ f.seq < nextSeq + Len(ps) /\ f.payload \in Range(ps)
      /\ \A p \in Range(ps) : \E f \in Range(frames) : f.payload = p
  BY <1>2, <1>4, SequencedIs
<1>6. PICK F : F = Range(frames)
  OBVIOUS
<1>7. F \subseteq Frames /\ \A f \in F : f.seq \in Nat
  <2>1. F \subseteq Frames
    BY <1>5, <1>6, RangeIs
  <2> QED BY <2>1 DEF Frames
<1>8. UnderWay' = UnderWay \cup F
  <2>1. Range(outbox') = Range(opening) \cup F
    BY <1>3, <1>4, <1>5, <1>6, RangeConcat
  <2>2. Range(<< >>) = {}
    BY DEF Range
  <2> QED BY <1>3, <2>1, <2>2 DEF UnderWay
<1>9. \A f \in F : \A c \in Clients : client[c].cursor < f.seq
  BY <1>4, <1>5, <1>6, <1>7
<1>10. /\ \A f \in window' : f \in window \/ (f \in Range(frames) /\ Retainable(f))
       /\ floor' \in Nat /\ floor <= floor'
       /\ \A p \in lost : p \in lost' \/ \E f \in Range(frames) : f.payload = p
       /\ \A f \in window \cup Range(frames) :
             Retainable(f) => f \in window' \/ f.seq <= floor'
       /\ \A f \in window \cup Range(frames) :
             IsNote(f.payload) => f \in window' \/ f.payload \in lost'
  BY <1>2, <1>3, <1>5, WindowFiled
<1>11. ASSUME NEW a \in Agents
       PROVE \/ /\ latest'[a] = latest[a]
                /\ \A f \in F : f.payload.agent # a
             \/ /\ latest'[a] \in F /\ latest'[a].payload.agent = a
                /\ \A f \in F : f.payload.agent = a => f = latest'[a] \/ f.seq < latest'[a].seq
                /\ \A f \in UnderWay : f.seq < latest'[a].seq
  <2>1. \/ /\ latest'[a] = latest[a]
           /\ \A f \in F : f.payload.agent # a
        \/ /\ latest'[a] \in F /\ latest'[a].payload.agent = a
           /\ \A f \in F : f.payload.agent = a => f = latest'[a] \/ f.seq < latest'[a].seq
    BY <1>2, <1>3, <1>6, LatestFiled
  <2>2. ASSUME latest'[a] \in F, NEW f \in UnderWay PROVE f.seq < latest'[a].seq
    <3>1. f.seq < nextSeq
      BY DEF OrderInv, InLine
    <3>2. nextSeq <= latest'[a].seq /\ latest'[a].seq \in Nat
      BY <1>5, <1>6, <1>7, <2>2
    <3>3. f \in Frames
      BY RangeIs DEF OrderInv, Types, TypeOK, UnderWay
    <3>4. f.seq \in Nat
      BY <3>3 DEF Frames
    <3> QED BY <1>4, <3>1, <3>2, <3>4
  <2> QED BY <2>1, <2>2
<1>12. \A f \in F :
         f.payload \in Range(more) \/ \E i \in (pos + 1)..(pos + n) : f.payload = Rec(i)
  BY <1>1, <1>5, <1>6
<1>13. /\ \A p \in Range(more) : \E f \in F : f.payload = p
       /\ \A i \in (pos + 1)..(pos + n) : \E f \in F : f.payload = Rec(i)
  BY <1>1, <1>5, <1>6
<1>14. /\ \A f \in window' : f \in window \cup F
       /\ \A f \in window \cup F : Retainable(f) => f \in window' \/ f.seq <= floor'
       /\ \A f \in window \cup F :
            IsNote(f.payload) => f \in window' \/ f.payload \in lost'
       /\ \A p \in lost : p \in lost' \/ \E f \in F : f.payload = p
  BY <1>6, <1>10
<1>15. Added(F, n, more)
  BY <1>7, <1>8, <1>9, <1>11, <1>12, <1>13, <1>14 DEF Added
<1> QED BY <1>1, <1>3, <1>4, <1>10, <1>15

-----------------------------------------------------------------------------
(* Durable records reach the client.                                       *)

\* The types the steps below use, of one state.
LEMMA ViewsTyped ==
    ASSUME OrderInv
    PROVE /\ client \in [Clients -> ClientViews]
          /\ \A c \in Clients : client[c].cursor \in Nat
          /\ window \subseteq Frames /\ UnderWay \subseteq Frames
          /\ \A f \in Frames : f.seq \in Nat /\ f.payload \in Payload /\ f.payload.n \in Nat
          /\ conn # Down => conn.who \in Clients
          /\ log \in Nat /\ pos \in Nat /\ floor \in Nat
<1>1. UnderWay \subseteq Frames
  BY RangeIs DEF OrderInv, Types, TypeOK, UnderWay
<1>2. \A f \in Frames : f.seq \in Nat /\ f.payload \in Payload /\ f.payload.n \in Nat
  BY DEF Frames, Payload
<1>3. client \in [Clients -> ClientViews] /\ \A c \in Clients : client[c].cursor \in Nat
  BY DEF OrderInv, Types, TypeOK, ClientViews
<1> QED BY <1>1, <1>2, <1>3 DEF OrderInv, Types, TypeOK

\* A batch: its records are on their way, and in the window or below its floor.
LEMMA BatchedDurable ==
    ASSUME DurableInv, OrderInv', NEW n, NEW more, Batched(n, more),
           \A p \in Range(more) : p.kind # "rec",
           held' \in {held, << >>}, pending' \in {pending, << >>}
    PROVE DurableInv'
<1>1. OrderInv
  BY DEF DurableInv
<1>2. PICK F : Added(F, n, more)
  BY <1>1, BatchAdds
<1>3. /\ floor \in Nat /\ floor' \in Nat /\ floor <= floor'
      /\ n \in Nat /\ pos \in Nat /\ pos' = pos + n /\ pos + n <= log
  BY <1>1, BatchAdds
<1>4. /\ conn # Down /\ conn' # Down /\ conn'.who = conn.who
      /\ client' = client /\ log' = log /\ skipped' = skipped
  BY DEF Batched
<1>5. /\ \A c \in Clients : client[c].cursor \in Nat
      /\ window \subseteq Frames /\ UnderWay \subseteq Frames
      /\ \A f \in Frames : f.seq \in Nat
      /\ conn.who \in Clients
  BY <1>1, <1>4, ViewsTyped
<1>6. /\ F \subseteq Frames /\ UnderWay' = UnderWay \cup F
      /\ \A f \in F : \A c \in Clients : client[c].cursor < f.seq
      /\ \A f \in F :
           f.payload \in Range(more) \/ \E i \in (pos + 1)..(pos + n) : f.payload = Rec(i)
      /\ \A i \in (pos + 1)..(pos + n) : \E f \in F : f.payload = Rec(i)
      /\ \A f \in window' : f \in window \cup F
      /\ \A f \in window \cup F : Retainable(f) => f \in window' \/ f.seq <= floor'
  BY <1>2 DEF Added
<1>7. \A i \in (pos + 1)..(pos + n) : i \in 1..pos' /\ i \in Nat
  BY <1>3
<1>8. \A i \in 1..pos : i \in 1..pos'
  BY <1>3
<1>9. \A i \in 1..pos' : i \in 1..pos \/ i \in (pos + 1)..(pos + n)
  BY <1>3
<1>10. Durable'
  <2>1. ASSUME NEW f \in window' \cup UnderWay', f.payload.kind = "rec"
        PROVE f.payload.n \in 1..pos'
    <3>1. CASE f \in window \cup UnderWay
      BY <1>8, <2>1, <3>1 DEF DurableInv, Durable
    <3>2. CASE f \in F
      <4>1. PICK i \in (pos + 1)..(pos + n) : f.payload = Rec(i)
        BY <1>6, <2>1, <3>2
      <4> QED BY <1>7, <4>1, PayloadsAre
    <3> QED BY <1>6, <3>1, <3>2
  <2>2. \A p \in Range(pending') \cup Range(held') : p.kind # "rec"
    <3>1. Range(<< >>) = {}
      BY DEF Range
    <3> QED BY <3>1 DEF DurableInv, Durable
  <2> QED BY <1>4, <2>1, <2>2 DEF DurableInv, Durable
<1>11. WindowSent'
  <2>1. ASSUME NEW f \in window', client[conn.who].cursor < f.seq PROVE f \in UnderWay'
    BY <1>4, <1>6, <2>1 DEF DurableInv, WindowSent
  <2>2. ASSUME NEW f \in UnderWay', Retainable(f) PROVE f \in window' \/ f.seq <= floor'
    <3>1. CASE f \in window \cup F
      BY <1>6, <2>2, <3>1
    <3>2. CASE f \in UnderWay /\ f \notin window
      <4>1. f.seq <= floor /\ f.seq \in Nat
        BY <1>4, <1>5, <2>2, <3>2 DEF DurableInv, WindowSent
      <4> QED BY <1>3, <4>1
    <3> QED BY <1>6, <3>1, <3>2
  <2> QED BY <1>4, <2>1, <2>2 DEF WindowSent
<1>12. RecordSent'
  <2>1. ASSUME NEW i \in 1..pos'
        PROVE \/ i <= skipped[conn.who] \/ i \in client[conn.who].recs
              \/ \E f \in UnderWay' : f.payload = Rec(i)
    <3>1. CASE i \in 1..pos
      BY <1>4, <1>6, <3>1 DEF DurableInv, RecordSent
    <3>2. CASE i \in (pos + 1)..(pos + n)
      BY <1>6, <3>2
    <3> QED BY <1>9, <3>1, <3>2
  <2> QED BY <1>4, <2>1 DEF RecordSent
<1>13. RecordKept'
  <2> SUFFICES ASSUME NEW c \in Clients, Covers(client[c].cursor)', NEW i \in 1..pos'
               PROVE \/ i <= skipped[c] \/ i \in client[c].recs
                     \/ \E f \in window' : f.payload = Rec(i) /\ client[c].cursor < f.seq
    BY <1>4 DEF RecordKept
  <2>1. PICK last \in Nat : last = client[c].cursor
    BY <1>5
  <2>2. last # 0 /\ (floor' = 0 \/ last >= floor')
    BY <1>4, <2>1 DEF Covers
  <2>3. Covers(client[c].cursor)
    BY <1>3, <2>1, <2>2 DEF Covers
  <2>4. ASSUME NEW f \in window \cup F, f.payload = Rec(i), last < f.seq
        PROVE f \in window'
    <3>1. Retainable(f)
      <4>1. i \in Nat
        BY <1>7, <1>8, <1>9
      <4> QED BY <2>4, <4>1, PayloadsAre DEF Retainable
    <3>2. f.seq \in Nat
      BY <1>5, <1>6
    <3>3. ~(f.seq <= floor')
      BY <1>3, <2>2, <2>4, <3>2
    <3> QED BY <1>6, <3>1, <3>3
  <2>5. CASE i \in 1..pos
    <3>1. \/ i <= skipped[c] \/ i \in client[c].recs
          \/ \E f \in window : f.payload = Rec(i) /\ client[c].cursor < f.seq
      BY <2>3, <2>5 DEF DurableInv, RecordKept
    <3> QED BY <2>1, <2>4, <3>1
  <2>6. CASE i \in (pos + 1)..(pos + n)
    <3>1. PICK f \in F : f.payload = Rec(i)
      BY <1>6, <2>6
    <3>2. last < f.seq
      BY <1>6, <2>1, <3>1
    <3> QED BY <2>1, <2>4, <3>1, <3>2
  <2> QED BY <1>9, <2>5, <2>6
<1> QED BY <1>10, <1>11, <1>12, <1>13 DEF DurableInv

\* A producer's step touches none of it.
LEMMA ProducerDurable ==
    ASSUME DurableInv, OrderInv', log <= log', log' \in Nat,
           \A p \in Range(pending') : p.kind # "rec",
           UNCHANGED <<pos, window, floor, conn, opening, held, outbox, client, skipped>>
    PROVE DurableInv'
<1>1. UnderWay' = UnderWay
  BY DEF UnderWay
<1>2. \A i \in 1..log : i \in 1..log'
  BY ViewsTyped DEF DurableInv
<1>3. Durable'
  BY <1>1, <1>2 DEF DurableInv, Durable
<1>4. WindowSent' /\ RecordSent' /\ RecordKept'
  BY <1>1 DEF DurableInv, WindowSent, RecordSent, RecordKept, Covers
<1> QED BY <1>3, <1>4 DEF DurableInv

\* A client attaches: what the window covers is on its way, or the walk restarts,
\* for the others above what it skips.
LEMMA AttachDurable ==
    ASSUME DurableInv, OrderInv', conn = Down,
           NEW c \in Clients, NEW start \in 0..log,
           BeginReplay(c, start), conn' = [who |-> c, phase |-> "replay"],
           \/ client' = client /\ start = 0
           \/ client[c].cursor = 0 /\ client' = [client EXCEPT ![c].recs = 1..start],
           UNCHANGED <<log, pending, latest, outbox>>
    PROVE DurableInv'
<1>1. OrderInv
  BY DEF DurableInv
<1>2. /\ log \in Nat /\ start \in Nat /\ start <= log
      /\ \A d \in Clients : client[d].cursor \in Nat
      /\ conn' # Down /\ conn'.who = c
  BY <1>1, ViewsTyped DEF Down
<1>3. /\ \A d \in Clients : client'[d].cursor = client[d].cursor
      /\ \A d \in Clients : client'[d].recs = client[d].recs \/ client'[d].recs = 1..start
      /\ Covers(client[c].cursor) => client' = client
      /\ client'[c].recs = 1..start \/ start = 0
  <2>1. CASE client' = client /\ start = 0
    BY <2>1
  <2>2. CASE client[c].cursor = 0 /\ client' = [client EXCEPT ![c].recs = 1..start]
    <3>1. Types
      BY <1>1 DEF OrderInv
    <3>2. client' = [client EXCEPT ![c].recs = 1..start]
      BY <2>2
    <3>3. \A d \in Clients :
             /\ client'[d].cursor = client[d].cursor
             /\ client'[d].recs = IF d = c THEN 1..start ELSE client[d].recs
      BY ONLY <3>1, <3>2, AttachFreshIs, c \in Clients, start \in 0..log
    <3>4. ~Covers(client[c].cursor)
      BY <2>2 DEF Covers
    <3> QED BY <3>3, <3>4
  <2> QED BY <2>1, <2>2
<1>4. \A i \in 1..start : i \in 1..log
  BY <1>2
<1>5. \A d \in Clients : client'[d].recs \subseteq 1..log
  BY <1>3, <1>4 DEF DurableInv, Durable
<1>6. outbox = << >> /\ outbox' = << >> /\ Range(<< >>) = {}
  BY <1>1 DEF OrderInv, InLine, Range
<1>7. UnderWay' = Range(opening')
  BY <1>6 DEF UnderWay
<1>8. CASE /\ Covers(client[c].cursor)
           /\ \A f : f \in Range(opening') <=>
                 /\ client[c].cursor < f.seq
                 /\ \/ f \in window
                    \/ \E a \in Agents : f = latest[a] /\ latest[a] # NoFrame
           /\ held' = << >> /\ UNCHANGED <<pos, window, floor, skipped>>
  <2>1. client' = client
    BY <1>3, <1>8
  <2>2. ASSUME NEW f \in UnderWay' PROVE f \in window \/ f.payload.kind = "status"
    BY <1>1, <1>7, <1>8 DEF OrderInv, Numbered
  <2>3. \A f \in window : client[c].cursor < f.seq => f \in UnderWay'
    BY <1>7, <1>8
  <2>4. Durable'
    BY <1>5, <1>6, <1>8, <2>2 DEF DurableInv, Durable
  <2>5. WindowSent'
    BY <1>2, <1>8, <2>1, <2>2, <2>3 DEF WindowSent, Retainable
  <2>0. pos' = pos /\ window' = window /\ floor' = floor /\ skipped' = skipped
    BY <1>8
  <2>6. RecordKept'
    BY <2>0, <2>1 DEF DurableInv, RecordKept, Covers
  <2>7. RecordSent'
    <3>1. ASSUME NEW i \in 1..pos
          PROVE \/ i <= skipped[c] \/ i \in client[c].recs
                \/ \E f \in UnderWay' : f.payload = Rec(i)
      <4>1. \/ i <= skipped[c] \/ i \in client[c].recs
            \/ \E f \in window : f.payload = Rec(i) /\ client[c].cursor < f.seq
        BY <1>8 DEF DurableInv, RecordKept
      <4> QED BY <2>3, <4>1
    <3> QED BY <1>2, <2>0, <2>1, <3>1 DEF RecordSent
  <2> QED BY <2>4, <2>5, <2>6, <2>7 DEF DurableInv
<1>9. CASE /\ ~Covers(client[c].cursor)
           /\ opening' = << >>
           /\ \A p : p \in Range(held') <=>
                 \/ \E f \in window : IsNote(f.payload) /\ p = f.payload
                 \/ \E a \in Agents : latest[a] # NoFrame /\ p = latest[a].payload
           /\ pos' = start /\ window' = {} /\ floor' = 0
           /\ skipped' = [d \in Clients |-> IF d = c THEN 0 ELSE start]
  <2>1. UnderWay' = {}
    BY <1>6, <1>7, <1>9
  <2>2. \A p \in Range(held') : p.kind # "rec"
    BY <1>1, <1>9 DEF OrderInv, Numbered, IsNote
  <2>3. Durable'
    BY <1>5, <1>9, <2>1, <2>2 DEF DurableInv, Durable
  <2>4. \A i \in 1..pos' : i \in client'[c].recs
    BY <1>2, <1>3, <1>9
  <2>5. \A d \in Clients : \A i \in 1..pos' : d = c \/ i <= skipped'[d]
    BY <1>2, <1>9
  <2>6. WindowSent' /\ RecordSent'
    BY <1>2, <1>9, <2>1, <2>4 DEF WindowSent, RecordSent
  <2>7. RecordKept'
    BY <2>4, <2>5 DEF RecordKept
  <2> QED BY <2>3, <2>6, <2>7 DEF DurableInv
<1> QED BY <1>1, <1>8, <1>9, BeginReplayIs

\* A frame reaches the client: a record of it is received, and the cursor passes
\* no frame of the window that did not go to the client.
LEMMA SendDurable ==
    ASSUME DurableInv, OrderInv', Send PROVE DurableInv'
<1>1. OrderInv
  BY DEF DurableInv
<1>2. PICK h \in Frames : h = Head(outbox)
  BY <1>1, SendIs
<1>3. PICK w \in Clients : w = conn.who
  BY <1>1, SendIs
<1>4. /\ conn # Down /\ UnderWay = {h} \cup UnderWay'
      /\ \A f \in UnderWay' : h.seq < f.seq
      /\ client'[w].cursor = h.seq /\ client[w].cursor < h.seq
      /\ client'[w].recs = IF h.payload.kind = "rec" THEN client[w].recs \cup {h.payload.n}
                           ELSE client[w].recs
  BY <1>1, <1>2, <1>3, SendIs
<1>5. /\ UNCHANGED <<log, nextSeq, pos, pending, ephemerals, window, floor, latest>>
      /\ UNCHANGED <<conn, wake, held, notices, version, changes, lost, skipped, halted>>
  BY <1>1, SendIs
<1>6. /\ \A c \in Clients : client[c].cursor \in Nat
      /\ window \subseteq Frames /\ UnderWay \subseteq Frames
      /\ \A f \in Frames : f.seq \in Nat /\ f.payload \in Payload /\ f.payload.n \in Nat
      /\ log \in Nat /\ pos \in Nat /\ pos <= log /\ floor \in Nat
  BY <1>1, ViewsTyped DEF OrderInv, Types
<1>7. \A d \in Clients : d # w => client'[d] = client[d]
  BY <1>1, <1>3, SendIs
<1>8. client[w].recs \subseteq client'[w].recs
  BY <1>4
<1>9. Durable'
  <2>1. h.payload.kind = "rec" => h.payload.n \in 1..pos
    BY <1>4 DEF DurableInv, Durable
  <2>2. \A i \in 1..pos : i \in 1..log
    BY <1>6
  <2>3. client'[w].recs \subseteq 1..log
    BY <1>4, <2>1, <2>2 DEF DurableInv, Durable
  <2> QED BY <1>4, <1>5, <1>7, <2>3 DEF DurableInv, Durable
<1>10. WindowSent'
  <2>1. ASSUME NEW f \in window, h.seq < f.seq PROVE f \in UnderWay'
    <3>1. client[w].cursor < f.seq
      BY <1>4, <1>6, <2>1
    <3>2. f \in UnderWay
      BY <1>3, <1>4, <3>1 DEF DurableInv, WindowSent
    <3>3. f # h
      BY <1>6, <2>1
    <3> QED BY <1>4, <3>2, <3>3
  <2> QED BY <1>3, <1>4, <1>5, <2>1 DEF DurableInv, WindowSent
<1>11. ASSUME NEW i \in 1..pos
       PROVE \/ i <= skipped[w] \/ i \in client'[w].recs
             \/ \E f \in UnderWay' : f.payload = Rec(i)
  <2>1. CASE i \in client[w].recs
    BY <1>8, <2>1
  <2>2. ASSUME NEW f \in UnderWay, f.payload = Rec(i)
        PROVE i \in client'[w].recs \/ \E g \in UnderWay' : g.payload = Rec(i)
    <3>1. CASE f = h
      <4>1. h.payload.kind = "rec" /\ h.payload.n = i
        BY <2>2, <3>1, PayloadsAre
      <4> QED BY <1>4, <4>1
    <3>2. CASE f # h
      BY <1>4, <2>2, <3>2
    <3> QED BY <3>1, <3>2
  <2> QED BY <1>3, <1>4, <2>1, <2>2 DEF DurableInv, RecordSent
<1>12. RecordSent'
  BY <1>3, <1>5, <1>11 DEF RecordSent
<1>13. RecordKept'
  <2>0. ASSUME NEW d \in Clients, d # w, Covers(client[d].cursor)', NEW i \in 1..pos
        PROVE \/ i <= skipped[d] \/ i \in client'[d].recs
              \/ \E f \in window : f.payload = Rec(i) /\ client'[d].cursor < f.seq
    <3>1. client'[d] = client[d] /\ Covers(client[d].cursor)
      BY <1>5, <1>7, <2>0 DEF Covers
    <3> QED BY <3>1 DEF DurableInv, RecordKept
  <2> SUFFICES ASSUME Covers(client[w].cursor)', NEW i \in 1..pos
               PROVE \/ i <= skipped[w] \/ i \in client'[w].recs
                     \/ \E f \in window : f.payload = Rec(i) /\ h.seq < f.seq
    BY <1>4, <1>5, <2>0 DEF RecordKept
  <2>1. h.seq # 0 /\ (floor = 0 \/ h.seq >= floor)
    BY <1>4, <1>5 DEF Covers
  <2>2. CASE i <= skipped[w] \/ i \in client'[w].recs
    BY <2>2
  <2>3. ASSUME NEW f \in UnderWay', f.payload = Rec(i)
        PROVE \E g \in window : g.payload = Rec(i) /\ h.seq < g.seq
    <3>1. Retainable(f)
      BY <1>6, <2>3, PayloadsAre DEF Retainable
    <3>2. h.seq < f.seq /\ f \in UnderWay /\ f.seq \in Nat
      BY <1>4, <1>6
    <3>3. f \in window \/ f.seq <= floor
      BY <1>4, <3>1, <3>2 DEF DurableInv, WindowSent
    <3>4. ~(f.seq <= floor)
      BY <1>6, <2>1, <3>2
    <3> QED BY <2>3, <3>2, <3>3, <3>4
  <2> QED BY <1>11, <2>2, <2>3
<1> QED BY <1>9, <1>10, <1>12, <1>13 DEF DurableInv

\* The connection is gone: what the client misses is in the window, or its cursor
\* is not covered.
LEMMA DisconnectDurable ==
    ASSUME DurableInv, OrderInv', Disconnect PROVE DurableInv'
<1>1. /\ conn' = Down /\ outbox' = << >> /\ held' = << >>
      /\ UNCHANGED <<log, nextSeq, pos, pending, ephemerals, window, floor, latest>>
      /\ UNCHANGED <<opening, client, notices, version, changes, skipped>>
  BY DEF Disconnect, state
<1>2. Range(<< >>) = {}
  BY DEF Range
<1>3. UnderWay' \subseteq UnderWay
  BY <1>1, <1>2 DEF UnderWay
<1>4. Durable'
  BY <1>1, <1>2, <1>3 DEF DurableInv, Durable
<1>5. WindowSent' /\ RecordSent'
  BY <1>1 DEF WindowSent, RecordSent
<1>6. RecordKept'
  BY <1>1 DEF DurableInv, RecordKept, Covers
<1> QED BY <1>4, <1>5, <1>6 DEF DurableInv

\* A reset starts over, for the client as well.
LEMMA ResetDurable ==
    ASSUME DurableInv, OrderInv', ResetSequencer PROVE DurableInv'
<1>1. OrderInv
  BY DEF DurableInv
<1>2. /\ conn.who \in Clients /\ outbox = << >> /\ opening = << >> /\ held = << >>
      /\ log' = 1 /\ pos' = 0 /\ pending' = << >> /\ window' = {}
      /\ UNCHANGED <<conn, opening, held, outbox>>
  BY <1>1, ResetIs
<1>3. UnderWay' = {} /\ Range(<< >>) = {} /\ 1..pos' = {}
  BY <1>2 DEF UnderWay, Range
<1>4. \A c \in Clients : client'[c].recs = {}
  BY <1>1, ResetIs
<1>5. Durable'
  BY <1>2, <1>3, <1>4 DEF Durable
<1>6. WindowSent' /\ RecordSent' /\ RecordKept'
  BY <1>2, <1>3 DEF WindowSent, RecordSent, RecordKept
<1> QED BY <1>5, <1>6 DEF DurableInv

\* The server wakes: only the phase of its connection changes.
LEMMA WokenDurable ==
    ASSUME DurableInv, OrderInv', Wake \/ LegEnds PROVE DurableInv'
<1>1. OrderInv
  BY DEF DurableInv
<1>2. /\ conn' = [who |-> conn.who, phase |-> "flush"] /\ conn # Down
      /\ UNCHANGED <<log, pos, pending, window, floor, opening, held, outbox, client, skipped>>
  BY <1>1, WokenIs
<1>3. conn'.who = conn.who /\ UnderWay' = UnderWay
  BY <1>2 DEF UnderWay
<1>4. Durable'
  BY <1>2, <1>3 DEF DurableInv, Durable
<1>5. WindowSent' /\ RecordSent' /\ RecordKept'
  BY <1>2, <1>3 DEF DurableInv, WindowSent, RecordSent, RecordKept, Covers
<1> QED BY <1>4, <1>5 DEF DurableInv

\* The payloads that wait after a producer's step carry no record.
LEMMA EnqueueDurable ==
    ASSUME DurableInv, OrderInv',
           \/ AppendRecord \/ EnqueueReliable \/ EnqueueEphemeral
           \/ \E a \in Agents : EnqueueStatus(a)
    PROVE DurableInv'
<1>1. OrderInv /\ pending \in Seq(Payload) /\ log \in Nat /\ notices \in Nat
      /\ \A p \in Range(pending) : p.kind # "rec"
  BY DEF DurableInv, Durable, OrderInv, Types, TypeOK
<1>2. CASE AppendRecord
  <2>1. log <= log' /\ log' \in Nat /\ \A p \in Range(pending') : p.kind # "rec"
    BY <1>1, <1>2 DEF AppendRecord
  <2> QED BY <1>2, <2>1, ProducerDurable DEF AppendRecord, history
<1>3. CASE EnqueueReliable
  <2>1. notices + 1 \in Nat
    BY <1>1
  <2>2. Range(pending') = Range(pending) \cup {Note(notices + 1)}
    BY <1>1, <1>3, <2>1, PayloadsAre, RangeAppend DEF EnqueueReliable
  <2>3. log <= log' /\ log' \in Nat /\ \A p \in Range(pending') : p.kind # "rec"
    BY <1>1, <1>3, <2>1, <2>2, PayloadsAre DEF EnqueueReliable
  <2> QED BY <1>3, <2>3, ProducerDurable DEF EnqueueReliable, history
<1>4. CASE EnqueueEphemeral
  <2>1. Range(pending') = Range(pending) \cup {Ephemeral}
    BY <1>1, <1>4, PayloadsAre, RangeAppend DEF EnqueueEphemeral
  <2>2. log <= log' /\ log' \in Nat /\ \A p \in Range(pending') : p.kind # "rec"
    BY <1>1, <1>4, <2>1, PayloadsAre DEF EnqueueEphemeral
  <2> QED BY <1>4, <2>2, ProducerDurable DEF EnqueueEphemeral, history
<1>5. ASSUME NEW a \in Agents, EnqueueStatus(a) PROVE DurableInv'
  <2>1. version[a] + 1 \in Nat
    BY <1>1, <1>5, EnqueueStatusIs DEF OrderInv
  <2>2. Range(pending') \subseteq Range(pending) \cup {Status(a, version[a] + 1)}
    BY <1>1, <1>5, EnqueueStatusWaits DEF OrderInv
  <2>3. Status(a, version[a] + 1).kind = "status"
    BY <2>1, PayloadsAre
  <2>4. \A p \in Range(pending') : p.kind # "rec"
    BY <1>1, <2>2, <2>3
  <2>5. log <= log' /\ log' \in Nat
    BY <1>1, <1>5 DEF EnqueueStatus
  <2> QED BY <1>5, <2>4, <2>5, ProducerDurable DEF EnqueueStatus, history
<1> QED BY <1>2, <1>3, <1>4, <1>5

\* Every step keeps the records.
LEMMA StepDurable == DurableInv /\ [Next]_vars => DurableInv'
<1> SUFFICES ASSUME DurableInv, [Next]_vars PROVE DurableInv'
  OBVIOUS
<1>1. OrderInv /\ OrderInv'
  BY StepOrdered DEF DurableInv
<1>2. Range(<< >>) = {} /\ \A p \in Range(pending) \cup Range(held) : p.kind # "rec"
  BY DEF DurableInv, Durable, Range
<1>3. ASSUME NEW c \in Clients, Reconnect(c) PROVE DurableInv'
  <2>1. 0 \in 0..log
    BY <1>1, ViewsTyped
  <2> QED BY <1>1, <1>3, <2>1, AttachDurable DEF Reconnect
<1>4. ASSUME NEW c \in Clients, AttachFresh(c) PROVE DurableInv'
  <2>1. PICK start \in 0..log :
           BeginReplay(c, start) /\ client' = [client EXCEPT ![c].recs = 1..start]
    BY <1>4 DEF AttachFresh
  <2> QED BY <1>1, <1>4, <2>1, AttachDurable DEF AttachFresh
<1>5. CASE ReplayBatch
  <2>1. PICK n \in Rounds :
           \/ Batched(n, << >>) /\ held' = held /\ conn' = conn
           \/ /\ Batched(n, held) /\ held' = << >>
              /\ conn' = [who |-> conn.who, phase |-> "flush"]
    BY <1>1, <1>5, ReplayBatchIs
  <2>2. pending' = pending
    BY <1>1, <1>5, ReplayBatchIs
  <2> QED BY <1>1, <1>2, <2>1, <2>2, BatchedDurable
<1>6. CASE Flush
  <2>1. PICK n \in Rounds :
           \/ Batched(n, << >>) /\ pending' = pending
           \/ Batched(n, pending) /\ pending' = << >>
    BY <1>1, <1>6, FlushIs
  <2>2. held' = held
    BY <1>1, <1>6, FlushIs
  <2> QED BY <1>1, <1>2, <2>1, <2>2, BatchedDurable
<1>7. CASE UNCHANGED vars
  <2>1. /\ UNCHANGED <<pos, window, floor, conn, opening, held, outbox, client, skipped>>
        /\ log' = log /\ pending' = pending /\ log \in Nat
    BY <1>1, <1>7, ViewsTyped DEF vars, state, history
  <2>2. log <= log' /\ log' \in Nat /\ \A p \in Range(pending') : p.kind # "rec"
    BY <1>2, <2>1
  <2> QED BY <1>1, <2>1, <2>2, ProducerDurable
<1> QED BY <1>1, <1>3, <1>4, <1>5, <1>6, <1>7, EnqueueDurable, SendDurable,
           DisconnectDurable, ResetDurable, WokenDurable DEF Next

\* A session that starts has nothing to deliver.
LEMMA InitDurable == Init => DurableInv
<1> SUFFICES ASSUME Init PROVE DurableInv
  OBVIOUS
<1>1. Range(<< >>) = {}
  BY DEF Range
<1>2. Fresh.recs = {} /\ Fresh.cursor = 0
  BY DEF Fresh
<1>3. Durable
  BY <1>1, <1>2 DEF Init, Durable, UnderWay
<1>4. WindowSent /\ RecordSent /\ RecordKept
  BY <1>2 DEF Init, WindowSent, RecordSent, RecordKept, Covers
<1> QED BY <1>3, <1>4, InitOrdered DEF DurableInv

\* It holds of every behaviour.
LEMMA DurableInvariant == Spec => []DurableInv
  BY InitDurable, StepDurable, PTL DEF Spec

\* For every window, batch and log and any number of frontends: a client holds
\* every durable record once its server has nothing left to send, wherever a page
\* could not be read, a connection failed, a replay was cut off or the log was
\* reset, except records below the start of another frontend's fresh attach.
THEOREM RecordsDelivered == Spec => []DurableDelivered
<1>1. DurableInv => DurableDelivered
  <2> SUFFICES ASSUME DurableInv, CaughtUp
               PROVE \A n \in 1..log : n \in client[conn.who].recs \/ n <= skipped[conn.who]
    BY DEF DurableDelivered
  <2>1. conn # Down /\ outbox = << >> /\ opening = << >> /\ pos = log
    BY DEF CaughtUp, Down, DurableInv, OrderInv, InLine
  <2>2. UnderWay = {}
    BY <2>1 DEF UnderWay, Range
  <2>3. conn.who \in Clients
    BY <2>1, ViewsTyped DEF DurableInv
  <2> QED BY <2>1, <2>2, <2>3 DEF DurableInv, RecordSent, Durable
<1> QED BY <1>1, DurableInvariant, PTL

-----------------------------------------------------------------------------
(* What only memory holds reaches the client, or is lost.                  *)

\* The types the steps below use, of one state.
LEMMA MemoryTyped ==
    ASSUME OrderInv
    PROVE /\ latest \in [Agents -> Frames] /\ version \in [Agents -> Nat]
          /\ notices \in Nat /\ lost \subseteq Payload
          /\ pending \in Seq(Payload) /\ held \in Seq(Payload) /\ DOMAIN pending = 1..Len(pending)
          /\ \A a \in Agents : latest[a].seq \in Nat /\ latest[a].payload \in Payload
          /\ \A a \in Agents : latest[a] # NoFrame =>
                latest[a].payload.kind = "status" /\ latest[a].payload.agent = a
          /\ \A a \in Agents, f \in window : f.payload.agent # a
          /\ \A a \in Agents : NoFrame.payload.agent # a
<1>1. /\ latest \in [Agents -> Frames] /\ version \in [Agents -> Nat]
      /\ notices \in Nat /\ lost \subseteq Payload
      /\ pending \in Seq(Payload) /\ held \in Seq(Payload)
  BY DEF OrderInv, Types, TypeOK
<1>2. \A a \in Agents : latest[a].seq \in Nat /\ latest[a].payload \in Payload
  BY <1>1 DEF Frames
<1>3. \A a \in Agents : latest[a] # NoFrame =>
         latest[a].payload.kind = "status" /\ latest[a].payload.agent = a
  BY DEF OrderInv, Numbered
<1>4. \A a \in Agents, f \in window : f.payload.agent # a
  BY DEF OrderInv, Numbered, Retainable, Formed
<1>5. \A a \in Agents : NoFrame.payload.agent # a
  BY ConstantsAssumption DEF NoFrame, Frame, Ephemeral
<1>6. DOMAIN pending = 1..Len(pending)
  BY <1>1
<1> QED BY <1>1, <1>2, <1>3, <1>4, <1>5, <1>6

\* A batch takes what waits, or what a replay kept aside, or neither.
BatchTakes(more) ==
    \/ more = << >> /\ held' = held /\ pending' = pending
    \/ more = held /\ held' = << >> /\ pending' = pending
    \/ more = pending /\ held = << >> /\ held' = << >> /\ pending' = << >>

\* A batch: the notices it takes enter the window.
LEMMA BatchedNotices ==
    ASSUME MemoryInv, NEW n, NEW more, Batched(n, more), BatchTakes(more)
    PROVE NoticeKept'
<1>1. OrderInv
  BY DEF MemoryInv, DurableInv
<1>2. PICK F : Added(F, n, more)
  BY <1>1, BatchAdds
<1>3. client' = client /\ notices' = notices
  BY DEF Batched
<1>4. /\ \A f \in F : \A c \in Clients : client[c].cursor < f.seq
      /\ \A p \in Range(more) : \E f \in F : f.payload = p
      /\ \A f \in window \cup F :
            IsNote(f.payload) => f \in window' \/ f.payload \in lost'
      /\ \A p \in lost : p \in lost' \/ \E f \in F : f.payload = p
  BY <1>2 DEF Added
<1>5. notices \in Nat
  BY <1>1, MemoryTyped
<1> SUFFICES ASSUME NEW c \in Clients, NEW m \in 1..notices, Note(m) \notin lost'
             PROVE \/ m \in client[c].notes
                   \/ Note(m) \in Range(pending') \cup Range(held')
                   \/ \E f \in window' : f.payload = Note(m) /\ client[c].cursor < f.seq
  BY <1>3 DEF NoticeKept
<1>6. Note(m).kind = "note" /\ Note(m).n = m
  BY <1>5, PayloadsAre
<1>7. \/ m \in client[c].notes
      \/ Note(m) \in Range(pending) \cup Range(held) \cup lost
      \/ \E f \in window : f.payload = Note(m) /\ client[c].cursor < f.seq
  BY DEF MemoryInv, NoticeKept
<1>8. ASSUME NEW f \in window \cup F, f.payload = Note(m), client[c].cursor < f.seq
      PROVE f \in window'
  BY <1>4, <1>6, <1>8 DEF IsNote
<1>9. ASSUME NEW f \in F, f.payload = Note(m)
      PROVE \E g \in window' : g.payload = Note(m) /\ client[c].cursor < g.seq
  BY <1>4, <1>8, <1>9
<1>10. ASSUME Note(m) \in Range(more) \/ Note(m) \in lost
       PROVE \E f \in window' : f.payload = Note(m) /\ client[c].cursor < f.seq
  BY <1>4, <1>9, <1>10
<1>11. Range(<< >>) = {}
  BY DEF Range
<1>12. ASSUME Note(m) \in Range(pending) \cup Range(held), Note(m) \notin Range(more)
       PROVE Note(m) \in Range(pending') \cup Range(held')
  BY <1>11, <1>12 DEF BatchTakes
<1> QED BY <1>7, <1>8, <1>10, <1>12

\* A batch: a status it takes is the newest one of its agent.
LEMMA BatchedStatusFrom ==
    ASSUME MemoryInv, NEW n, NEW more, Batched(n, more), BatchTakes(more),
           NEW a \in Agents, NEW p, p.agent = a,
           p \in Range(more) \/ \E i \in (pos + 1)..(pos + n) : p = Rec(i)
    PROVE /\ p \in Range(more)
          /\ \/ more = pending /\ p = Status(a, version[a])
             \/ more = held /\ latest[a] # NoFrame /\ p = latest[a].payload
<1>1. OrderInv
  BY DEF MemoryInv, DurableInv
<1>2. n \in Nat /\ pos \in Nat
  BY <1>1, BatchAdds
<1>3. p \in Range(more)
  <2>1. ASSUME NEW i \in (pos + 1)..(pos + n), p = Rec(i) PROVE FALSE
    <3>1. i \in Nat
      BY <1>2
    <3> QED BY <2>1, <3>1, PayloadsAre, ConstantsAssumption
  <2> QED BY <2>1
<1>4. more # << >>
  BY <1>3 DEF Range
<1>5. CASE more = held
  BY <1>3, <1>5 DEF MemoryInv, StatusHeld
<1>6. CASE more = pending
  <2>1. PICK i \in DOMAIN pending : pending[i] = p
    BY <1>1, <1>3, <1>6, MemoryTyped, RangeIs
  <2> QED BY <1>3, <1>6, <2>1 DEF MemoryInv, StatusHeld
<1> QED BY <1>4, <1>5, <1>6 DEF BatchTakes

\* A batch keeps the newest status of every agent.
LEMMA BatchedStatus ==
    ASSUME MemoryInv, NEW n, NEW more, Batched(n, more), BatchTakes(more), NEW a \in Agents
    PROVE StatusHeld(a)' /\ StatusShown(a)'
<1>1. OrderInv
  BY DEF MemoryInv, DurableInv
<1>2. PICK F : Added(F, n, more)
  BY <1>1, BatchAdds
<1>3. /\ conn # Down /\ conn' # Down /\ conn'.who = conn.who
      /\ client' = client /\ version' = version
  BY DEF Batched
<1>4. /\ UnderWay' = UnderWay \cup F
      /\ \A f \in F : \A c \in Clients : client[c].cursor < f.seq
      /\ \A f \in F :
           f.payload \in Range(more) \/ \E i \in (pos + 1)..(pos + n) : f.payload = Rec(i)
      /\ \A p \in Range(more) : \E f \in F : f.payload = p
      /\ \A p \in lost : p \in lost' \/ \E f \in F : f.payload = p
  BY <1>2 DEF Added
<1>5. \/ /\ latest'[a] = latest[a]
         /\ \A f \in F : f.payload.agent # a
      \/ /\ latest'[a] \in F /\ latest'[a].payload.agent = a
         /\ \A f \in F : f.payload.agent = a => f = latest'[a] \/ f.seq < latest'[a].seq
         /\ \A f \in UnderWay : f.seq < latest'[a].seq
  BY <1>2 DEF Added
<1>6. Range(<< >>) = {} /\ DOMAIN << >> = {}
  BY DEF Range
<1>7. StatusHeld(a) /\ StatusShown(a)
  BY DEF MemoryInv
<1>8. NoFrame.payload.agent # a /\ (latest[a] # NoFrame => latest[a].payload.agent = a)
  BY <1>1, MemoryTyped
<1>9. \A i \in DOMAIN pending' : pending'[i].agent = a =>
         /\ pending'[i] = Status(a, version'[a])
         /\ \A j \in DOMAIN pending' : pending'[j].agent = a => i = j
  <2>1. pending' = pending \/ pending' = << >>
    BY DEF BatchTakes
  <2> QED BY <1>3, <1>6, <1>7, <2>1 DEF StatusHeld
<1>10. CASE latest'[a] = latest[a] /\ \A f \in F : f.payload.agent # a
  <2>1. \A p \in Range(more) : p.agent # a
    BY <1>4, <1>10
  <2>2. Status(a, version[a]).agent = a
    BY <1>1, MemoryTyped, PayloadsAre
  <2>3. \/ Status(a, version[a]) \in Range(pending')
        \/ (latest[a] = NoFrame /\ version[a] = 0)
        \/ latest[a].payload = Status(a, version[a])
    <3>1. Status(a, version[a]) \in Range(pending) => Status(a, version[a]) \in Range(pending')
      BY <2>1, <2>2 DEF BatchTakes
    <3> QED BY <1>7, <3>1 DEF StatusHeld
  <2>4. \A p \in Range(held') : p \in Range(held)
    BY <1>6 DEF BatchTakes
  <2>5. \A f \in UnderWay' : f.payload.agent = a =>
           latest[a] # NoFrame /\ (f = latest[a] \/ f.seq < latest[a].seq)
    BY <1>4, <1>7, <1>10 DEF StatusHeld
  <2>6. StatusHeld(a)'
    BY <1>3, <1>7, <1>9, <1>10, <2>3, <2>4, <2>5 DEF StatusHeld
  <2>7. latest[a] # NoFrame /\ latest[a].payload \in Range(held) \cup lost
           => latest[a].payload \in Range(held') \cup lost'
    <3>1. ASSUME latest[a] # NoFrame, latest[a].payload \in lost
          PROVE latest[a].payload \in lost'
      BY <1>4, <1>8, <1>10, <3>1
    <3>2. ASSUME latest[a] # NoFrame, latest[a].payload \in Range(held)
          PROVE latest[a].payload \in Range(held')
      BY <1>8, <2>1, <3>2 DEF BatchTakes
    <3> QED BY <3>1, <3>2
  <2>8. StatusShown(a)'
    BY <1>3, <1>4, <1>7, <1>10, <2>7 DEF StatusShown
  <2> QED BY <2>6, <2>8
<1>11. CASE /\ latest'[a] \in F /\ latest'[a].payload.agent = a
            /\ \A f \in F : f.payload.agent = a => f = latest'[a] \/ f.seq < latest'[a].seq
            /\ \A f \in UnderWay : f.seq < latest'[a].seq
  <2>1. PICK p : p = latest'[a].payload
    OBVIOUS
  <2>2. /\ p \in Range(more)
        /\ \/ more = pending /\ p = Status(a, version[a])
           \/ more = held /\ latest[a] # NoFrame /\ p = latest[a].payload
    <3>1. p.agent = a
      BY <1>11, <2>1
    <3>2. p \in Range(more) \/ \E i \in (pos + 1)..(pos + n) : p = Rec(i)
      BY <1>4, <1>11, <2>1
    <3> QED BY <3>1, <3>2, BatchedStatusFrom
  <2>3. latest'[a] # NoFrame
    BY <1>8, <1>11
  <2>4. held' = << >>
    <3>1. more # << >>
      BY <1>6, <2>2
    <3> QED BY <3>1 DEF BatchTakes
  <2>5. \/ Status(a, version[a]) \in Range(pending')
        \/ p = Status(a, version[a])
    <3>1. CASE more = pending /\ p = Status(a, version[a])
      BY <3>1
    <3>2. CASE more = held /\ latest[a] # NoFrame /\ p = latest[a].payload
      <4>1. pending' = pending
        <5>1. more # << >>
          BY <1>6, <2>2
        <5> QED BY <3>2, <5>1 DEF BatchTakes
      <4> QED BY <1>7, <3>2, <4>1 DEF StatusHeld
    <3> QED BY <2>2, <3>1, <3>2
  <2>6. \A f \in UnderWay' : f.payload.agent = a => f = latest'[a] \/ f.seq < latest'[a].seq
    BY <1>4, <1>11
  <2>7. StatusHeld(a)'
    BY <1>3, <1>6, <1>9, <2>1, <2>3, <2>4, <2>5, <2>6 DEF StatusHeld
  <2>8. StatusShown(a)'
    BY <1>3, <1>4, <1>11, <2>3 DEF StatusShown
  <2> QED BY <2>7, <2>8
<1> QED BY <1>5, <1>10, <1>11

\* A producer's step that adds one payload of no agent, or none.
LEMMA ProducerMemory ==
    ASSUME MemoryInv, DurableInv', NEW p \in Payload, p.agent = NoAgent,
           \/ pending' = pending /\ notices' = notices
           \/ pending' = Append(pending, p) /\ notices' = notices
           \/ pending' = Append(pending, p) /\ notices' = notices + 1 /\ p = Note(notices + 1),
           UNCHANGED <<window, latest, conn, opening, held, outbox, client, version, lost>>
    PROVE MemoryInv'
<1>1. OrderInv
  BY DEF MemoryInv, DurableInv
<1>2. pending \in Seq(Payload) /\ notices \in Nat /\ DOMAIN pending = 1..Len(pending)
  BY <1>1, MemoryTyped
<1>3. Range(Append(pending, p)) = Range(pending) \cup {p}
  BY <1>2, RangeAppend
<1>4. /\ Len(pending) \in Nat /\ DOMAIN Append(pending, p) = 1..(Len(pending) + 1)
      /\ \A i \in 1..Len(pending) : Append(pending, p)[i] = pending[i]
      /\ Append(pending, p)[Len(pending) + 1] = p
  BY <1>2
<1>5. \A i \in DOMAIN Append(pending, p) :
         Append(pending, p)[i].agent # NoAgent =>
           i \in DOMAIN pending /\ Append(pending, p)[i] = pending[i]
  <2>1. \A i \in 1..(Len(pending) + 1) : i \in 1..Len(pending) \/ i = Len(pending) + 1
    BY <1>4
  <2> QED BY <1>2, <1>4, <2>1
<1>6. Range(pending) \subseteq Range(pending')
  BY <1>3
<1>7. NoticeKept'
  <2>1. ASSUME NEW c \in Clients, NEW m \in 1..notices', Note(m) \notin lost
        PROVE \/ m \in client[c].notes
              \/ Note(m) \in Range(pending') \cup Range(held)
              \/ \E f \in window : f.payload = Note(m) /\ client[c].cursor < f.seq
    <3>1. CASE m \in 1..notices
      BY <1>6, <2>1, <3>1 DEF MemoryInv, NoticeKept
    <3>2. CASE m \notin 1..notices
      <4>1. m = notices + 1 /\ notices' = notices + 1
        BY <1>2, <3>2
      <4>2. notices' # notices
        BY <1>2, <4>1
      <4> QED BY <1>3, <4>1, <4>2
    <3> QED BY <3>1, <3>2
  <2> QED BY <2>1 DEF NoticeKept
<1>8. ASSUME NEW a \in Agents PROVE StatusHeld(a)' /\ StatusShown(a)'
  <2>1. StatusHeld(a) /\ StatusShown(a) /\ a # NoAgent
    BY ConstantsAssumption DEF MemoryInv
  <2>2. \A i \in DOMAIN pending' : pending'[i].agent = a =>
           i \in DOMAIN pending /\ pending'[i] = pending[i]
    BY <1>5, <2>1
  <2>3. UnderWay' = UnderWay
    BY DEF UnderWay
  <2>4. StatusHeld(a)'
    BY <1>6, <2>1, <2>2, <2>3 DEF StatusHeld
  <2>5. StatusShown(a)'
    BY <2>1, <2>3 DEF StatusShown
  <2> QED BY <2>4, <2>5
<1> QED BY <1>7, <1>8 DEF MemoryInv

\* The entries of the other agents keep waiting, each once, and of the agent
\* itself only the new status waits.
LEMMA EnqueueStatusOne ==
    ASSUME MemoryInv, NEW a \in Agents, EnqueueStatus(a)
    PROVE /\ \A p \in Range(pending) : p.agent # a => p \in Range(pending')
          /\ Status(a, version[a] + 1) \in Range(pending')
          /\ \A i \in DOMAIN pending' :
                /\ pending'[i].agent = a => pending'[i] = Status(a, version[a] + 1)
                /\ pending'[i].agent # a => \E j \in DOMAIN pending : pending'[i] = pending[j]
          /\ \A b \in Agents : \A i, j \in DOMAIN pending' :
                pending'[i].agent = b /\ pending'[j].agent = b => i = j
<1>1. OrderInv
  BY DEF MemoryInv, DurableInv
<1>2. /\ pending \in Seq(Payload) /\ DOMAIN pending = 1..Len(pending) /\ Len(pending) \in Nat
  BY <1>1, MemoryTyped
<1>3. PICK s \in Payload : s = Status(a, version[a] + 1) /\ s.agent = a
  BY <1>1, EnqueueStatusIs, PayloadsAre DEF OrderInv
<1>4. PICK others \in Seq(Payload) :
          /\ pending' = Append(others, s)
          /\ \/ others = pending /\ \A i \in 1..Len(pending) : pending[i].agent # a
             \/ \E k \in 1..Len(pending) :
                   /\ pending[k].agent = a /\ Len(others) = Len(pending) - 1
                   /\ \A i \in 1..Len(others) :
                         others[i] = pending[IF i < k THEN i ELSE i + 1]
  BY <1>1, <1>3, EnqueueStatusIs DEF OrderInv
<1>5. /\ Len(others) \in Nat /\ DOMAIN pending' = 1..(Len(others) + 1)
      /\ \A i \in 1..Len(others) : pending'[i] = others[i]
      /\ pending'[Len(others) + 1] = s
      /\ \A i \in 1..(Len(others) + 1) : i \in 1..Len(others) \/ i = Len(others) + 1
  BY <1>4
<1>6. Range(pending') = Range(others) \cup {s}
  BY <1>4, RangeAppend
<1>7. \A b \in Agents : \A i, j \in 1..Len(pending) :
         pending[i].agent = b /\ pending[j].agent = b => i = j
  BY <1>2 DEF MemoryInv, StatusHeld
<1>8. /\ \A i \in 1..Len(others) : others[i].agent # a
      /\ \A p \in Range(pending) : p.agent # a => p \in Range(others)
      /\ \A i \in 1..Len(others) : \E j \in 1..Len(pending) : others[i] = pending[j]
      /\ \A b \in Agents : \A i, j \in 1..Len(others) :
            others[i].agent = b /\ others[j].agent = b => i = j
  <2>1. CASE others = pending /\ \A i \in 1..Len(pending) : pending[i].agent # a
    BY <1>7, <2>1
  <2>2. ASSUME NEW k \in 1..Len(pending),
               pending[k].agent = a, Len(others) = Len(pending) - 1,
               \A i \in 1..Len(others) : others[i] = pending[IF i < k THEN i ELSE i + 1]
        PROVE /\ \A i \in 1..Len(others) : others[i].agent # a
              /\ \A p \in Range(pending) : p.agent # a => p \in Range(others)
              /\ \A i \in 1..Len(others) : \E j \in 1..Len(pending) : others[i] = pending[j]
              /\ \A b \in Agents : \A i, j \in 1..Len(others) :
                    others[i].agent = b /\ others[j].agent = b => i = j
    <3> DEFINE At(i) == IF i < k THEN i ELSE i + 1
    <3>1. \A i \in 1..Len(others) : At(i) \in 1..Len(pending) /\ At(i) # k
      BY <1>2, <2>2
    <3>2. \A i, j \in 1..Len(others) : At(i) = At(j) => i = j
      BY <1>2, <2>2
    <3>3. \A i \in 1..Len(others) : others[i] = pending[At(i)]
      BY <2>2
    <3>4. ASSUME NEW j \in 1..Len(pending), j # k PROVE \E i \in 1..Len(others) : At(i) = j
      <4>1. PICK i : i = IF j < k THEN j ELSE j - 1
        OBVIOUS
      <4>2. i \in 1..Len(others) /\ At(i) = j
        BY <1>2, <2>2, <3>4, <4>1
      <4> QED BY <4>2
    <3> HIDE DEF At
    <3>5. \A i \in 1..Len(others) : others[i].agent # a
      BY <1>7, <2>2, <3>1, <3>3
    <3>6. ASSUME NEW p \in Range(pending), p.agent # a PROVE p \in Range(others)
      <4>1. PICK j \in 1..Len(pending) : pending[j] = p
        BY <1>2, RangeIs
      <4>2. j # k
        BY <2>2, <3>6, <4>1
      <4>3. PICK i \in 1..Len(others) : At(i) = j
        BY <3>4, <4>2
      <4> QED BY <3>3, <4>1, <4>3, RangeIs
    <3>7. \A i \in 1..Len(others) : \E j \in 1..Len(pending) : others[i] = pending[j]
      BY <3>1, <3>3
    <3>8. ASSUME NEW b \in Agents, NEW i \in 1..Len(others), NEW j \in 1..Len(others),
                 others[i].agent = b, others[j].agent = b
          PROVE i = j
      BY <1>7, <3>1, <3>2, <3>3, <3>8
    <3> QED BY <3>5, <3>6, <3>7, <3>8
  <2> QED BY <1>4, <2>1, <2>2
<1>9. /\ \A p \in Range(pending) : p.agent # a => p \in Range(pending')
      /\ s \in Range(pending')
  BY <1>6, <1>8
<1>10. ASSUME NEW i \in DOMAIN pending'
       PROVE /\ pending'[i].agent = a => pending'[i] = s
             /\ pending'[i].agent # a => \E j \in DOMAIN pending : pending'[i] = pending[j]
  BY <1>2, <1>3, <1>5, <1>8
<1>11. ASSUME NEW b \in Agents, NEW i \in DOMAIN pending', NEW j \in DOMAIN pending',
              pending'[i].agent = b, pending'[j].agent = b
       PROVE i = j
  <2>1. CASE b = a
    BY <1>5, <1>8, <1>11, <2>1
  <2>2. CASE b # a
    BY <1>3, <1>5, <1>8, <1>11, <2>2
  <2> QED BY <2>1, <2>2
<1> QED BY <1>3, <1>9, <1>10, <1>11

\* A status comes: it is the newest of its agent, and waits.
LEMMA EnqueueStatusMemory ==
    ASSUME MemoryInv, DurableInv', NEW a \in Agents, EnqueueStatus(a) PROVE MemoryInv'
<1>1. OrderInv
  BY DEF MemoryInv, DurableInv
<1>2. /\ version' = [version EXCEPT ![a] = version[a] + 1]
      /\ UNCHANGED <<window, latest, conn, opening, held, outbox, client, notices, lost>>
  BY <1>1, EnqueueStatusIs DEF EnqueueStatus, OrderInv, history
<1>3. version \in [Agents -> Nat] /\ notices \in Nat
  BY <1>1, MemoryTyped
<1>4. /\ \A p \in Range(pending) : p.agent # a => p \in Range(pending')
      /\ Status(a, version[a] + 1) \in Range(pending')
      /\ \A i \in DOMAIN pending' :
            /\ pending'[i].agent = a => pending'[i] = Status(a, version[a] + 1)
            /\ pending'[i].agent # a => \E j \in DOMAIN pending : pending'[i] = pending[j]
      /\ \A b \in Agents : \A i, j \in DOMAIN pending' :
            pending'[i].agent = b /\ pending'[j].agent = b => i = j
  BY EnqueueStatusOne
<1>5. UnderWay' = UnderWay
  BY <1>2 DEF UnderWay
<1>6. NoticeKept'
  <2>1. \A m \in 1..notices : Note(m).agent # a
    BY <1>3, PayloadsAre, ConstantsAssumption
  <2>2. \A m \in 1..notices : Note(m) \in Range(pending) => Note(m) \in Range(pending')
    BY <1>4, <2>1
  <2> QED BY <1>2, <2>2 DEF MemoryInv, NoticeKept
<1>7. ASSUME NEW b \in Agents PROVE StatusHeld(b)' /\ StatusShown(b)'
  <2>1. StatusHeld(b) /\ StatusShown(b)
    BY DEF MemoryInv
  <2>2. StatusShown(b)'
    BY <1>2, <1>5, <2>1 DEF StatusShown
  <2>3. CASE b = a
    <3>1. version'[a] = version[a] + 1
      BY <1>2, <1>3
    <3> QED BY <1>2, <1>4, <1>5, <2>1, <2>2, <2>3, <3>1 DEF StatusHeld
  <2>4. CASE b # a
    <3>1. version'[b] = version[b]
      BY <1>2, <1>3, <2>4
    <3>2. Status(b, version[b]).agent = b
      BY <1>3, PayloadsAre
    <3>3. Status(b, version[b]) \in Range(pending) => Status(b, version[b]) \in Range(pending')
      BY <1>4, <2>4, <3>2
    <3>4. \A i \in DOMAIN pending' :
             pending'[i].agent = b => pending'[i] = Status(b, version[b])
      BY <1>4, <2>1, <2>4 DEF StatusHeld
    <3> QED BY <1>2, <1>4, <1>5, <2>1, <2>2, <3>1, <3>3, <3>4 DEF StatusHeld
  <2> QED BY <2>3, <2>4
<1> QED BY <1>6, <1>7 DEF MemoryInv

\* A client attaches: what it misses is on its way, or kept aside for the end of
\* the walk.
LEMMA AttachMemory ==
    ASSUME MemoryInv, DurableInv', conn = Down,
           NEW c \in Clients, NEW start \in 0..log,
           BeginReplay(c, start), conn' = [who |-> c, phase |-> "replay"],
           \A d \in Clients :
              /\ client'[d].cursor = client[d].cursor /\ client'[d].notes = client[d].notes
              /\ client'[d].status = client[d].status,
           UNCHANGED <<pending, latest, outbox, notices, version, lost>>
    PROVE MemoryInv'
<1>1. OrderInv
  BY DEF MemoryInv, DurableInv
<1>2. conn' # Down /\ conn'.who = c
  BY DEF Down
<1>3. /\ \A a \in Agents : latest[a] # NoFrame =>
            latest[a].payload.kind = "status" /\ latest[a].payload.agent = a
      /\ \A a \in Agents, f \in window : f.payload.agent # a
      /\ notices \in Nat
  BY <1>1, MemoryTyped
<1>4. Range(<< >>) = {}
  BY DEF Range
<1>5. outbox = << >> /\ opening = << >> /\ held = << >>
  BY <1>1 DEF OrderInv, InLine, Down
<1>6. UnderWay' = Range(opening')
  BY <1>4, <1>5 DEF UnderWay
<1>7. ASSUME NEW d \in Clients, NEW m \in 1..notices
      PROVE \/ Note(m) \in lost \/ m \in client[d].notes
            \/ Note(m) \in Range(pending)
            \/ \E f \in window : f.payload = Note(m) /\ client[d].cursor < f.seq
  BY <1>4, <1>5 DEF MemoryInv, NoticeKept
<1>8. ASSUME NEW d \in Clients, NEW a \in Agents
      PROVE IF latest[a] = NoFrame THEN client[d].status[a] = 0
            ELSE \/ latest[a].payload \in lost \/ client[d].cursor < latest[a].seq
                 \/ /\ latest[a].seq <= client[d].cursor
                    /\ client[d].status[a] = latest[a].payload.n
  BY <1>4, <1>5 DEF MemoryInv, StatusShown
<1>9. CASE /\ \A f : f \in Range(opening') <=>
                 /\ client[c].cursor < f.seq
                 /\ \/ f \in window
                    \/ \E a \in Agents : f = latest[a] /\ latest[a] # NoFrame
           /\ held' = << >> /\ window' = window
  <2>1. NoticeKept'
    BY <1>7, <1>9 DEF NoticeKept
  <2>2. ASSUME NEW a \in Agents PROVE StatusHeld(a)'
    <3>1. \A f \in UnderWay' : f.payload.agent = a => latest[a] # NoFrame /\ f = latest[a]
      BY <1>3, <1>6, <1>9
    <3> QED BY <1>4, <1>9, <3>1 DEF MemoryInv, StatusHeld
  <2>3. ASSUME NEW a \in Agents PROVE StatusShown(a)'
    <3>1. latest[a] # NoFrame /\ client[c].cursor < latest[a].seq => latest[a] \in UnderWay'
      BY <1>6, <1>9
    <3> QED BY <1>2, <1>8, <3>1 DEF StatusShown
  <2> QED BY <2>1, <2>2, <2>3 DEF MemoryInv
<1>10. CASE /\ opening' = << >>
            /\ \A p : p \in Range(held') <=>
                  \/ \E f \in window : IsNote(f.payload) /\ p = f.payload
                  \/ \E a \in Agents : latest[a] # NoFrame /\ p = latest[a].payload
  <2>1. NoticeKept'
    <3>1. \A m \in 1..notices : IsNote(Note(m))
      BY <1>3, PayloadsAre DEF IsNote
    <3>2. \A m \in 1..notices :
             (\E f \in window : f.payload = Note(m)) => Note(m) \in Range(held')
      BY <1>10, <3>1
    <3> QED BY <1>7, <3>2 DEF NoticeKept
  <2>2. ASSUME NEW a \in Agents PROVE StatusHeld(a)'
    <3>1. UnderWay' = {}
      BY <1>4, <1>6, <1>10
    <3>2. \A p \in Range(held') : p.agent = a => latest[a] # NoFrame /\ p = latest[a].payload
      BY <1>3, <1>10
    <3> QED BY <3>1, <3>2 DEF MemoryInv, StatusHeld
  <2>3. ASSUME NEW a \in Agents PROVE StatusShown(a)'
    <3>1. latest[a] # NoFrame => latest[a].payload \in Range(held')
      BY <1>10
    <3> QED BY <1>8, <3>1 DEF StatusShown
  <2> QED BY <2>1, <2>2, <2>3 DEF MemoryInv
<1> QED BY <1>1, <1>9, <1>10, BeginReplayIs

\* A frame reaches the client: the notice or the status it carries is no longer
\* missing.
LEMMA SendMemory ==
    ASSUME MemoryInv, DurableInv', Send PROVE MemoryInv'
<1>1. OrderInv
  BY DEF MemoryInv, DurableInv
<1>2. PICK h \in Frames : h = Head(outbox)
  BY <1>1, SendIs
<1>3. PICK w \in Clients : w = conn.who
  BY <1>1, SendIs
<1>4. /\ conn # Down /\ UnderWay = {h} \cup UnderWay'
      /\ \A f \in UnderWay' : h.seq < f.seq
      /\ client'[w].cursor = h.seq /\ client[w].cursor < h.seq
      /\ client'[w].notes = IF IsNote(h.payload) THEN client[w].notes \cup {h.payload.n}
                            ELSE client[w].notes
      /\ \A a \in Agents : client'[w].status[a] =
            IF h.payload.agent = a THEN h.payload.n ELSE client[w].status[a]
  BY <1>1, <1>2, <1>3, SendIs
<1>5. UNCHANGED <<pending, window, latest, conn, held, notices, version, lost>>
  BY <1>1, SendIs
<1>6. /\ client[w].cursor \in Nat /\ h.seq \in Nat /\ notices \in Nat
      /\ \A a \in Agents : latest[a].seq \in Nat
      /\ \A a \in Agents : latest[a] # NoFrame => latest[a].payload.agent = a
      /\ \A f \in window : f.seq \in Nat
  BY <1>1, ViewsTyped, MemoryTyped
<1>7. \A d \in Clients : d # w => client'[d] = client[d]
  BY <1>1, <1>3, SendIs
<1>8. NoticeKept'
  <2>1. ASSUME NEW m \in 1..notices
        PROVE \/ Note(m) \in lost \/ m \in client'[w].notes
              \/ Note(m) \in Range(pending) \cup Range(held)
              \/ \E f \in window : f.payload = Note(m) /\ client'[w].cursor < f.seq
    <3>1. CASE m \in client[w].notes
      BY <1>4, <3>1
    <3>2. ASSUME NEW f \in window, f.payload = Note(m), client[w].cursor < f.seq
          PROVE m \in client'[w].notes \/ client'[w].cursor < f.seq
      <4>1. f \in UnderWay
        BY <1>3, <1>4, <3>2 DEF MemoryInv, DurableInv, WindowSent
      <4>2. CASE f = h
        <5>1. IsNote(h.payload) /\ h.payload.n = m
          BY <1>6, <3>2, <4>2, PayloadsAre DEF IsNote
        <5> QED BY <1>4, <5>1
      <4>3. CASE f \in UnderWay'
        BY <1>4, <4>3
      <4> QED BY <1>4, <4>1, <4>2, <4>3
    <3> QED BY <3>1, <3>2 DEF MemoryInv, NoticeKept
  <2>2. ASSUME NEW d \in Clients, d # w, NEW m \in 1..notices
        PROVE \/ Note(m) \in lost \/ m \in client'[d].notes
              \/ Note(m) \in Range(pending) \cup Range(held)
              \/ \E f \in window : f.payload = Note(m) /\ client'[d].cursor < f.seq
    BY <1>7, <2>2 DEF MemoryInv, NoticeKept
  <2> QED BY <1>5, <2>1, <2>2 DEF NoticeKept
<1>9. ASSUME NEW a \in Agents PROVE StatusHeld(a)'
  BY <1>4, <1>5 DEF MemoryInv, StatusHeld
<1>10. ASSUME NEW a \in Agents PROVE StatusShown(a)'
  <2>1. /\ \A f \in UnderWay : f.payload.agent = a =>
              latest[a] # NoFrame /\ (f = latest[a] \/ f.seq < latest[a].seq)
        /\ IF latest[a] = NoFrame THEN client[w].status[a] = 0
           ELSE \/ latest[a].payload \in Range(held) \cup lost
                \/ client[w].cursor < latest[a].seq /\ latest[a] \in UnderWay
                \/ /\ latest[a].seq <= client[w].cursor
                   /\ client[w].status[a] = latest[a].payload.n
    BY <1>3, <1>4 DEF MemoryInv, StatusHeld, StatusShown
  <2>2. IF latest[a] = NoFrame THEN client'[w].status[a] = 0
        ELSE \/ latest[a].payload \in Range(held) \cup lost
             \/ client'[w].cursor < latest[a].seq /\ latest[a] \in UnderWay'
             \/ /\ latest[a].seq <= client'[w].cursor
                /\ client'[w].status[a] = latest[a].payload.n
    <3>1. CASE latest[a] = NoFrame
      BY <1>4, <2>1, <3>1
    <3>2. CASE latest[a] # NoFrame /\ latest[a] = h
      BY <1>4, <1>6, <3>2
    <3>3. CASE latest[a] # NoFrame /\ latest[a] \in UnderWay'
      BY <1>4, <3>3
    <3>4. CASE /\ latest[a] # NoFrame /\ latest[a].seq <= client[w].cursor
               /\ client[w].status[a] = latest[a].payload.n
      <4>1. h.payload.agent # a
        BY <1>4, <1>6, <2>1, <3>4
      <4>2. latest[a].seq <= h.seq
        BY <1>4, <1>6, <3>4
      <4> QED BY <1>4, <3>4, <4>1, <4>2
    <3>5. CASE latest[a] # NoFrame /\ latest[a].payload \in Range(held) \cup lost
      BY <3>5
    <3> QED BY <1>4, <2>1, <3>1, <3>2, <3>3, <3>4, <3>5
  <2>3. ASSUME NEW d \in Clients, d # w
        PROVE IF latest[a] = NoFrame THEN client'[d].status[a] = 0
              ELSE \/ latest[a].payload \in Range(held) \cup lost
                   \/ client'[d].cursor < latest[a].seq
                   \/ /\ latest[a].seq <= client'[d].cursor
                      /\ client'[d].status[a] = latest[a].payload.n
    BY <1>7, <2>3 DEF MemoryInv, StatusShown
  <2> QED BY <1>3, <1>5, <2>2, <2>3 DEF StatusShown
<1> QED BY <1>8, <1>9, <1>10 DEF MemoryInv

\* The connection is gone: what the plan of its replay kept aside is lost.
LEMMA DisconnectMemory ==
    ASSUME MemoryInv, DurableInv', Disconnect PROVE MemoryInv'
<1>1. OrderInv
  BY DEF MemoryInv, DurableInv
<1>2. /\ conn' = Down /\ outbox' = << >> /\ held' = << >> /\ lost' = lost \cup Range(held)
      /\ UNCHANGED <<pending, window, latest, opening, client, notices, version>>
  BY DEF Disconnect, state
<1>3. opening = << >>
  BY <1>1 DEF Disconnect, OrderInv, InLine
<1>4. UnderWay' = {} /\ Range(<< >>) = {}
  BY <1>2, <1>3 DEF UnderWay, Range
<1>5. NoticeKept'
  BY <1>2 DEF MemoryInv, NoticeKept
<1>6. ASSUME NEW a \in Agents PROVE StatusHeld(a)' /\ StatusShown(a)'
  <2>1. StatusHeld(a)'
    BY <1>2, <1>4 DEF MemoryInv, StatusHeld
  <2>2. StatusShown(a)'
    BY <1>2 DEF MemoryInv, StatusShown
  <2> QED BY <2>1, <2>2
<1> QED BY <1>5, <1>6 DEF MemoryInv

\* A reset: nothing before it is owed to the client.
LEMMA ResetMemory ==
    ASSUME MemoryInv, DurableInv', ResetSequencer PROVE MemoryInv'
<1>1. OrderInv
  BY DEF MemoryInv, DurableInv
<1>2. /\ conn.who \in Clients /\ outbox' = << >> /\ opening' = << >> /\ held' = << >>
      /\ pending' = << >> /\ latest' = [a \in Agents |-> NoFrame]
      /\ version' = [a \in Agents |-> 0] /\ notices' = notices
      /\ \A d \in Clients : client'[d].status = [a \in Agents |-> 0]
  BY <1>1, ResetIs
<1>3. UnderWay' = {} /\ Range(<< >>) = {} /\ DOMAIN << >> = {}
  BY <1>2 DEF UnderWay, Range
<1>4. NoticeKept'
  <2>1. lost' = {Note(n) : n \in 1..notices}
    BY <1>1, ResetIs
  <2> QED BY <1>2, <2>1 DEF NoticeKept
<1>5. ASSUME NEW a \in Agents PROVE StatusHeld(a)' /\ StatusShown(a)'
  <2>1. latest'[a] = NoFrame /\ version'[a] = 0
    BY <1>2
  <2>2. StatusHeld(a)'
    BY <1>2, <1>3, <2>1 DEF StatusHeld
  <2>3. \A c \in Clients : client'[c].status[a] = 0
    BY <1>2
  <2>4. StatusShown(a)'
    BY <2>1, <2>3 DEF StatusShown
  <2> QED BY <2>2, <2>4
<1> QED BY <1>4, <1>5 DEF MemoryInv

\* The server wakes: only the phase of its connection changes.
LEMMA WokenMemory ==
    ASSUME MemoryInv, DurableInv', Wake \/ LegEnds PROVE MemoryInv'
<1>1. OrderInv
  BY DEF MemoryInv, DurableInv
<1>2. /\ conn' = [who |-> conn.who, phase |-> "flush"] /\ conn # Down
      /\ UNCHANGED <<pending, window, latest, opening, held, outbox, client, notices>>
      /\ UNCHANGED <<version, lost>>
  BY <1>1, WokenIs
<1>3. conn'.who = conn.who /\ UnderWay' = UnderWay
  BY <1>2 DEF UnderWay
<1>4. NoticeKept'
  BY <1>2 DEF MemoryInv, NoticeKept
<1>5. ASSUME NEW a \in Agents PROVE StatusHeld(a)' /\ StatusShown(a)'
  <2>1. StatusHeld(a)'
    BY <1>2, <1>3 DEF MemoryInv, StatusHeld
  <2>2. StatusShown(a)'
    BY <1>2, <1>3 DEF MemoryInv, StatusShown
  <2> QED BY <2>1, <2>2
<1> QED BY <1>4, <1>5 DEF MemoryInv

\* Every step keeps what only memory holds.
LEMMA StepMemory == MemoryInv /\ [Next]_vars => MemoryInv'
<1> SUFFICES ASSUME MemoryInv, [Next]_vars PROVE MemoryInv'
  OBVIOUS
<1>1. OrderInv /\ DurableInv'
  BY StepDurable DEF MemoryInv, DurableInv
<1>2. Ephemeral \in Payload /\ Ephemeral.agent = NoAgent
  BY PayloadsAre
<1>3. CASE AppendRecord \/ EnqueueEphemeral \/ UNCHANGED vars
  <2>1. /\ UNCHANGED <<window, latest, conn, opening, held, outbox, client, version, lost>>
        /\ pending' = pending \/ pending' = Append(pending, Ephemeral)
        /\ notices' = notices
    BY <1>3 DEF AppendRecord, EnqueueEphemeral, vars, state, history
  <2> QED BY <1>1, <1>2, <2>1, ProducerMemory
<1>4. CASE EnqueueReliable
  <2>1. Note(notices + 1) \in Payload /\ Note(notices + 1).agent = NoAgent
    <3>1. notices + 1 \in Nat
      BY <1>1, MemoryTyped
    <3> QED BY <3>1, PayloadsAre
  <2>2. /\ UNCHANGED <<window, latest, conn, opening, held, outbox, client, version, lost>>
        /\ pending' = Append(pending, Note(notices + 1)) /\ notices' = notices + 1
    BY <1>4 DEF EnqueueReliable, history
  <2> QED BY <1>1, <2>1, <2>2, ProducerMemory
<1>5. ASSUME NEW c \in Clients, Reconnect(c) PROVE MemoryInv'
  <2>1. 0 \in 0..log
    BY <1>1, ViewsTyped
  <2>2. client' = client
    BY <1>5 DEF Reconnect
  <2>3. \A d \in Clients :
           /\ client'[d].cursor = client[d].cursor /\ client'[d].notes = client[d].notes
           /\ client'[d].status = client[d].status
    BY <2>2
  <2> QED BY <1>1, <1>5, <2>1, <2>3, AttachMemory DEF Reconnect
<1>6. ASSUME NEW c \in Clients, AttachFresh(c) PROVE MemoryInv'
  <2>1. PICK start \in 0..log :
           BeginReplay(c, start) /\ client' = [client EXCEPT ![c].recs = 1..start]
    BY <1>6 DEF AttachFresh
  <2>2. Types
    BY <1>1 DEF OrderInv
  <2>3. \A d \in Clients :
           /\ client'[d].cursor = client[d].cursor /\ client'[d].notes = client[d].notes
           /\ client'[d].status = client[d].status
    BY <2>1, <2>2, AttachFreshIs
  <2> QED BY <1>1, <1>6, <2>1, <2>3, AttachMemory DEF AttachFresh
<1>7. ASSUME NEW n, NEW more, Batched(n, more), BatchTakes(more) PROVE MemoryInv'
  BY <1>1, <1>7, BatchedNotices, BatchedStatus DEF MemoryInv
<1>8. CASE ReplayBatch
  <2>1. PICK n \in Rounds :
           \/ Batched(n, << >>) /\ held' = held /\ conn' = conn
           \/ /\ Batched(n, held) /\ held' = << >>
              /\ conn' = [who |-> conn.who, phase |-> "flush"]
    BY <1>1, <1>8, ReplayBatchIs
  <2>2. pending' = pending
    BY <1>1, <1>8, ReplayBatchIs
  <2>3. CASE Batched(n, << >>) /\ held' = held
    BY <1>7, <2>2, <2>3 DEF BatchTakes
  <2>4. CASE Batched(n, held) /\ held' = << >>
    BY <1>7, <2>2, <2>4 DEF BatchTakes
  <2> QED BY <2>1, <2>3, <2>4
<1>9. CASE Flush
  <2>1. PICK n \in Rounds :
           \/ Batched(n, << >>) /\ pending' = pending
           \/ Batched(n, pending) /\ pending' = << >>
    BY <1>1, <1>9, FlushIs
  <2>2. held' = held /\ held = << >>
    <3>1. conn.phase = "flush" /\ held' = held
      BY <1>1, <1>9, FlushIs
    <3> QED BY <1>1, <3>1 DEF OrderInv, InLine
  <2>3. CASE Batched(n, << >>) /\ pending' = pending
    BY <1>7, <2>2, <2>3 DEF BatchTakes
  <2>4. CASE Batched(n, pending) /\ pending' = << >>
    BY <1>7, <2>2, <2>4 DEF BatchTakes
  <2> QED BY <2>1, <2>3, <2>4
<1> QED BY <1>1, <1>3, <1>4, <1>5, <1>6, <1>8, <1>9, EnqueueStatusMemory, SendMemory,
           DisconnectMemory, ResetMemory, WokenMemory DEF Next

\* It holds of every behaviour.
LEMMA MemoryInvariant == Spec => []MemoryInv
<1>1. Init => MemoryInv
  <2> SUFFICES ASSUME Init PROVE MemoryInv
    OBVIOUS
  <2>1. Range(<< >>) = {} /\ DOMAIN << >> = {}
    BY DEF Range
  <2>2. DurableInv
    BY InitDurable
  <2>3. NoticeKept
    BY DEF Init, NoticeKept
  <2>4. ASSUME NEW a \in Agents PROVE StatusHeld(a) /\ StatusShown(a)
    <3>1. latest[a] = NoFrame /\ version[a] = 0 /\ UnderWay = {}
      BY <2>1 DEF Init, UnderWay
    <3>2. StatusHeld(a)
      BY <2>1, <3>1 DEF Init, StatusHeld
    <3>3. \A c \in Clients : client[c].status[a] = 0
      BY DEF Init, Fresh
    <3>4. StatusShown(a)
      BY <3>1, <3>3 DEF StatusShown
    <3> QED BY <3>2, <3>4
  <2> QED BY <2>2, <2>3, <2>4 DEF MemoryInv
<1> QED BY <1>1, StepMemory, PTL DEF Spec

\* For every window, batch, agent and any number of frontends: a client holds every
\* notice and shows the newest status of every agent once its server has nothing
\* left to send, except what the window trimmed and what was still in the plan of a
\* replay when its connection failed.
THEOREM MemoryReachesClient == Spec => []MemoryDelivered
<1>1. MemoryInv => MemoryDelivered
  <2> SUFFICES ASSUME MemoryInv, CaughtUp, pending = << >>
               PROVE /\ \A n \in 1..notices : n \in client[conn.who].notes \/ Note(n) \in lost
                     /\ \A a \in Agents : \/ client[conn.who].status[a] = version[a]
                                         \/ Status(a, version[a]) \in lost
    BY DEF MemoryDelivered, NoticesDelivered, StatusCurrent
  <2>1. OrderInv
    BY DEF MemoryInv, DurableInv
  <2>2. conn # Down /\ outbox = << >> /\ opening = << >> /\ held = << >>
    BY <2>1 DEF CaughtUp, Down, OrderInv, InLine
  <2>3. UnderWay = {} /\ Range(<< >>) = {}
    BY <2>2 DEF UnderWay, Range
  <2>4. PICK w \in Clients : w = conn.who
    BY <2>1, <2>2, ViewsTyped
  <2>5. \A n \in 1..notices : n \in client[w].notes \/ Note(n) \in lost
    BY <2>2, <2>3, <2>4 DEF MemoryInv, NoticeKept, DurableInv, WindowSent
  <2>6. version \in [Agents -> Nat] /\ client[w].status \in [Agents -> Nat]
    BY <2>1, MemoryTyped, ViewsTyped DEF ClientViews
  <2>7. ASSUME NEW a \in Agents
        PROVE client[w].status[a] = version[a] \/ Status(a, version[a]) \in lost
    <3>1. CASE latest[a] = NoFrame
      <4>1. NoFrame.payload # Status(a, version[a])
        <5>1. Status(a, version[a]).agent = a
          BY <2>6, PayloadsAre
        <5> QED BY <2>1, <5>1, MemoryTyped
      <4>2. version[a] = 0
        BY <2>3, <3>1, <4>1 DEF MemoryInv, StatusHeld
      <4> QED BY <3>1, <4>2 DEF MemoryInv, StatusShown
    <3>2. CASE latest[a] # NoFrame
      <4>1. latest[a].payload = Status(a, version[a])
        BY <2>3, <3>2 DEF MemoryInv, StatusHeld
      <4>2. client[w].status[a] = latest[a].payload.n \/ latest[a].payload \in lost
        BY <2>2, <2>3, <2>4, <3>2 DEF MemoryInv, StatusShown
      <4> QED BY <2>6, <4>1, <4>2, PayloadsAre
    <3> QED BY <3>1, <3>2
  <2> QED BY <2>4, <2>5, <2>6, <2>7
<1> QED BY <1>1, MemoryInvariant, PTL
=============================================================================
