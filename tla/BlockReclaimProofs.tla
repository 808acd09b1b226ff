------------------------- MODULE BlockReclaimProofs -------------------------
(***************************************************************************)
(* The safety properties of BlockReclaim for every set of blocks and of    *)
(* sources, every number of shards and every timing.                       *)
(*                                                                         *)
(* CursorBacked holds whatever the timing.  NamedStored needs the lease to *)
(* be longer than the time from a put to its append and a pass together    *)
(* (LeaseCovers); sweep.rs and gc.rs ask for the first of the two only.    *)
(*                                                                         *)
(* The argument: what a pass has filed is true of the disk as long as the  *)
(* modification count of a log is the one filed (Filed); a block named in  *)
(* a source that the mark has passed is in the buckets, or was stored too  *)
(* recently for the sweep to take it (Covered).                            *)
(***************************************************************************)
EXTENDS BlockReclaim, NaturalsInduction, WellFoundedInduction, TLAPS

LeaseCovers == WriteWindow + PassMax < Lease

Files == [stage : {"unborn", "live", "gone"}, len : Nat, ver : Nat,
          refs : SUBSET Blocks, end : {"whole", "torn", "joined"}]
Filings == UNION {[D -> LogStates] : D \in SUBSET Logs}
Cursors == [held : {TRUE}, listed : SUBSET Sources, filed : Filings,
            refs : SUBSET Blocks, swept : Int]

Types ==
    /\ age \in [Blocks -> Int]
    /\ file \in [Sources -> Files]
    /\ pend \in [Sources -> [block : Blocks \cup {None}, wait : Nat]]
    /\ cursor \in {NoCursor} \cup Cursors
    /\ refs \subseteq Blocks
    /\ listed \subseteq Sources /\ todo \subseteq listed
    /\ filed \in Filings /\ swept \in Int
    /\ at # Nothing => at.src \in todo /\ at.state \in LogStates
    /\ pc \in {"idle", "down", "mark", "sweep", "shard", "unlink", "clear"}
    /\ victims \subseteq Blocks /\ probe \in Blocks \cup {None}
    /\ elapsed \in Nat /\ elapsed <= PassMax

\* What a mark filed of the logs f, with the buckets r: a log whose state is the one
\* filed names nothing else, and its count only grows.
Filed(f, r) ==
    \A s \in DOMAIN f :
        /\ file[s].stage # "unborn"
        /\ file[s].stage = "live" =>
             /\ f[s].ver <= file[s].ver
             /\ SourceState(s) = f[s] => file[s].refs \subseteq r

CursorTrue ==
    cursor.held => DOMAIN cursor.filed \subseteq cursor.listed /\ Filed(cursor.filed, cursor.refs)

PassTrue ==
    /\ DOMAIN filed \subseteq listed
    /\ Filed(filed, refs)
    /\ \A s \in listed : file[s].stage # "unborn"
    /\ at # Nothing => /\ pc = "mark"
                       /\ file[at.src].stage = "live" => at.state.ver <= file[at.src].ver
    /\ pc \notin {"shard", "unlink"} => probe = None
    /\ pc \in {"shard", "unlink"} => victims \cap refs = {} /\ probe \notin refs

\* A block under judgement is stored, and one about to be unlinked is still as old as
\* when it was read, or was stored again since.
Judged ==
    /\ probe # None => age[probe] # Absent
    /\ pc = "unlink" => probe # None /\ (age[probe] = Lease \/ probe \in snatched)

\* Stored again under the unlink, and removed by it.
Gone(b) == age[b] = Absent /\ b \in snatched

\* Stored at most n ticks ago, or gone that way.
Within(b, n) == Gone(b) \/ (age[b] # Absent /\ age[b] <= n)

\* Stored so recently that this pass cannot take it.
Young(b) == Within(b, WriteWindow + elapsed)
Covered(s) == \A b \in file[s].refs : b \in refs \/ Young(b)

Marked ==
    /\ pc = "mark" => \A s \in (Live \cap listed) \ todo : Covered(s)
    /\ pc \in {"sweep", "shard", "unlink"} => \A s \in Live \ late : Covered(s)

\* A block whose writer has not appended yet was stored when it says.
Fresh ==
    \A s \in Sources : pend[s] # NoPut =>
        /\ pend[s].block \in Blocks /\ pend[s].wait <= WriteWindow
        /\ file[s].stage # "gone"
        /\ LeaseCovers => Within(pend[s].block, pend[s].wait)

\* Only a live source names blocks.
Nameless == \A s \in Sources : file[s].stage # "live" => file[s].refs = {}

\* Absent comes before every age.
Aged == \A b \in Blocks : age[b] >= Absent

IInv ==
    /\ Types /\ CursorTrue /\ PassTrue /\ Judged /\ Fresh /\ Nameless /\ Aged
    /\ LeaseCovers => Marked /\ NamedStored

-----------------------------------------------------------------------------
(* Operators of the model. *)

\* The smallest of a non-empty set of sources is one of them.
LEMMA SmallestOf ==
    ASSUME NEW S, S \subseteq Nat, S # {}
    PROVE  Smallest(S) \in S /\ \A y \in S : Smallest(S) <= y
<1>. DEFINE Less == {p \in Nat \X Nat : p[1] < p[2]}
<1>1. IsWellFoundedOn(Less, Nat)
  BY NatLessThanWellFounded DEF OpToRel
<1>. HIDE DEF Less
<1>2. PICK x \in S : \A y \in S : <<y, x>> \notin Less
  BY <1>1, WFMin
<1>3. ASSUME NEW y \in S PROVE x <= y
  <2>1. y < x => <<y, x>> \in Less
    BY DEF Less
  <2>. QED
    BY <1>2, <2>1
<1>. QED
  BY <1>3 DEF Smallest

\* What a filing is made of.
LEMMA FilingType ==
    ASSUME NEW f \in Filings
    PROVE  /\ DOMAIN f \subseteq Logs /\ DOMAIN f \subseteq Sources
           /\ \A s \in DOMAIN f : f[s] \in LogStates /\ f[s].ver \in Nat
<1>1. PICK D \in SUBSET Logs : f \in [D -> LogStates]
  BY DEF Filings
<1>2. DOMAIN f = D /\ \A s \in D : f[s] \in LogStates
  BY <1>1
<1>. QED
  BY <1>2, ConstantsAssumption DEF LogStates

\* A filing of logs is made from any function on some of them.
LEMMA FilingMade ==
    ASSUME NEW D \in SUBSET Logs, NEW f \in [D -> LogStates]
    PROVE  f \in Filings
BY DEF Filings

\* No source filed is a filing of no source.
LEMMA EmptyFiling == NoSources \in Filings /\ DOMAIN NoSources = {}
<1>1. NoSources \in [{} -> LogStates] /\ DOMAIN NoSources = {}
  BY DEF NoSources
<1>. QED
  BY <1>1, FilingMade

\* A cursor that is held is a whole one.
LEMMA HeldCursor ==
    ASSUME NEW c \in {NoCursor} \cup Cursors, c.held
    PROVE  /\ c \in Cursors /\ c.filed \in Filings /\ c.refs \subseteq Blocks
           /\ c.listed \subseteq Sources /\ c.swept \in Int
<1>1. c # NoCursor
  <2>1. NoCursor.held = FALSE
    BY DEF NoCursor
  <2>. QED
    BY <2>1
<1>2. c \in Cursors
  BY <1>1
<1>. QED
  BY <1>2 DEF Cursors

-----------------------------------------------------------------------------
(* The writers. *)

\* A step that leaves every file alone leaves every filing true.
LEMMA FiledKept ==
    ASSUME NEW f, NEW r, Filed(f, r), file' = file
    PROVE  Filed(f, r)'
BY DEF Filed, SourceState

\* A write makes a filing of the file stale; a removal makes it void.
LEMMA FiledWritten ==
    ASSUME Types, NEW f \in Filings, NEW r, Filed(f, r), NEW s \in Sources,
           NEW g \in Files,
           file' = [file EXCEPT ![s] = g], g.stage # "unborn",
           g.stage = "live" => file[s].stage # "gone" /\ g.ver > file[s].ver
    PROVE  Filed(f, r)'
<1>. SUFFICES ASSUME NEW x \in DOMAIN f
              PROVE  /\ file'[x].stage # "unborn"
                     /\ file'[x].stage = "live" =>
                          /\ f[x].ver <= file'[x].ver
                          /\ SourceState(x)' = f[x] => file'[x].refs \subseteq r
  BY DEF Filed
<1>1. x \in Sources /\ f[x] \in LogStates /\ f[x].ver \in Nat
  BY FilingType
<1>2. /\ file[x].stage # "unborn"
      /\ file[x].stage = "live" => /\ f[x].ver <= file[x].ver
                                   /\ SourceState(x) = f[x] => file[x].refs \subseteq r
  BY DEF Filed
<1>3. file[x] \in Files /\ file[x].ver \in Nat /\ g.ver \in Nat
  BY <1>1 DEF Types, Files
<1>4. CASE x # s
  <2>1. file'[x] = file[x]
    BY <1>1, <1>4 DEF Types
  <2>. QED
    BY <1>2, <2>1 DEF SourceState
<1>5. CASE x = s
  <2>1. file'[x] = g
    BY <1>1, <1>5 DEF Types
  <2>2. ASSUME g.stage = "live" PROVE f[x].ver < g.ver
    <3>1. file[x].stage = "live"
      BY <1>2, <1>3, <1>5, <2>2 DEF Files
    <3>. QED
      BY <1>1, <1>2, <1>3, <1>5, <2>2, <3>1
  <2>3. SourceState(x)'.ver = g.ver
    BY <2>1 DEF SourceState
  <2>4. ASSUME g.stage = "live" PROVE SourceState(x)' # f[x]
    BY <1>1, <1>3, <2>2, <2>3, <2>4
  <2>. QED
    BY <1>1, <1>3, <2>1, <2>2, <2>4
<1>. QED
  BY <1>4, <1>5

\* A writer's step on its own file.
LEMMA WriteKeeps ==
    ASSUME IInv, NEW s \in Sources, NEW g \in Files,
           file' = [file EXCEPT ![s] = g], pend' = [pend EXCEPT ![s] = NoPut],
           age' = age, late' = late, snatched' = snatched, UNCHANGED <<work, pass, elapsed>>,
           g.stage # "unborn", g.stage # "live" => g.refs = {},
           g.stage = "live" => file[s].stage # "gone" /\ g.ver > file[s].ver,
           LeaseCovers => \A b \in g.refs :
               b \in file[s].refs \/ Within(b, WriteWindow)
    PROVE  IInv'
<1>. USE DEF IInv
<1>0. /\ cursor' = cursor
      /\ refs' = refs
      /\ pc' = pc
      /\ listed' = listed
      /\ todo' = todo
      /\ at' = at
      /\ filed' = filed
      /\ swept' = swept
      /\ victims' = victims
      /\ probe' = probe
      /\ elapsed' = elapsed
  BY DEF work, pass
<1>1. Types'
  BY <1>0 DEF Types, NoPut
<1>2. CursorTrue'
  <2>1. CASE cursor.held
    <3>1. cursor \in Cursors /\ cursor.filed \in Filings
      BY <2>1, HeldCursor DEF Types
    <3>2. Filed(cursor.filed, cursor.refs)'
      BY <1>0, <2>1, <3>1, FiledWritten DEF CursorTrue
    <3>. QED
      BY <1>0, <2>1, <3>2 DEF CursorTrue
  <2>2. CASE ~cursor.held
    BY <1>0, <2>2 DEF CursorTrue
  <2>. QED
    BY <2>1, <2>2
<1>3. ASSUME NEW x \in Sources
      PROVE  /\ x # s => file'[x] = file[x] /\ pend'[x] = pend[x]
             /\ x = s => file'[x] = g /\ pend'[x] = NoPut
             /\ file'[x].stage \in {"unborn", "live", "gone"}
             /\ file[x] \in Files
  BY DEF Types, Files
<1>4. PassTrue'
  <2>1. Filed(filed, refs)'
    BY <1>0, FiledWritten DEF Types, PassTrue
  <2>2. \A x \in listed : file'[x].stage # "unborn"
    BY <1>3 DEF PassTrue, Types
  <2>3. ASSUME at # Nothing, file'[at.src].stage = "live"
        PROVE  at.state.ver <= file'[at.src].ver
    <3>1. at.src \in listed /\ at.src \in Sources /\ at.state.ver \in Nat
      BY <2>3 DEF Types, LogStates
    <3>2. file[at.src].stage # "unborn"
      BY <3>1 DEF PassTrue
    <3>3. CASE at.src # s
      BY <1>3, <2>3, <3>1, <3>3 DEF PassTrue
    <3>4. CASE at.src = s
      <4>1. file[at.src].stage = "live" /\ file'[at.src] = g
        BY <1>3, <2>3, <3>1, <3>2, <3>4 DEF Files
      <4>2. at.state.ver <= file[s].ver /\ file[s].ver < g.ver
        BY <2>3, <3>4, <4>1 DEF PassTrue
      <4>3. file[s].ver \in Nat /\ g.ver \in Nat
        BY <1>3 DEF Files
      <4>. QED
        BY <3>1, <3>4, <4>1, <4>2, <4>3
    <3>. QED
      BY <3>3, <3>4
  <2>. QED
    BY <1>0, <2>1, <2>2, <2>3 DEF PassTrue
<1>5. Fresh' /\ Judged'
  BY <1>0, <1>3 DEF Fresh, NoPut, Within, Gone, Judged
<1>6. ASSUME LeaseCovers PROVE Marked' /\ NamedStored'
  <2>1. \A x \in Live' : x # s => x \in Live
    BY <1>3 DEF Live
  <2>2. \A x \in Sources : x # s /\ Covered(x) => Covered(x)'
    BY <1>0, <1>3 DEF Covered, Young, Within, Gone
  <2>3. ASSUME s \in Live' PROVE s \in Live \/ (s \notin Live /\ file[s].refs = {} /\ file[s].stage = "unborn")
    BY <1>3, <2>3 DEF Live, Nameless, Files
  <2>4. WriteWindow \in Nat /\ elapsed \in Nat /\ Lease \in Nat
    BY ConstantsAssumption DEF Types
  <2>5. ASSUME Covered(s) \/ file[s].refs = {} PROVE Covered(s)'
    <3>. SUFFICES ASSUME NEW b \in g.refs PROVE b \in refs \/ Young(b)
      BY <1>0, <1>3 DEF Covered, Young, Within, Gone
    <3>1. CASE b \in file[s].refs
      BY <2>5, <3>1 DEF Covered
    <3>2. CASE Within(b, WriteWindow)
      <4>1. b \in Blocks /\ age[b] \in Int
        BY DEF Files, Types
      <4>. QED
        BY <2>4, <3>2, <4>1 DEF Young, Within, Gone
    <3>. QED
      BY <1>6, <3>1, <3>2
  <2>6. Marked'
    <3>1. ASSUME pc = "mark", NEW x \in (Live' \cap listed) \ todo PROVE Covered(x)'
      <4>1. x \in Sources /\ file[x].stage # "unborn"
        BY DEF Types, PassTrue
      <4>2. x \in Live
        BY <2>1, <2>3, <4>1
      <4>3. Covered(x)
        BY <1>6, <3>1, <4>2 DEF Marked
      <4>. QED
        BY <2>2, <2>5, <4>1, <4>3
    <3>2. ASSUME pc \in {"sweep", "shard", "unlink"}, NEW x \in Live' \ late PROVE Covered(x)'
      <4>1. x \in Sources
        BY DEF Live
      <4>2. CASE x \in Live
        BY <1>6, <2>2, <2>5, <3>2, <4>1, <4>2 DEF Marked
      <4>3. CASE x \notin Live
        BY <2>1, <2>3, <2>5, <4>3
      <4>. QED
        BY <4>2, <4>3
    <3>. QED
      BY <1>0, <3>1, <3>2 DEF Marked
  <2>7. NamedStored'
    <3>. SUFFICES ASSUME NEW x \in Live' \ late, NEW b \in file'[x].refs
                  PROVE  b \in Stored \cup snatched
      BY DEF NamedStored, Stored
    <3>1. x \in Sources
      BY DEF Live
    <3>2. CASE x # s
      BY <1>3, <1>6, <2>1, <3>1, <3>2 DEF NamedStored, Stored
    <3>3. CASE x = s
      <4>1. b \in g.refs /\ b \in Blocks
        BY <1>3, <3>1, <3>3 DEF Files
      <4>2. CASE b \in file[s].refs
        <5>1. s \in Live
          BY <2>3, <3>3, <4>2
        <5>. QED
          BY <1>6, <3>3, <4>1, <4>2, <5>1 DEF NamedStored, Stored
      <4>. QED
        BY <1>6, <4>1, <4>2 DEF Within, Gone, Stored
    <3>. QED
      BY <3>2, <3>3
  <2>. QED
    BY <2>6, <2>7
<1>7. Nameless' /\ Aged'
  BY <1>3 DEF Nameless, Aged
<1>. QED
  BY <1>1, <1>2, <1>4, <1>5, <1>6, <1>7

\* A block is stored, or touched: it is new for every reader.
LEMMA PutKeeps ==
    ASSUME IInv, NEW s \in Sources, NEW b \in Blocks, Put(s, b)
    PROVE  IInv'
<1>. USE DEF IInv
<1>0. /\ file' = file
      /\ late' = late
      /\ cursor' = cursor
      /\ refs' = refs
      /\ pc' = pc
      /\ listed' = listed
      /\ todo' = todo
      /\ at' = at
      /\ filed' = filed
      /\ swept' = swept
      /\ victims' = victims /\ probe' = probe /\ elapsed' = elapsed
      /\ age' = [age EXCEPT ![b] = 0]
      /\ pend' = [pend EXCEPT ![s] = [block |-> b, wait |-> 0]]
      /\ file[s].stage # "gone"
      /\ snatched' = IF pc = "unlink" /\ probe = b THEN snatched \cup {b} ELSE snatched \ {b}
  BY DEF Put, work, pass
<1>1. Types'
  BY <1>0 DEF Types
<1>2. \A x \in Blocks : /\ age'[x] = IF x = b THEN 0 ELSE age[x]
                        /\ x # b => (x \in snatched' <=> x \in snatched)
  BY <1>0 DEF Types
<1>3. CursorTrue'
  BY <1>0, FiledKept DEF CursorTrue
<1>4. PassTrue'
  BY <1>0, FiledKept DEF PassTrue
<1>8. Judged'
  <2>1. probe # None => probe \in Blocks
    BY DEF Types
  <2>. QED
    BY <1>0, <1>2, <2>1 DEF Judged, Absent
<1>5. Fresh'
  <2>. SUFFICES ASSUME NEW x \in Sources, pend'[x] # NoPut
                PROVE  /\ pend'[x].block \in Blocks
                       /\ pend'[x].wait <= WriteWindow
                       /\ file[x].stage # "gone"
                       /\ LeaseCovers => Within(pend[x].block, pend[x].wait)'
    BY <1>0 DEF Fresh
  <2>1. WriteWindow \in Nat
    BY ConstantsAssumption
  <2>2. CASE x = s
    <3>1. pend'[x].block = b /\ pend'[x].wait = 0
      BY <1>0, <2>2 DEF Types
    <3>. QED
      BY <1>0, <1>2, <2>1, <2>2, <3>1 DEF Absent, Within
  <2>3. CASE x # s
    <3>1. pend'[x] = pend[x] /\ pend[x].wait \in Nat
      BY <1>0, <2>3 DEF Types
    <3>. QED
      BY <1>0, <1>2, <3>1 DEF Absent, Fresh, Within, Gone
  <2>. QED
    BY <2>2, <2>3
<1>6. ASSUME LeaseCovers PROVE Marked' /\ NamedStored'
  <2>1. WriteWindow + elapsed \in Nat
    BY ConstantsAssumption DEF Types
  <2>2. \A x \in Blocks : Young(x) => Young(x)'
    BY <1>0, <1>2, <2>1 DEF Young, Within, Gone, Absent
  <2>3. \A x \in Sources : Covered(x) => Covered(x)'
    BY <1>0, <2>2 DEF Covered, Types, Files
  <2>4. Live' = Live /\ \A x \in Blocks : x \in Stored \cup snatched => x \in (Stored \cup snatched)'
    BY <1>0, <1>2 DEF Live, Stored, Absent
  <2>5. Live \subseteq Sources
    BY DEF Live
  <2>6. Marked'
    BY <1>0, <1>6, <2>3, <2>4, <2>5 DEF Marked
  <2>7. NamedStored'
    <3>1. \A x \in Sources : file[x].refs \subseteq Blocks
      BY DEF Types, Files
    <3>. QED
      BY <1>0, <1>6, <2>4, <2>5, <3>1 DEF NamedStored
  <2>. QED
    BY <2>6, <2>7
<1>7. Nameless' /\ Aged'
  BY <1>0, <1>2 DEF Nameless, Aged, Absent
<1>. QED
  BY <1>1, <1>3, <1>4, <1>5, <1>6, <1>7, <1>8

\* The age of a block its writer has not named yet.
LEMMA PendingYoung ==
    ASSUME IInv, NEW s \in Sources, pend[s] # NoPut
    PROVE  /\ pend[s].block \in Blocks /\ file[s].stage # "gone"
           /\ LeaseCovers => Within(pend[s].block, WriteWindow)
<1>1. /\ pend[s].block \in Blocks
      /\ pend[s].wait <= WriteWindow
      /\ pend[s].wait \in Nat
      /\ file[s].stage # "gone"
      /\ LeaseCovers => Within(pend[s].block, pend[s].wait)
  BY DEF IInv, Fresh, Types
<1>2. age[pend[s].block] \in Int /\ WriteWindow \in Nat
  BY <1>1, ConstantsAssumption DEF IInv, Types
<1>. QED
  BY <1>1, <1>2 DEF Within

\* The event that names the block is appended.
LEMMA AppendKeeps == ASSUME IInv, NEW s \in Sources, Append(s) PROVE IInv'
<1>. DEFINE g == [stage |-> "live",
                  len   |-> IF s \in Logs THEN file[s].len + 1 ELSE file[s].len,
                  ver   |-> file[s].ver + 1,
                  refs  |-> CASE s \notin Logs        -> {pend[s].block}
                              [] file[s].end = "torn" -> file[s].refs
                              [] OTHER                -> file[s].refs \cup {pend[s].block},
                  end   |-> IF file[s].end = "torn" THEN "joined" ELSE file[s].end]
<1>1. /\ file' = [file EXCEPT ![s] = g]
      /\ pend' = [pend EXCEPT ![s] = NoPut]
      /\ pend[s] # NoPut
      /\ age' = age /\ late' = late /\ snatched' = snatched /\ UNCHANGED <<work, pass, elapsed>>
  BY DEF Append
<1>2. file[s] \in Files /\ pend[s].block \in Blocks
  BY <1>1, PendingYoung DEF IInv, Types
<1>3. g.refs \subseteq file[s].refs \cup {pend[s].block}
  OBVIOUS
<1>4. g \in Files /\ g.stage = "live" /\ g.ver > file[s].ver
  BY <1>2 DEF Files
<1>. HIDE DEF g
<1>. QED
  BY <1>1, <1>3, <1>4, PendingYoung, WriteKeeps

\* The writer dies.
LEMMA WriterDiesKeeps == ASSUME IInv, NEW s \in Sources, WriterDies(s) PROVE IInv'
<1>1. /\ pend' = [pend EXCEPT ![s] = NoPut]
      /\ pend[s] # NoPut
      /\ age' = age
      /\ late' = late
      /\ snatched' = snatched
      /\ UNCHANGED <<work, pass, elapsed>>
  BY DEF WriterDies
<1>2. file[s] \in Files /\ pend[s].block \in Blocks
  BY <1>1, PendingYoung DEF IInv, Types
<1>3. CASE file' = file
  <2>1. /\ cursor' = cursor
        /\ refs' = refs
        /\ pc' = pc
        /\ listed' = listed
        /\ todo' = todo
        /\ at' = at /\ filed' = filed /\ swept' = swept /\ victims' = victims
        /\ probe' = probe /\ elapsed' = elapsed
    BY <1>1 DEF work, pass
  <2>2. Types' /\ Fresh' /\ Judged'
    BY <1>1, <1>3, <2>1 DEF IInv, Types, Fresh, NoPut, Within, Gone, Judged
  <2>3. CursorTrue' /\ PassTrue'
    BY <1>3, <2>1, FiledKept DEF IInv, CursorTrue, PassTrue
  <2>4. Nameless' /\ Aged' /\ (LeaseCovers => Marked' /\ NamedStored')
    BY <1>1, <1>3, <2>1
    DEF IInv, Nameless, Aged, Marked, NamedStored, Live, Stored, Covered, Young, Within, Gone
  <2>. QED
    BY <2>2, <2>3, <2>4 DEF IInv
<1>4. CASE file' = [file EXCEPT ![s].stage = "live", ![s].len = @ + 1,
                                ![s].ver = @ + 1, ![s].end = "torn"]
  <2>. DEFINE g == [file[s] EXCEPT !.stage = "live", !.len = file[s].len + 1,
                                   !.ver = file[s].ver + 1, !.end = "torn"]
  <2>0. /\ file[s].len + 1 \in Nat
        /\ file[s].ver + 1 \in Nat
        /\ file[s].ver + 1 > file[s].ver
    BY <1>2 DEF Files
  <2>1. /\ g \in Files
        /\ g.stage = "live"
        /\ g.ver = file[s].ver + 1
        /\ g.refs = file[s].refs
    BY <1>2, <2>0 DEF Files
  <2>2. file' = [file EXCEPT ![s] = g]
    BY <1>2, <1>4 DEF IInv, Types, Files
  <2>. HIDE DEF g
  <2>. QED
    BY <1>1, <2>0, <2>1, <2>2, PendingYoung, WriteKeeps
<1>5. CASE file' = [file EXCEPT ![s].stage = "live", ![s].len = @ + 1,
                                ![s].ver = @ + 1, ![s].end = "torn",
                                ![s].refs = @ \cup {pend[s].block}]
  <2>. DEFINE r == file[s].refs \cup {pend[s].block}
              g == [file[s] EXCEPT !.stage = "live", !.len = file[s].len + 1,
                                   !.ver = file[s].ver + 1, !.end = "torn", !.refs = r]
  <2>0. /\ file[s].len + 1 \in Nat
        /\ file[s].ver + 1 \in Nat
        /\ file[s].ver + 1 > file[s].ver
        /\ r \in SUBSET Blocks
    BY <1>2 DEF Files
  <2>. HIDE DEF r
  <2>1. g \in Files /\ g.stage = "live" /\ g.ver = file[s].ver + 1 /\ g.refs = r
    BY <1>2, <2>0 DEF Files
  <2>2. file' = [file EXCEPT ![s] = g]
    BY <1>2, <1>5 DEF IInv, Types, Files, r
  <2>. HIDE DEF g
  <2>3. \A b \in g.refs : b \in file[s].refs \/ b = pend[s].block
    BY <2>1 DEF r
  <2>. QED
    BY <1>1, <2>0, <2>1, <2>2, <2>3, PendingYoung, WriteKeeps
<1>. QED
  BY <1>3, <1>4, <1>5 DEF WriterDies

\* A session is pruned.
LEMMA DeleteKeeps == ASSUME IInv, NEW s \in Sources, Delete(s) PROVE IInv'
<1>. DEFINE g == [stage |-> "gone", len |-> 0, ver |-> 0, refs |-> {}, end |-> "whole"]
<1>1. /\ file' = [file EXCEPT ![s] = g] /\ age' = age /\ late' = late /\ snatched' = snatched
      /\ UNCHANGED <<work, pass, elapsed>> /\ pend' = pend /\ pend[s] = NoPut
  BY DEF Delete
<1>2. pend' = [pend EXCEPT ![s] = NoPut]
  BY <1>1 DEF IInv, Types
<1>3. g \in Files /\ g.stage = "gone" /\ g.refs = {}
  BY DEF Files
<1>. HIDE DEF g
<1>. QED
  BY <1>1, <1>2, <1>3, WriteKeeps

\* A session is imported: it was never listed, and is late when a sweep runs.
LEMMA ImportKeeps ==
    ASSUME IInv, NEW s \in Sources, NEW b \in Blocks, Import(s, b)
    PROVE  IInv'
<1>. USE DEF IInv
<1>. DEFINE g == [file[s] EXCEPT !.stage = "live", !.len = 1, !.ver = 1, !.refs = {b}]
<1>0. /\ age' = age
      /\ pend' = pend
      /\ cursor' = cursor
      /\ refs' = refs
      /\ pc' = pc
      /\ listed' = listed
      /\ todo' = todo
      /\ at' = at
      /\ filed' = filed
      /\ swept' = swept
      /\ victims' = victims /\ probe' = probe /\ elapsed' = elapsed
      /\ late' = IF pc \in {"sweep", "shard", "unlink"} THEN late \cup {s} ELSE late
      /\ snatched' = snatched
      /\ file[s].stage = "unborn" /\ b \in Stored
  BY DEF Import, work, pass
<1>1. /\ g \in Files
      /\ g.stage = "live"
      /\ g.refs = {b}
      /\ file' = [file EXCEPT ![s] = g]
      /\ file[s] \in Files
  BY DEF Types, Files, Import
<1>. HIDE DEF g
<1>2. \A x \in Sources : file'[x] = IF x = s THEN g ELSE file[x]
  BY <1>1 DEF Types
<1>3. Types'
  BY <1>0, <1>1 DEF Types
<1>4. ASSUME NEW f \in Filings, NEW r, Filed(f, r) PROVE Filed(f, r)'
  <2>. SUFFICES ASSUME NEW x \in DOMAIN f
                PROVE  /\ file'[x].stage # "unborn"
                       /\ file'[x].stage = "live" =>
                            /\ f[x].ver <= file'[x].ver
                            /\ SourceState(x)' = f[x] => file'[x].refs \subseteq r
    BY DEF Filed
  <2>1. x \in Sources /\ file[x].stage # "unborn"
    BY <1>4, FilingType DEF Filed
  <2>2. file'[x] = file[x] /\ SourceState(x)' = SourceState(x)
    BY <1>0, <1>2, <2>1 DEF SourceState
  <2>. QED
    BY <1>4, <2>2 DEF Filed
<1>5. CursorTrue'
  <2>1. CASE cursor.held
    BY <1>0, <1>4, <2>1, HeldCursor DEF CursorTrue, Types
  <2>2. CASE ~cursor.held
    BY <1>0, <2>2 DEF CursorTrue
  <2>. QED
    BY <2>1, <2>2
<1>6. PassTrue'
  <2>1. Filed(filed, refs)'
    BY <1>0, <1>4 DEF Types, PassTrue
  <2>2. \A x \in listed : x \in Sources /\ x # s
    BY <1>0 DEF Types, PassTrue
  <2>. QED
    BY <1>0, <1>2, <2>1, <2>2 DEF Types, PassTrue
<1>7. Fresh' /\ Judged'
  BY <1>0, <1>1, <1>2 DEF Fresh, Within, Gone, Judged
<1>8. ASSUME LeaseCovers PROVE Marked' /\ NamedStored'
  <2>1. \A x \in Live' : x = s \/ x \in Live
    BY <1>2 DEF Live
  <2>2. \A x \in Live : x \in Sources /\ x # s
    BY <1>0 DEF Live
  <2>3. \A x \in Live : Covered(x) => Covered(x)'
    BY <1>0, <1>2, <2>2 DEF Covered, Young, Within, Gone
  <2>4. s \notin listed
    BY <1>0 DEF PassTrue
  <2>5. Marked'
    BY <1>0, <1>8, <2>1, <2>3, <2>4 DEF Marked
  <2>6. NamedStored'
    <3>. SUFFICES ASSUME NEW x \in Live' \ late' PROVE file'[x].refs \subseteq Stored \cup snatched
      BY <1>0 DEF NamedStored, Stored
    <3>1. CASE x = s
      <4>1. file'[x] = g
        BY <1>2, <3>1
      <4>. QED
        BY <1>0, <1>1, <4>1
    <3>2. CASE x # s
      <4>1. x \in Live /\ x \notin late
        BY <1>0, <2>1, <3>2
      <4>. QED
        BY <1>2, <1>8, <2>2, <4>1 DEF NamedStored
    <3>. QED
      BY <3>1, <3>2
  <2>. QED
    BY <2>5, <2>6
<1>9. Nameless' /\ Aged'
  BY <1>0, <1>1, <1>2 DEF Nameless, Aged
<1>. QED
  BY <1>3, <1>5, <1>6, <1>7, <1>8, <1>9

\* Time passes for the blocks, the writers and the pass alike.
LEMMA TickKeeps == ASSUME IInv, Tick PROVE IInv'
<1>. USE DEF IInv
<1>0. /\ file' = file
      /\ late' = late
      /\ cursor' = cursor
      /\ refs' = refs
      /\ pc' = pc
      /\ listed' = listed
      /\ todo' = todo
      /\ at' = at
      /\ filed' = filed
      /\ swept' = swept
      /\ victims' = victims /\ probe' = probe /\ snatched' = snatched
      /\ elapsed' = IF pc \in Between THEN 0 ELSE elapsed + 1
      /\ pc \in Between \/ elapsed < PassMax
  BY DEF Tick, work, pass
<1>1. PassMax \in Nat /\ WriteWindow \in Nat /\ Lease \in Nat /\ elapsed \in Nat
  BY ConstantsAssumption DEF Types
<1>2. \A b \in Blocks : /\ age[b] \in Int /\ age'[b] \in Int
                        /\ age[b] = Absent => age'[b] = Absent
                        /\ age[b] # Absent => age'[b] = AgeCap(age[b] + 1)
  BY <1>1 DEF Tick, Types, AgeCap, Absent
<1>3. \A s \in Sources : /\ pend[s] = NoPut => pend'[s] = NoPut
                         /\ pend[s] # NoPut => /\ pend[s].wait < WriteWindow
                                               /\ pend'[s].block = pend[s].block
                                               /\ pend'[s].wait = pend[s].wait + 1
                         /\ pend[s].wait \in Nat
  BY DEF Tick, Types
<1>4. Types'
  <2>1. age' \in [Blocks -> Int]
    BY <1>1 DEF Tick, Types, AgeCap, Absent
  <2>2. pend' \in [Sources -> [block : Blocks \cup {None}, wait : Nat]]
    <3>1. \A s \in Sources : pend[s] \in [block : Blocks \cup {None}, wait : Nat]
      BY DEF Types
    <3>2. NoPut \in [block : Blocks \cup {None}, wait : Nat]
      BY DEF NoPut
    <3>3. \A s \in Sources : [pend[s] EXCEPT !.wait = @ + 1]
                                \in [block : Blocks \cup {None}, wait : Nat]
      BY <3>1
    <3>. QED
      BY <3>2, <3>3 DEF Tick
  <2>3. elapsed' \in Nat /\ elapsed' <= PassMax
    BY <1>0, <1>1
  <2>. QED
    BY <1>0, <2>1, <2>2, <2>3 DEF Types
<1>5. CursorTrue'
  BY <1>0, FiledKept DEF CursorTrue
<1>6. PassTrue'
  BY <1>0, FiledKept DEF PassTrue
<1>7. Lease \in Nat \ {0} /\ \A a \in Int : /\ AgeCap(a) <= a \/ AgeCap(a) = Lease
                                            /\ AgeCap(a) <= a
                                            /\ a >= 0 => AgeCap(a) >= 0
  BY ConstantsAssumption DEF AgeCap
<1>8. ASSUME NEW b \in Blocks, age[b] # Absent, age[b] >= 0
      PROVE  age'[b] # Absent /\ age'[b] <= age[b] + 1 /\ age'[b] >= 0
  BY <1>2, <1>7, <1>8 DEF Absent
<1>9. \A b \in Blocks : age[b] >= Absent
  BY DEF Aged
<1>10. Fresh'
  <2>. SUFFICES ASSUME NEW x \in Sources, pend'[x] # NoPut
                PROVE  /\ pend'[x].block \in Blocks
                       /\ pend'[x].wait <= WriteWindow
                       /\ file[x].stage # "gone"
                       /\ LeaseCovers => Within(pend[x].block, pend[x].wait)'
    BY <1>0 DEF Fresh
  <2>1. pend[x] # NoPut
    BY <1>3
  <2>2. /\ pend[x].block \in Blocks /\ file[x].stage # "gone"
        /\ LeaseCovers => Within(pend[x].block, pend[x].wait)
    BY <2>1 DEF Fresh
  <2>3. Gone(pend[x].block) => Gone(pend[x].block)'
    BY <1>0, <1>2, <1>3, <2>1, <2>2 DEF Gone
  <2>. QED
    BY <1>1, <1>2, <1>3, <1>8, <1>9, <2>1, <2>2, <2>3 DEF Absent, Within
<1>11. \A b \in Blocks : age'[b] >= Absent
  BY <1>2, <1>8, <1>9 DEF Absent
<1>12. ASSUME LeaseCovers PROVE Marked' /\ NamedStored'
  <2>1. /\ Live' = Live /\ Live \subseteq Sources
        /\ \A b \in Blocks : b \in Stored \cup snatched => b \in (Stored \cup snatched)'
    BY <1>0, <1>2, <1>8, <1>9 DEF Live, Stored, Absent
  <2>2. ASSUME pc \notin Between, NEW b \in Blocks, Young(b) PROVE Young(b)'
    <3>1. elapsed' = elapsed + 1
      BY <1>0, <2>2
    <3>2. CASE Gone(b)
      BY <1>0, <1>2, <3>2 DEF Young, Within, Gone
    <3>3. CASE ~Gone(b)
      <4>1. /\ age[b] # Absent
            /\ age[b] <= WriteWindow + elapsed
            /\ age[b] \in Int
            /\ age'[b] \in Int
        BY <1>2, <2>2, <3>3 DEF Young, Within
      <4>2. age'[b] # Absent /\ age'[b] <= age[b] + 1
        BY <1>8, <1>9, <4>1 DEF Absent
      <4>. QED
        BY <1>1, <3>1, <4>1, <4>2 DEF Young, Within
    <3>. QED
      BY <3>2, <3>3
  <2>3. \A x \in Sources : file[x].refs \subseteq Blocks
    BY DEF Types, Files
  <2>4. ASSUME pc \notin Between, NEW x \in Sources, Covered(x) PROVE Covered(x)'
    BY <1>0, <2>2, <2>3, <2>4 DEF Covered
  <2>5. Marked'
    BY <1>0, <1>12, <2>1, <2>4 DEF Marked, Between
  <2>6. NamedStored'
    BY <1>0, <1>12, <2>1, <2>3 DEF NamedStored
  <2>. QED
    BY <2>5, <2>6
<1>13. Nameless'
  BY <1>0 DEF Nameless
<1>14. Judged'
  <2>1. probe # None => probe \in Blocks
    BY DEF Types
  <2>2. ASSUME NEW b \in Blocks, age[b] # Absent PROVE age'[b] # Absent
    BY <1>8, <1>9, <2>2 DEF Absent, Types
  <2>3. ASSUME NEW b \in Blocks, age[b] = Lease PROVE age'[b] = Lease
    BY <1>1, <1>2, <2>3 DEF Absent, AgeCap
  <2>. QED
    BY <1>0, <2>1, <2>2, <2>3 DEF Judged
<1>. QED
  BY <1>4, <1>5, <1>6, <1>10, <1>11, <1>12, <1>13, <1>14 DEF Aged

-----------------------------------------------------------------------------
(* The pass. *)

\* A step of the pass that leaves the store alone.
LEMMA DiskKept ==
    ASSUME IInv, UNCHANGED disk
    PROVE  /\ Fresh' /\ Nameless' /\ Aged' /\ (LeaseCovers => NamedStored')
           /\ age' = age
           /\ file' = file
           /\ pend' = pend
           /\ late' = late
           /\ snatched' = snatched
           /\ Live' = Live
           /\ \A s : SourceState(s)' = SourceState(s)
<1>1. /\ age' = age /\ file' = file /\ pend' = pend /\ late' = late /\ Live' = Live
      /\ snatched' = snatched
  BY DEF disk, Live
<1>2. Fresh' /\ Nameless' /\ Aged'
  BY <1>1 DEF IInv, Fresh, Nameless, Aged, Within, Gone
<1>3. LeaseCovers => NamedStored'
  BY <1>1 DEF IInv, NamedStored, Stored
<1>. QED
  BY <1>1, <1>2, <1>3 DEF SourceState

\* A cursor written from what is filed is true.
LEMMA RecordTrue ==
    ASSUME Types, NEW f \in Filings, NEW r \in SUBSET Blocks, Filed(f, r),
           DOMAIN f \subseteq listed, NEW w \in Int, cursor' = Recorded(f, r, w), file' = file
    PROVE  CursorTrue' /\ cursor' \in Cursors
<1>1. /\ cursor' \in Cursors
      /\ cursor'.filed = f
      /\ cursor'.refs = r
      /\ cursor'.listed = listed
  BY DEF Recorded, Cursors, Types
<1>2. Filed(f, r)'
  BY FiledKept
<1>. QED
  BY <1>1, <1>2 DEF CursorTrue

\* The pass ends, of itself or stopped.
Returned == \E to \in Between : Return(to)

\* A pass that ends leaves its cursor, if any, and the store, but for the mark of the
\* block under judgement, which is stored.
LEMMA ReturnLeaves ==
    ASSUME IInv, Returned, age' = age, file' = file, pend' = pend, late' = late,
           snatched' = snatched \/ snatched' = snatched \ {probe}, CursorTrue',
           cursor' \in {NoCursor} \cup Cursors, refs' \subseteq Blocks
    PROVE  IInv'
<1>1. /\ pc' \in Between
      /\ listed' = {}
      /\ todo' = {}
      /\ at' = Nothing
      /\ filed' = NoSources
      /\ swept' = None /\ victims' = {} /\ probe' = None /\ elapsed' = 0
  BY DEF Returned, Return
<1>2. \A b \in Blocks : Gone(b) => Gone(b)'
  <2>1. \A b \in Blocks : b # None
    BY ConstantsAssumption DEF None
  <2>. QED
    BY <2>1 DEF IInv, Judged, Gone
<1>3. Types'
  BY <1>1, EmptyFiling, ConstantsAssumption DEF IInv, Types, None, Between
<1>4. Filed(filed, refs)'
  BY <1>1, EmptyFiling DEF Filed
<1>5. PassTrue' /\ Judged'
  BY <1>1, <1>4, EmptyFiling DEF PassTrue, Judged, Between
<1>6. Marked'
  BY <1>1 DEF Marked, Between
<1>7. Nameless' /\ Aged'
  BY DEF IInv, Nameless, Aged
<1>8. Fresh'
  BY <1>2 DEF IInv, Fresh, Within
<1>9. ASSUME LeaseCovers PROVE NamedStored'
  <2>. SUFFICES ASSUME NEW s \in Live \ late, NEW b \in file[s].refs
                PROVE  b \in (Stored \cup snatched)'
    BY DEF NamedStored, Live
  <2>1. b \in Blocks /\ b \in Stored \cup snatched
    BY <1>9 DEF IInv, NamedStored, Types, Files, Live
  <2>2. CASE age[b] # Absent
    BY <2>1, <2>2 DEF Stored
  <2>3. CASE age[b] = Absent
    BY <1>2, <2>1, <2>3 DEF Stored, Gone
  <2>. QED
    BY <2>2, <2>3
<1>. QED
  BY <1>3, <1>5, <1>6, <1>7, <1>8, <1>9 DEF IInv

\* ... or the whole store.
LEMMA ReturnKeeps ==
    ASSUME IInv, Returned, UNCHANGED disk, CursorTrue',
           cursor' \in {NoCursor} \cup Cursors, refs' \subseteq Blocks
    PROVE  IInv'
BY ReturnLeaves, DiskKept

\* What the pass has filed can be recorded at any time.
LEMMA RecordNow ==
    ASSUME IInv, cursor' = Recorded(filed, refs, swept), UNCHANGED disk
    PROVE  CursorTrue' /\ cursor' \in Cursors
<1>1. filed \in Filings /\ refs \in SUBSET Blocks /\ Filed(filed, refs)
      /\ DOMAIN filed \subseteq listed /\ swept \in Int /\ Types
  BY DEF IInv, Types, PassTrue
<1>. QED
  BY <1>1, DiskKept, RecordTrue

\* A cursor left alone stays true while the sources are left alone.
LEMMA KeptCursor ==
    ASSUME IInv, cursor' = cursor, file' = file
    PROVE  CursorTrue' /\ cursor' \in {NoCursor} \cup Cursors
BY FiledKept DEF IInv, Types, CursorTrue

\* ... and while the whole store is.
LEMMA SameCursor ==
    ASSUME IInv, cursor' = cursor, UNCHANGED disk
    PROVE  CursorTrue' /\ cursor' \in {NoCursor} \cup Cursors
BY DiskKept, KeptCursor

\* A cursor that is gone promises nothing.
LEMMA LostCursor ==
    ASSUME cursor' = NoCursor
    PROVE  CursorTrue' /\ cursor' \in {NoCursor} \cup Cursors
<1>1. cursor'.held = FALSE
  BY DEF NoCursor
<1>. QED
  BY <1>1 DEF CursorTrue

\* What resumable_cursor gives back: every log it skips names only what it recorded.
LEMMA Resumable ==
    ASSUME Types, NEW c \in {NoCursor} \cup Cursors,
           c.held => DOMAIN c.filed \subseteq c.listed /\ Filed(c.filed, c.refs),
           ResumableCursor(c, Live).held
    PROVE  LET d == ResumableCursor(c, Live)
           IN /\ d \in Cursors
              /\ DOMAIN d.filed \subseteq Live
              /\ Filed(d.filed, d.refs)
              /\ \A s \in DOMAIN d.filed : file[s].refs \subseteq d.refs
<1>. DEFINE d == ResumableCursor(c, Live)
<1>0. NoCursor.held = FALSE
  BY DEF NoCursor
<1>1. c.held /\ c.listed = Live /\ c.refs \subseteq refs
  BY <1>0 DEF ResumableCursor
<1>2. /\ c \in Cursors /\ c.filed \in Filings /\ DOMAIN c.filed \subseteq Live
      /\ Filed(c.filed, c.refs)
  BY <1>1, HeldCursor
<1>3. \A s \in DOMAIN c.filed : s \in Sources /\ file[s].stage = "live"
  BY <1>2 DEF Live
<1>4. CASE MovedLogs(c) = {}
  <2>1. d = c
    BY <1>1, <1>4 DEF ResumableCursor
  <2>2. \A s \in DOMAIN c.filed : SourceState(s) = c.filed[s]
    BY <1>4 DEF MovedLogs
  <2>3. \A s \in DOMAIN c.filed : file[s].refs \subseteq c.refs
    BY <1>2, <1>3, <2>2 DEF Filed
  <2>. QED
    BY <1>2, <2>1, <2>3
<1>5. CASE MovedLogs(c) # {}
  <2>. DEFINE moved == Smallest(MovedLogs(c))
              kept == {t \in DOMAIN c.filed : t < moved}
              f == [s \in kept |-> c.filed[s]]
  <2>1. MovedLogs(c) \subseteq Nat
    BY <1>3, ConstantsAssumption DEF MovedLogs
  <2>2. moved \in Nat /\ \A y \in MovedLogs(c) : moved <= y
    BY <1>5, <2>1, SmallestOf
  <2>3. d = [c EXCEPT !.filed = f]
    BY <1>0, <1>1, <1>5 DEF ResumableCursor
  <2>. HIDE DEF moved
  <2>4. \A s \in kept : s \in DOMAIN c.filed /\ s \in Nat /\ s < moved
    BY <1>3, ConstantsAssumption
  <2>5. \A s \in kept : s \notin MovedLogs(c)
    BY <2>2, <2>4
  <2>6. \A s \in kept : SourceState(s) = c.filed[s]
    BY <2>4, <2>5 DEF MovedLogs
  <2>7. \A s \in kept : file[s].refs \subseteq c.refs
    BY <1>2, <1>3, <2>4, <2>6 DEF Filed
  <2>8. DOMAIN f = kept /\ \A s \in kept : f[s] = c.filed[s]
    OBVIOUS
  <2>9. f \in Filings
    <3>1. kept \in SUBSET Logs /\ \A s \in kept : c.filed[s] \in LogStates
      BY <1>2, <2>4, FilingType
    <3>2. f \in [kept -> LogStates]
      BY <3>1
    <3>. QED
      BY <3>1, <3>2, FilingMade
  <2>. HIDE DEF f, kept
  <2>10. d \in Cursors /\ d.filed = f /\ d.refs = c.refs
    BY <1>2, <2>3, <2>9 DEF Cursors
  <2>11. Filed(f, c.refs)
    BY <1>2, <2>4, <2>8 DEF Filed
  <2>. HIDE DEF d
  <2>. QED
    BY <1>2, <2>4, <2>7, <2>8, <2>10, <2>11 DEF d
<1>. QED
  BY <1>4, <1>5

\* A mark that opens: what it does not read again is in the buckets.
LEMMA OpenOk ==
    ASSUME Types, NEW c \in {NoCursor} \cup Cursors, UNCHANGED disk,
           c.held => DOMAIN c.filed \subseteq c.listed /\ Filed(c.filed, c.refs),
           Open(c, Live)
    PROVE  /\ listed' = Live /\ pc' = "mark" /\ at' = Nothing
           /\ refs' \subseteq Blocks /\ todo' \subseteq Live
           /\ filed' \in Filings /\ DOMAIN filed' \subseteq Live /\ swept' \in Int
           /\ Filed(filed, refs)'
           /\ \A s \in Live \ todo' : file[s].refs \subseteq refs'
<1>. DEFINE d == ResumableCursor(c, Live)
<1>0. listed' = Live /\ pc' = "mark" /\ at' = Nothing /\ file' = file
  BY DEF Open, disk
<1>1. CASE d.held
  <2>1. /\ d \in Cursors
        /\ DOMAIN d.filed \subseteq Live
        /\ Filed(d.filed, d.refs)
        /\ \A s \in DOMAIN d.filed : file[s].refs \subseteq d.refs
    BY <1>1, Resumable
  <2>2. /\ refs' = d.refs /\ filed' = d.filed /\ swept' = d.swept
        /\ todo' = Live \ DOMAIN d.filed
    BY <1>1 DEF Open
  <2>. HIDE DEF d
  <2>3. d.refs \subseteq Blocks /\ d.filed \in Filings /\ d.swept \in Int
    BY <2>1 DEF Cursors
  <2>4. Filed(filed, refs)'
    BY <1>0, <2>1, <2>2 DEF Filed, SourceState
  <2>. QED
    BY <1>0, <2>1, <2>2, <2>3, <2>4
<1>2. CASE ~d.held
  <2>1. refs' = {} /\ filed' = NoSources /\ swept' = None /\ todo' = Live
    BY <1>2 DEF Open
  <2>2. Filed(filed, refs)'
    BY <2>1, EmptyFiling DEF Filed
  <2>. QED
    BY <1>0, <2>1, <2>2, EmptyFiling DEF None
<1>. QED
  BY <1>1, <1>2

\* A mark that opens, at the start of a pass or again.
LEMMA OpenKeeps ==
    ASSUME IInv, NEW c \in {NoCursor} \cup Cursors, UNCHANGED disk,
           c.held => DOMAIN c.filed \subseteq c.listed /\ Filed(c.filed, c.refs),
           Open(c, Live), CursorTrue', cursor' \in {NoCursor} \cup Cursors,
           victims' \subseteq Blocks, probe' = None, elapsed' \in Nat, elapsed' <= PassMax
    PROVE  IInv'
<1>1. /\ listed' = Live /\ pc' = "mark" /\ at' = Nothing
      /\ refs' \subseteq Blocks /\ todo' \subseteq Live
      /\ filed' \in Filings /\ DOMAIN filed' \subseteq Live /\ swept' \in Int
      /\ Filed(filed, refs)'
      /\ \A s \in Live \ todo' : file[s].refs \subseteq refs'
  BY OpenOk DEF IInv
<1>2. age' = age /\ file' = file /\ pend' = pend /\ Live' = Live
  BY DiskKept
<1>3. Live \subseteq Sources
  BY DEF Live
<1>4. Types'
  BY <1>1, <1>2, <1>3 DEF IInv, Types
<1>5. PassTrue' /\ Judged'
  BY <1>1, <1>2 DEF PassTrue, Live, Judged
<1>6. Marked'
  BY <1>1, <1>2 DEF Marked, Covered
<1>. QED
  BY <1>4, <1>5, <1>6, DiskKept DEF IInv

\* A pass begins.
LEMMA BeginKeeps == ASSUME IInv, Begin PROVE IInv'
<1>1. /\ Open(cursor, Live) /\ cursor' = cursor /\ UNCHANGED disk /\ victims' = {}
      /\ probe' = None /\ elapsed' = 0
  BY DEF Begin
<1>2. /\ cursor \in {NoCursor} \cup Cursors /\ 0 <= PassMax
      /\ cursor.held => /\ DOMAIN cursor.filed \subseteq cursor.listed
                        /\ Filed(cursor.filed, cursor.refs)
  BY ConstantsAssumption DEF IInv, Types, CursorTrue
<1>3. CursorTrue' /\ cursor' \in {NoCursor} \cup Cursors
  BY <1>1, SameCursor
<1>. QED
  BY <1>1, <1>2, <1>3, OpenKeeps

\* The state of the next source is read.
LEMMA MarkStatKeeps == ASSUME IInv, MarkStat PROVE IInv'
<1>. USE DEF IInv
<1>. DEFINE s == Smallest(todo)
<1>1. /\ UNCHANGED disk
      /\ cursor' = cursor
      /\ refs' = refs
      /\ pc' = pc
      /\ listed' = listed
      /\ todo' = todo /\ filed' = filed /\ swept' = swept /\ victims' = victims
      /\ probe' = probe /\ elapsed' = elapsed
      /\ pc = "mark" /\ todo # {} /\ at' = [src |-> s, state |-> SourceState(s)]
  BY DEF MarkStat, work
<1>2. todo \subseteq Nat
  BY ConstantsAssumption DEF Types
<1>3. s \in todo
  BY <1>1, <1>2, SmallestOf
<1>. HIDE DEF s
<1>4. s \in Sources /\ file[s] \in Files
  BY <1>3 DEF Types
<1>5. /\ SourceState(s) \in LogStates
      /\ SourceState(s).ver = file[s].ver
      /\ file[s].ver \in Nat
  BY <1>4 DEF SourceState, LogStates, Files
<1>6. at'.src = s /\ at'.state = SourceState(s)
  BY <1>1
<1>7. age' = age /\ file' = file /\ pend' = pend /\ late' = late /\ Live' = Live /\ snatched' = snatched
  BY <1>1, DiskKept
<1>8. Types'
  BY <1>1, <1>3, <1>5, <1>6, <1>7 DEF Types
<1>9. PassTrue' /\ Judged'
  BY <1>1, <1>5, <1>6, <1>7, FiledKept DEF PassTrue, Judged
<1>10. LeaseCovers => Marked'
  BY <1>1, <1>7 DEF Marked, Covered, Young, Within, Gone
<1>. QED
  BY <1>1, <1>8, <1>9, <1>10, SameCursor, DiskKept

\* A source is read: everything it names is filed, under the state read before.
LEMMA MarkReadKeeps == ASSUME IInv, MarkRead PROVE IInv'
<1>. USE DEF IInv
<1>. DEFINE s == at.src
<1>1. /\ UNCHANGED disk /\ pc' = pc /\ listed' = listed /\ swept' = swept
      /\ victims' = victims /\ probe' = probe /\ elapsed' = elapsed
      /\ pc = "mark" /\ at # Nothing /\ at' = Nothing
      /\ refs' = refs \cup file[s].refs
      /\ todo' = todo \ {s}
      /\ file[s].stage = "live"
      /\ filed' = IF s \notin Logs THEN filed
                  ELSE [t \in DOMAIN filed \cup {s} |-> IF t = s THEN at.state ELSE filed[t]]
      /\ cursor' = Recorded(filed', refs', swept) \/ cursor' = cursor
  BY DEF MarkRead
<1>2. /\ s \in todo /\ s \in listed /\ s \in Sources /\ at.state \in LogStates
      /\ file[s].refs \subseteq Blocks /\ at.state.ver <= file[s].ver
  BY <1>1 DEF Types, Files, PassTrue
<1>. HIDE DEF s
<1>3. age' = age /\ file' = file /\ pend' = pend /\ late' = late /\ Live' = Live /\ snatched' = snatched
  BY <1>1, DiskKept
<1>4. /\ filed \in Filings
      /\ DOMAIN filed \subseteq Logs
      /\ DOMAIN filed \subseteq listed
      /\ \A t \in DOMAIN filed : filed[t] \in LogStates
  BY FilingType DEF Types, PassTrue
<1>5. filed' \in Filings /\ DOMAIN filed' \subseteq listed
  <2>1. CASE s \notin Logs
    BY <1>1, <1>4, <2>1
  <2>2. CASE s \in Logs
    <3>1. /\ filed' \in [DOMAIN filed \cup {s} -> LogStates]
          /\ DOMAIN filed \cup {s} \in SUBSET Logs
      BY <1>1, <1>2, <1>4, <2>2
    <3>2. filed' \in Filings
      BY <3>1, FilingMade
    <3>. QED
      BY <1>1, <1>2, <1>4, <2>2, <3>2
  <2>. QED
    BY <2>1, <2>2
<1>6. refs' \in SUBSET Blocks
  BY <1>1, <1>2 DEF Types
<1>7. Filed(filed', refs')
  <2>. SUFFICES ASSUME NEW x \in DOMAIN filed'
                PROVE  /\ file[x].stage # "unborn"
                       /\ file[x].stage = "live" =>
                            /\ filed'[x].ver <= file[x].ver
                            /\ SourceState(x) = filed'[x] => file[x].refs \subseteq refs'
    BY DEF Filed
  <2>1. CASE x = s /\ s \in Logs
    <3>1. filed'[x] = at.state
      BY <1>1, <2>1
    <3>. QED
      BY <1>1, <1>2, <2>1, <3>1
  <2>2. CASE ~(x = s /\ s \in Logs)
    <3>1. x \in DOMAIN filed /\ filed'[x] = filed[x]
      BY <1>1, <2>2
    <3>2. /\ file[x].stage # "unborn"
          /\ file[x].stage = "live" => /\ filed[x].ver <= file[x].ver
                                       /\ SourceState(x) = filed[x] => file[x].refs \subseteq refs
      BY <3>1 DEF PassTrue, Filed
    <3>. QED
      BY <1>1, <3>1, <3>2
  <2>. QED
    BY <2>1, <2>2
<1>8. Filed(filed, refs)'
  BY <1>3, <1>7 DEF Filed, SourceState
<1>9. CursorTrue' /\ cursor' \in {NoCursor} \cup Cursors
  <2>1. CASE cursor' = cursor
    BY <1>1, <2>1, SameCursor
  <2>2. CASE cursor' = Recorded(filed', refs', swept)
    <3>1. cursor' \in Cursors /\ cursor'.filed = filed' /\ cursor'.refs = refs'
          /\ cursor'.listed = listed
      BY <1>5, <1>6, <2>2 DEF Recorded, Cursors, Types
    <3>2. Filed(cursor.filed, cursor.refs)'
      BY <1>8, <3>1
    <3>. QED
      BY <1>5, <3>1, <3>2 DEF CursorTrue
  <2>. QED
    BY <1>1, <2>1, <2>2
<1>10. Types'
  BY <1>1, <1>3, <1>5, <1>6, <1>9 DEF Types
<1>11. PassTrue' /\ Judged'
  BY <1>1, <1>3, <1>5, <1>8 DEF PassTrue, Judged
<1>12. ASSUME LeaseCovers PROVE Marked'
  <2>. SUFFICES ASSUME NEW x \in (Live \cap listed) \ todo' PROVE Covered(x)'
    BY <1>1, <1>3 DEF Marked
  <2>1. CASE x = s
    BY <1>1, <1>3, <2>1 DEF Covered
  <2>2. CASE x # s
    <3>1. Covered(x)
      BY <1>1, <1>12, <2>2 DEF Marked
    <3>. QED
      BY <1>1, <1>3, <3>1 DEF Covered, Young, Within, Gone
  <2>. QED
    BY <2>1, <2>2
<1>. QED
  BY <1>1, <1>9, <1>10, <1>11, <1>12, DiskKept

\* The ways a pass ends, from the mark and from the sweep.
LEMMA MarkRefusedKeeps == ASSUME IInv, MarkRefused PROVE IInv'
<1>1. Returned /\ UNCHANGED disk /\ cursor' = cursor /\ refs' = refs
  BY DEF MarkRefused, work, Returned, Between
<1>. QED
  BY <1>1, SameCursor, ReturnKeeps DEF IInv, Types

\* The budget ends the mark: the cursor records what is filed.
LEMMA MarkBudgetKeeps == ASSUME IInv, MarkBudget PROVE IInv'
<1>1. /\ Returned
      /\ UNCHANGED disk
      /\ cursor' = Recorded(filed, refs, swept)
      /\ refs' = refs
  BY DEF MarkBudget, Returned, Between
<1>. QED
  BY <1>1, RecordNow, ReturnKeeps DEF IInv, Types

\* The listing moved twice: the mark is recorded and the pass ends without a sweep.
LEMMA RelistMovedKeeps == ASSUME IInv, RelistMoved PROVE IInv'
<1>1. /\ Returned
      /\ UNCHANGED disk
      /\ cursor' = Recorded(filed, refs, swept)
      /\ refs' = refs
  BY DEF RelistMoved, Returned, Between
<1>. QED
  BY <1>1, RecordNow, ReturnKeeps DEF IInv, Types

\* The budget ends the sweep after a shard, which is recorded.
LEMMA ShardBudgetKeeps == ASSUME IInv, ShardBudget PROVE IInv'
<1>1. /\ Returned
      /\ UNCHANGED disk
      /\ cursor' = Recorded(filed, refs, swept)
      /\ refs' = refs
  BY DEF ShardBudget, Returned, Between
<1>. QED
  BY <1>1, RecordNow, ReturnKeeps DEF IInv, Types

\* The buckets go, after the cursor did.
LEMMA FinishRefsKeeps == ASSUME IInv, FinishRefs PROVE IInv'
<1>1. Returned /\ UNCHANGED disk /\ cursor' = cursor /\ refs' = {}
  BY DEF FinishRefs, Returned, Between
<1>. QED
  BY <1>1, SameCursor, ReturnKeeps

\* An error ends the pass and leaves the cursor as it is.
LEMMA FailKeeps == ASSUME IInv, Fail PROVE IInv'
<1>1. Returned /\ UNCHANGED disk /\ cursor' = cursor /\ refs' = refs
  BY DEF Fail, work, Returned, Between
<1>. QED
  BY <1>1, SameCursor, ReturnKeeps DEF IInv, Types

\* The process of the pass dies: what it filed after the cursor is lost.
LEMMA PassDiesKeeps == ASSUME IInv, PassDies PROVE IInv'
<1>1. /\ Returned /\ age' = age /\ file' = file /\ pend' = pend /\ late' = late
      /\ snatched' = snatched \ {probe}
      /\ cursor' = cursor \/ cursor' = NoCursor
      /\ refs' = refs \/ refs' = (IF cursor.held THEN cursor.refs ELSE {})
  BY DEF PassDies, Returned, Between
<1>2. cursor.held => cursor.refs \subseteq Blocks
  BY HeldCursor DEF IInv, Types
<1>3. refs' \subseteq Blocks
  BY <1>1, <1>2 DEF IInv, Types
<1>4. CursorTrue' /\ cursor' \in {NoCursor} \cup Cursors
  BY <1>1, KeptCursor, LostCursor
<1>. QED
  BY <1>1, <1>3, <1>4, ReturnLeaves

\* The listing is still the one that was marked: every source is covered.
LEMMA RelistKeeps == ASSUME IInv, Relist PROVE IInv'
<1>. USE DEF IInv
<1>1. /\ UNCHANGED disk /\ cursor' = Recorded(filed, refs, swept) /\ refs' = refs
      /\ pc' = "sweep"
      /\ listed' = listed
      /\ todo' = todo
      /\ at' = at
      /\ filed' = filed
      /\ swept' = swept
      /\ victims' = victims
      /\ probe' = probe
      /\ elapsed' = elapsed
      /\ pc = "mark" /\ at = Nothing /\ todo = {} /\ Live = listed
  BY DEF Relist, MarkedAll
<1>2. age' = age /\ file' = file /\ pend' = pend /\ late' = late /\ Live' = Live /\ snatched' = snatched
  BY <1>1, DiskKept
<1>3. CursorTrue' /\ cursor' \in Cursors
  BY <1>1, RecordNow
<1>4. Types'
  BY <1>1, <1>2, <1>3 DEF Types
<1>5. PassTrue' /\ Judged'
  BY <1>1, <1>2, FiledKept DEF PassTrue, Judged
<1>6. LeaseCovers => Marked'
  BY <1>1, <1>2 DEF Marked, Covered, Young, Within, Gone
<1>. QED
  BY <1>1, <1>3, <1>4, <1>5, <1>6, DiskKept

\* The listing moved: the record of this mark is of another list and the mark starts over.
LEMMA RelistRestartKeeps == ASSUME IInv, RelistRestart PROVE IInv'
<1>1. /\ UNCHANGED disk
      /\ cursor' = Recorded(filed, refs, swept)
      /\ Open(cursor', Live)
      /\ victims' = victims /\ probe' = probe /\ elapsed' = elapsed /\ pc = "mark"
  BY DEF RelistRestart, MarkedAll
<1>2. CursorTrue' /\ cursor' \in Cursors
  BY <1>1, RecordNow
<1>3. /\ cursor'.filed = filed /\ cursor'.refs = refs /\ cursor'.listed = listed
  BY <1>1 DEF Recorded
<1>4. DOMAIN filed \subseteq listed /\ Filed(filed, refs)
  BY DEF IInv, PassTrue
<1>5. /\ probe' = None
      /\ victims' \subseteq Blocks
      /\ elapsed' \in Nat
      /\ elapsed' <= PassMax
  BY <1>1 DEF IInv, PassTrue, Types
<1>. QED
  BY <1>1, <1>2, <1>3, <1>4, <1>5, OpenKeeps

-----------------------------------------------------------------------------
(* The sweep. *)

\* The blocks of a shard that no bucket names.
LEMMA SweepShardKeeps == ASSUME IInv, SweepShard PROVE IInv'
<1>. USE DEF IInv
<1>. DEFINE h == Smallest(ShardsLeft)
<1>1. /\ UNCHANGED disk
      /\ cursor' = cursor
      /\ refs' = refs
      /\ pc' = "shard"
      /\ pc = "sweep"
      /\ listed' = listed
      /\ todo' = todo
      /\ at' = at
      /\ filed' = filed
      /\ swept' = h
      /\ victims' = {b \in Stored : Shard(b) = h} \ refs /\ probe' = probe
      /\ elapsed' = elapsed /\ ShardsLeft # {}
  BY DEF SweepShard, work
<1>2. h \in Int
  <2>1. ShardsLeft \subseteq Nat
    BY ConstantsAssumption DEF ShardsLeft
  <2>2. h \in ShardsLeft
    BY <1>1, <2>1, SmallestOf
  <2>. HIDE DEF h
  <2>3. h \in Nat
    BY <2>1, <2>2
  <2>. QED
    BY <2>3
<1>. HIDE DEF h
<1>3. age' = age /\ file' = file /\ pend' = pend /\ late' = late /\ Live' = Live /\ snatched' = snatched
  BY <1>1, DiskKept
<1>4. Types'
  BY <1>1, <1>2, <1>3 DEF Types, Stored
<1>5. None \notin refs
  BY ConstantsAssumption DEF Types, None
<1>6. PassTrue' /\ Judged'
  BY <1>1, <1>3, <1>5, FiledKept DEF PassTrue, Judged
<1>7. LeaseCovers => Marked'
  BY <1>1, <1>3 DEF Marked, Covered, Young, Within, Gone
<1>. QED
  BY <1>1, <1>4, <1>6, <1>7, SameCursor, DiskKept

\* A block is found stale, or left.
LEMMA JudgeKeeps == ASSUME IInv, NEW b \in Blocks, Judge(b) PROVE IInv'
<1>. USE DEF IInv
<1>1. /\ UNCHANGED disk
      /\ cursor' = cursor
      /\ refs' = refs
      /\ pc' = pc
      /\ pc = "shard"
      /\ listed' = listed
      /\ todo' = todo
      /\ at' = at
      /\ filed' = filed
      /\ swept' = swept
      /\ victims' = victims \ {b} /\ b \in victims /\ probe' \in {b, None}
      /\ probe' = None \/ age[b] = Lease
      /\ elapsed' = elapsed
  BY DEF Judge, work
<1>2. age' = age /\ file' = file /\ pend' = pend /\ late' = late /\ Live' = Live /\ snatched' = snatched
  BY <1>1, DiskKept
<1>3. Types'
  BY <1>1, <1>2 DEF Types
<1>4. None \notin refs
  BY ConstantsAssumption DEF Types, None
<1>5. PassTrue'
  BY <1>1, <1>2, <1>4, FiledKept DEF PassTrue
<1>7. Judged'
  <2>1. Lease # Absent
    BY ConstantsAssumption DEF Absent
  <2>. QED
    BY <1>1, <1>2, <2>1 DEF Judged
<1>6. LeaseCovers => Marked'
  BY <1>1, <1>2 DEF Marked, Covered, Young, Within, Gone
<1>. QED
  BY <1>1, <1>3, <1>5, <1>6, <1>7, SameCursor, DiskKept

\* The time is read again: a changed one keeps the block.
LEMMA RereadKeeps == ASSUME IInv, Reread PROVE IInv'
<1>. USE DEF IInv
<1>1. /\ UNCHANGED disk
      /\ cursor' = cursor
      /\ refs' = refs
      /\ pc = "shard" /\ probe # None
      /\ \/ pc' = "unlink" /\ probe' = probe /\ age[probe] = Lease
         \/ pc' = pc /\ probe' = None
      /\ listed' = listed
      /\ todo' = todo
      /\ at' = at
      /\ filed' = filed
      /\ swept' = swept
      /\ victims' = victims /\ elapsed' = elapsed
  BY DEF Reread, work
<1>2. age' = age /\ file' = file /\ pend' = pend /\ late' = late /\ Live' = Live /\ snatched' = snatched
  BY <1>1, DiskKept
<1>3. Types'
  BY <1>1, <1>2 DEF Types
<1>4. None \notin refs
  BY ConstantsAssumption DEF Types, None
<1>5. PassTrue' /\ Judged'
  BY <1>1, <1>2, <1>4, FiledKept DEF PassTrue, Judged
<1>6. LeaseCovers => Marked'
  BY <1>1, <1>2 DEF Marked, Covered, Young, Within, Gone
<1>. QED
  BY <1>1, <1>3, <1>5, <1>6, SameCursor, DiskKept

\* A block is removed: it is in no bucket, and as old as the lease, so that no source that
\* the pass covers and no writer names it, or it was stored again after the second read.
LEMMA UnlinkKeeps == ASSUME IInv, Unlink PROVE IInv'
<1>. USE DEF IInv
<1>1. /\ file' = file
      /\ pend' = pend
      /\ late' = late
      /\ snatched' = snatched
      /\ cursor' = cursor
      /\ refs' = refs
      /\ pc' = "shard" /\ pc = "unlink" /\ listed' = listed /\ todo' = todo /\ at' = at
      /\ filed' = filed /\ swept' = swept /\ victims' = victims
      /\ probe' = None /\ elapsed' = elapsed
      /\ age' = [age EXCEPT ![probe] = Absent]
  BY DEF Unlink, work
<1>2. /\ probe \in Blocks /\ probe \notin refs
      /\ age[probe] = Lease \/ probe \in snatched
  BY <1>1 DEF Types, PassTrue, Judged
<1>3. \A b \in Blocks : age'[b] = IF b = probe THEN Absent ELSE age[b]
  BY <1>1, <1>2 DEF Types
<1>4. /\ WriteWindow \in Nat
      /\ PassMax \in Nat
      /\ Lease \in Nat /\ Lease # Absent
      /\ elapsed \in Nat
      /\ elapsed <= PassMax
  BY ConstantsAssumption DEF Types, Absent
<1>5. Types'
  <2>1. age' \in [Blocks -> Int]
    BY <1>1, <1>2 DEF Types, Absent
  <2>. QED
    BY <1>1, <1>4, <2>1 DEF Types
<1>6. CursorTrue'
  BY <1>1, FiledKept DEF CursorTrue
<1>7. None \notin refs
  BY ConstantsAssumption DEF Types, None
<1>8. PassTrue' /\ Judged'
  BY <1>1, <1>7, FiledKept DEF PassTrue, Judged
<1>9. ASSUME NEW b \in Blocks, NEW n \in Nat, n < Lease, Within(b, n) PROVE Within(b, n)'
  <2>1. CASE b # probe
    BY <1>1, <1>3, <1>9, <2>1 DEF Within, Gone
  <2>2. CASE b = probe /\ probe \in snatched
    BY <1>1, <1>3, <2>2 DEF Within, Gone
  <2>3. CASE b = probe /\ age[probe] = Lease
    BY <1>4, <1>9, <2>3 DEF Within, Gone
  <2>. QED
    BY <1>2, <2>1, <2>2, <2>3
<1>10. Fresh'
  <2>. SUFFICES ASSUME NEW x \in Sources, pend[x] # NoPut, LeaseCovers
                PROVE  Within(pend[x].block, pend[x].wait)'
    BY <1>1 DEF Fresh
  <2>1. /\ pend[x].block \in Blocks /\ pend[x].wait \in Nat /\ pend[x].wait <= WriteWindow
        /\ Within(pend[x].block, pend[x].wait)
    BY DEF Fresh, Types
  <2>2. WriteWindow < Lease
    BY <1>4 DEF LeaseCovers
  <2>3. pend[x].wait < Lease
    BY <1>4, <2>1, <2>2
  <2>4. pend' = pend
    BY <1>1
  <2>. QED
    BY <1>9, <2>1, <2>3, <2>4 DEF Within, Gone
<1>11. ASSUME LeaseCovers PROVE Marked' /\ NamedStored'
  <2>1. WriteWindow + elapsed < Lease /\ WriteWindow + elapsed \in Nat
    BY <1>4, <1>11 DEF LeaseCovers
  <2>2. Live' = Live /\ Live \subseteq Sources
    BY <1>1 DEF Live
  <2>3. ASSUME NEW b \in Blocks, Young(b) PROVE Young(b)'
    BY <1>1, <1>9, <2>1, <2>3 DEF Young, Within, Gone
  <2>4. ASSUME NEW x \in Live \ late, NEW b \in file[x].refs
        PROVE  b \in Blocks /\ (b \in refs \/ Young(b)')
    <3>1. b \in Blocks
      BY <2>2 DEF Types, Files
    <3>2. b \in refs \/ Young(b)
      BY <1>1, <1>11 DEF Marked, Covered
    <3>. QED
      BY <2>3, <3>1, <3>2
  <2>5. Marked'
    BY <1>1, <2>2, <2>4 DEF Marked, Covered
  <2>6. ASSUME NEW x \in Live \ late, NEW b \in file[x].refs
        PROVE  b \in (Stored \cup snatched)'
    <3>1. CASE b \in refs
      <4>1. b # probe /\ b \in Blocks /\ b \in Stored \cup snatched
        BY <1>2, <1>11, <2>4, <3>1 DEF NamedStored
      <4>. QED
        BY <1>1, <1>3, <4>1 DEF Stored
    <3>2. CASE Young(b)'
      BY <2>4, <3>2 DEF Young, Within, Gone, Stored
    <3>. QED
      BY <2>4, <3>1, <3>2
  <2>7. NamedStored'
    BY <1>1, <2>2, <2>6 DEF NamedStored
  <2>. QED
    BY <2>5, <2>7
<1>12. Nameless' /\ Aged'
  BY <1>1, <1>3 DEF Nameless, Aged, Absent
<1>. QED
  BY <1>5, <1>6, <1>8, <1>10, <1>11, <1>12

\* The file cannot be removed: the block stays, whenever it was stored.
LEMMA UnlinkFailsKeeps == ASSUME IInv, UnlinkFails PROVE IInv'
<1>. USE DEF IInv
<1>1. /\ age' = age
      /\ file' = file
      /\ pend' = pend
      /\ late' = late
      /\ snatched' = snatched \ {probe}
      /\ cursor' = cursor
      /\ refs' = refs
      /\ pc' = "shard" /\ pc = "unlink" /\ listed' = listed /\ todo' = todo /\ at' = at
      /\ filed' = filed /\ swept' = swept /\ victims' = victims
      /\ probe' = None /\ elapsed' = elapsed
  BY DEF UnlinkFails, work
<1>2. probe \in Blocks /\ age[probe] # Absent
  BY <1>1 DEF Types, Judged
<1>3. \A b \in Blocks : /\ Gone(b) => Gone(b)'
                        /\ b \in Stored \cup snatched => b \in (Stored \cup snatched)'
  BY <1>1, <1>2 DEF Gone, Stored
<1>4. Types'
  BY <1>1 DEF Types
<1>5. None \notin refs
  BY ConstantsAssumption DEF Types, None
<1>6. PassTrue' /\ Judged' /\ CursorTrue'
  BY <1>1, <1>5, FiledKept DEF PassTrue, Judged, CursorTrue
<1>7. Fresh' /\ Nameless' /\ Aged'
  BY <1>1, <1>3 DEF Fresh, Within, Nameless, Aged
<1>8. ASSUME LeaseCovers PROVE Marked' /\ NamedStored'
  <2>1. Live' = Live /\ Live \subseteq Sources /\ \A x \in Sources : file[x].refs \subseteq Blocks
    BY <1>1 DEF Live, Types, Files
  <2>2. \A b \in Blocks : Young(b) => Young(b)'
    BY <1>1, <1>3 DEF Young, Within
  <2>3. \A x \in Live : Covered(x) => Covered(x)'
    BY <1>1, <2>1, <2>2 DEF Covered
  <2>4. Marked'
    BY <1>1, <1>8, <2>1, <2>3 DEF Marked
  <2>5. NamedStored'
    BY <1>1, <1>3, <1>8, <2>1 DEF NamedStored
  <2>. QED
    BY <2>4, <2>5
<1>. QED
  BY <1>4, <1>6, <1>7, <1>8

\* A shard is finished.
LEMMA ShardEndKeeps == ASSUME IInv, ShardEnd PROVE IInv'
<1>. USE DEF IInv
<1>1. /\ UNCHANGED disk
      /\ refs' = refs
      /\ pc' = "sweep"
      /\ pc = "shard"
      /\ probe = None
      /\ cursor' = Recorded(filed, refs, swept) \/ cursor' = cursor
      /\ listed' = listed
      /\ todo' = todo
      /\ at' = at
      /\ filed' = filed
      /\ swept' = swept
      /\ victims' = victims /\ probe' = probe /\ elapsed' = elapsed
  BY DEF ShardEnd
<1>2. age' = age /\ file' = file /\ pend' = pend /\ late' = late /\ Live' = Live /\ snatched' = snatched
  BY <1>1, DiskKept
<1>3. CursorTrue' /\ cursor' \in {NoCursor} \cup Cursors
  BY <1>1, SameCursor, RecordNow
<1>4. Types'
  BY <1>1, <1>2, <1>3 DEF Types
<1>5. PassTrue' /\ Judged'
  BY <1>1, <1>2, FiledKept DEF PassTrue, Judged
<1>6. LeaseCovers => Marked'
  BY <1>1, <1>2 DEF Marked, Covered, Young, Within, Gone
<1>. QED
  BY <1>1, <1>3, <1>4, <1>5, <1>6, DiskKept

\* The sweep is over: the cursor goes first.
LEMMA FinishCursorKeeps == ASSUME IInv, FinishCursor PROVE IInv'
<1>. USE DEF IInv
<1>1. /\ UNCHANGED disk /\ refs' = refs /\ pc' = "clear" /\ pc = "sweep"
      /\ cursor' = NoCursor
      /\ listed' = listed
      /\ todo' = todo
      /\ at' = at
      /\ filed' = filed
      /\ swept' = swept
      /\ victims' = victims /\ probe' = probe /\ elapsed' = elapsed
  BY DEF FinishCursor
<1>2. age' = age /\ file' = file /\ pend' = pend /\ late' = late /\ Live' = Live /\ snatched' = snatched
  BY <1>1, DiskKept
<1>3. CursorTrue' /\ cursor' \in {NoCursor} \cup Cursors
  BY <1>1, LostCursor
<1>4. Types'
  BY <1>1, <1>2, <1>3 DEF Types
<1>5. PassTrue' /\ Judged'
  BY <1>1, <1>2, FiledKept DEF PassTrue, Judged
<1>6. Marked'
  BY <1>1 DEF Marked
<1>. QED
  BY <1>1, <1>3, <1>4, <1>5, <1>6, DiskKept

-----------------------------------------------------------------------------
(* The invariant. *)

\* The invariant holds of an empty store.
LEMMA InitHolds == Init => IInv
<1>. SUFFICES ASSUME Init PROVE IInv
  OBVIOUS
<1>1. Types
  BY EmptyFiling, ConstantsAssumption DEF Init, Types, Files, NoPut, Absent, None
<1>2. CursorTrue
  BY DEF Init, CursorTrue, NoCursor
<1>3. PassTrue
  BY EmptyFiling DEF Init, PassTrue, Filed
<1>4. Fresh /\ Nameless /\ Aged /\ Judged
  BY DEF Init, Fresh, Nameless, Aged, Absent, Judged
<1>5. Marked /\ NamedStored
  BY DEF Init, Marked, NamedStored, Live
<1>. QED
  BY <1>1, <1>2, <1>3, <1>4, <1>5 DEF IInv

\* It says nothing of anything but the variables.
LEMMA StutterKeeps == IInv /\ UNCHANGED vars => IInv'
<1>. SUFFICES ASSUME IInv, UNCHANGED vars PROVE IInv'
  OBVIOUS
<1>1. /\ UNCHANGED disk
      /\ cursor' = cursor
      /\ refs' = refs
      /\ pc' = pc
      /\ listed' = listed
      /\ todo' = todo
      /\ at' = at
      /\ filed' = filed
      /\ swept' = swept
      /\ victims' = victims
      /\ probe' = probe /\ elapsed' = elapsed
  BY DEF vars, work, pass
<1>2. age' = age /\ file' = file /\ pend' = pend /\ late' = late /\ Live' = Live /\ snatched' = snatched
  BY <1>1, DiskKept
<1>3. Types' /\ PassTrue' /\ Judged'
  BY <1>1, <1>2, FiledKept DEF IInv, Types, PassTrue, Judged
<1>4. LeaseCovers => Marked'
  BY <1>1, <1>2 DEF IInv, Marked, Covered, Young, Within, Gone
<1>. QED
  BY <1>1, <1>3, <1>4, SameCursor, DiskKept DEF IInv

\* Every step of a writer, of the pass or of the clock keeps it.
LEMMA Inductive == IInv /\ [Next]_vars => IInv'
<1>. SUFFICES ASSUME IInv, Next PROVE IInv'
  BY StutterKeeps
<1>1. CASE Write
  BY <1>1, PutKeeps, ImportKeeps, AppendKeeps, WriterDiesKeeps, DeleteKeeps
  DEF Write
<1>2. CASE Mark
  BY <1>2, MarkStatKeeps, MarkReadKeeps, MarkRefusedKeeps, MarkBudgetKeeps,
     RelistKeeps,
     RelistRestartKeeps, RelistMovedKeeps DEF Mark
<1>3. CASE Sweep
  BY <1>3, SweepShardKeeps, JudgeKeeps, RereadKeeps, UnlinkKeeps, UnlinkFailsKeeps,
     ShardEndKeeps,
     ShardBudgetKeeps,
     FinishCursorKeeps, FinishRefsKeeps DEF Sweep
<1>. QED
  BY <1>1, <1>2, <1>3, TickKeeps, BeginKeeps, FailKeeps, PassDiesKeeps DEF Next

\* IInv holds of every reachable state of the block store, whether or not the lease
\* covers a write and a pass (gc.rs, blocks.rs).
THEOREM Invariance == Spec => []IInv
BY InitHolds, Inductive, PTL DEF Spec

-----------------------------------------------------------------------------
(* What reclaim promises. *)

\* gc.rs, resumable_cursor: whatever grew, vanished, tore or died since, a log that a
\* resumed mark skips names no block that the recorded buckets miss.
THEOREM ResumeTrusted == Spec => []CursorBacked
<1>1. ASSUME IInv PROVE CursorBacked
  BY <1>1 DEF IInv, CursorBacked, CursorTrue, Filed
<1>. QED
  BY <1>1, Invariance, PTL

\* sweep.rs, remove_if_stale: as long as the write lease is longer than the time from a
\* put to its append and a pass together, no block that a log or a record names is ever
\* removed, except for a session imported under the sweep and a block stored again
\* between the second read of its time and the unlink.
THEOREM NamedKept == LeaseCovers => (Spec => []NamedStored)
<1>1. ASSUME IInv, LeaseCovers PROVE NamedStored
  BY <1>1 DEF IInv
<1>2. LeaseCovers /\ []IInv => []NamedStored
  <2>1. LeaseCovers => [](IInv => NamedStored)
    <3>. SUFFICES ASSUME LeaseCovers PROVE [](IInv => NamedStored)
      OBVIOUS
    <3>1. IInv => NamedStored
      BY <1>1
    <3>. QED
      BY <3>1, PTL
  <2>. QED
    BY <2>1, PTL
<1>. QED
  BY <1>2, Invariance, PTL

\* ... nor, with the second exception only, one whose writer has stored it and not yet
\* appended the event that names it.
THEOREM PendingKept == LeaseCovers => (Spec => []PendingStored)
<1>1. ASSUME IInv, LeaseCovers PROVE PendingStored
  <2>. SUFFICES ASSUME NEW s \in Sources, pend[s].block # None 
                PROVE  pend[s].block \in Stored \cup snatched
    BY DEF PendingStored, Pending
  <2>1. pend[s] # NoPut
    BY DEF NoPut
  <2>. QED
    BY <1>1, <2>1, PendingYoung DEF Stored, Within, Gone
<1>2. LeaseCovers => [](IInv => PendingStored)
  <2>. SUFFICES ASSUME LeaseCovers PROVE [](IInv => PendingStored)
    OBVIOUS
  <2>1. IInv => PendingStored
    BY <1>1
  <2>. QED
    BY <2>1, PTL
<1>. QED
  BY <1>2, Invariance, PTL

=============================================================================
