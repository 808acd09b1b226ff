-------------------------- MODULE SessionLogProofs --------------------------
(***************************************************************************)
(* Proofs about SessionLog, for every set of events, every set of claims,  *)
(* every combination of faults and any number of appends and restarts.     *)
(*                                                                         *)
(* The invariants a run checks are not inductive by themselves: they need  *)
(* what the append in flight knows of the file (its link is still the tip, *)
(* no claim has landed since append_if looked) and what the verify thread  *)
(* has established about the lines it has passed.                          *)
(*                                                                         *)
(* The second half is about LogState, the in-process state over that log:  *)
(* for every budget, page limit and log, the state is the log's and a      *)
(* reader's walk loses no record, until one of the things happens that     *)
(* LogState calls astray.                                                  *)
(***************************************************************************)
EXTENDS SessionLog, LogState, SequenceTheorems, FiniteSetTheorems,
        WellFoundedInduction, TLAPS

AllEnded(l) == \A i \in 1..Len(l) : l[i].ended

\* The append in flight: it carries a real id, the link it computed is still
\* the tip of an undamaged file, and a claim in flight is the only one.
InFlight ==
    /\ ~writing.busy => ~writing.partial
    /\ writing.busy => writing.id \in EventIds
    /\ writing.busy /\ ~damaged => writing.prev = Tip(log)
    /\ writing.busy /\ writing.id \in Claims => ScanIds(log) \cap Claims = {}

\* The lines the verify thread has passed: terminated, chained, and the last
\* of them is the one whose hash it carries.
Walked ==
    verify.verdict \in {"running", "verified"} =>
        /\ verify.pos <= Len(log)
        /\ ChainedUpTo(log, verify.pos)
        /\ \A i \in 1..verify.pos : log[i].ended
        /\ verify.prev = IF verify.pos = 0 THEN << >> ELSE HashLine(log[verify.pos])

IInv ==
    /\ TypeOK
    /\ ChainIntegrity
    /\ AckedReadable
    /\ OneClaim
    /\ InFlight
    /\ Walked

-----------------------------------------------------------------------------
(* The operators on lines and files. *)

\* The digest of a line is a hash, and never "no hash".
LEMMA HashLineType ==
  ASSUME NEW line \in Line
  PROVE  HashLine(line) \in Hash /\ HashLine(line) # << >>
<1>1. line.prev \in Seq(Symbols) /\ line.id \in Symbols
  BY DEF Line, Hash
<1>2. /\ Append(line.prev, line.id) \in Seq(Symbols)
      /\ Len(Append(line.prev, line.id)) = Len(line.prev) + 1
  BY <1>1
<1>3. Len(line.prev) \in Nat /\ Len(<< >>) = 0
  BY <1>1
<1> QED
  BY <1>2, <1>3 DEF HashLine, Hash

\* The pieces a write can leave are lines.
LEMMA PieceType ==
  /\ \A b \in BOOLEAN : Garbled(b) \in Line
  /\ \A e \in EventIds, h \in Hash : Record(e, h) \in Line /\ Unended(e, h) \in Line
<1>1. << >> \in Hash
  BY EmptySeq DEF Hash
<1> QED
  BY <1>1 DEF Garbled, Record, Unended, Line, Symbols

\* Writing a piece either adds one line or garbles an unterminated last line;
\* every terminated line stays where it was.
LEMMA LandFacts ==
  ASSUME NEW l \in Seq(Line), NEW piece \in Line
  PROVE  /\ Land(l, piece) \in Seq(Line)
         /\ Len(Land(l, piece)) \in {Len(l), Len(l) + 1}
         /\ \A i \in 1..Len(l) : l[i].ended => Land(l, piece)[i] = l[i]
         /\ \A i \in 1..Len(Land(l, piece)) :
               \/ i <= Len(l) /\ Land(l, piece)[i] = l[i]
               \/ i = Len(Land(l, piece))
                  /\ Land(l, piece)[i].id \in {Torn, piece.id}
                  /\ Land(l, piece)[i].ended = piece.ended
<1>0. piece.ended \in BOOLEAN /\ Len(l) \in Nat
  BY DEF Line
<1>1. CASE OpenEnded(l)
  <2> DEFINE g == Garbled(piece.ended)
  <2>1. g \in Line /\ g.id = Torn /\ g.ended = piece.ended
    BY <1>0, PieceType DEF Garbled
  <2>2. Land(l, piece) = [l EXCEPT ![Len(l)] = g]
    BY <1>1 DEF Land
  <2>3. Len(l) \in 1..Len(l) /\ ~l[Len(l)].ended
    BY <1>1, <1>0, EmptySeq DEF OpenEnded
  <2> HIDE DEF g
  <2>4. /\ Land(l, piece) \in Seq(Line)
        /\ Len(Land(l, piece)) = Len(l)
        /\ \A j \in 1..Len(l) : Land(l, piece)[j] = IF j = Len(l) THEN g ELSE l[j]
    BY <2>1, <2>2, <2>3, ExceptSeq
  <2> QED
    BY <2>1, <2>3, <2>4
<1>2. CASE ~OpenEnded(l)
  BY <1>2 DEF Land
<1> QED BY <1>1, <1>2

\* What a cold link reads is a hash.
LEMMA TipType ==
  ASSUME NEW l \in Seq(Line)
  PROVE  Tip(l) \in Hash
<1>1. CASE l = << >>
  BY <1>1, EmptySeq DEF Tip, Hash
<1>2. CASE l # << >>
  <2>1. Len(l) \in Nat \ {0}
    BY <1>2
  <2>a. \A n \in Nat \ {0} : n \in 1..n /\ (n # 1 => n - 1 \in 1..n)
    OBVIOUS
  <2>2. Len(l) \in 1..Len(l) /\ (Len(l) # 1 => Len(l) - 1 \in 1..Len(l))
    BY <2>1, <2>a
  <2>3. l[Len(l)] \in Line /\ (Len(l) # 1 => l[Len(l) - 1] \in Line)
    BY <2>2, ElementOfSeq
  <2> QED BY <1>2, <2>3, HashLineType DEF Tip
<1> QED BY <1>1, <1>2

\* A file whose lines are all terminated is not open-ended, its tip is the hash
\* of its last line, and a write adds a line.
LEMMA EndedTip ==
  ASSUME NEW l \in Seq(Line), AllEnded(l)
  PROVE  /\ ~OpenEnded(l)
         /\ Tip(l) = IF Len(l) = 0 THEN << >> ELSE HashLine(l[Len(l)])
         /\ \A piece \in Line : Land(l, piece) = Append(l, piece)
<1>1. l # << >> => Len(l) \in 1..Len(l)
  OBVIOUS
<1>2. l = << >> <=> Len(l) = 0
  OBVIOUS
<1> QED BY <1>1, <1>2 DEF AllEnded, OpenEnded, Tip, Land

\* Appending the record that carries the tip extends the chain.
LEMMA ChainStep ==
  ASSUME NEW l \in Seq(Line), AllEnded(l), Chained(l),
         NEW e \in EventIds
  PROVE  LET r == Record(e, Tip(l)) IN
         /\ Land(l, r) = Append(l, r)
         /\ Chained(Append(l, r))
         /\ AllEnded(Append(l, r))
         /\ Tip(Append(l, r)) = HashLine(r)
<1> DEFINE r == Record(e, Tip(l))
<1>1. r \in Line /\ r.id = e /\ r.ended = TRUE /\ r.prev = Tip(l)
  BY TipType, PieceType DEF Record
<1> HIDE DEF r
<1>2. /\ Append(l, r) \in Seq(Line)
      /\ Len(Append(l, r)) = Len(l) + 1
      /\ Append(l, r)[Len(l) + 1] = r
      /\ \A i \in 1..Len(l) : Append(l, r)[i] = l[i]
      /\ Len(l) \in Nat
  BY <1>1
<1>3. AllEnded(Append(l, r))
  BY <1>1, <1>2 DEF AllEnded
<1>4. IsRecord(r)
  BY <1>1, ConstantsAssumption DEF IsRecord
<1>5. Chained(Append(l, r))
  <2> SUFFICES ASSUME NEW i \in 1..Len(Append(l, r))
               PROVE  /\ IsRecord(Append(l, r)[i])
                      /\ Append(l, r)[i].prev =
                           IF i = 1 THEN << >> ELSE HashLine(Append(l, r)[i - 1])
    BY DEF Chained, ChainedUpTo
  <2>1. CASE i \in 1..Len(l)
    <3>1. i # 1 => i - 1 \in 1..Len(l)
      BY <2>1
    <3> QED BY <2>1, <3>1, <1>2 DEF Chained, ChainedUpTo
  <2>2. CASE i = Len(l) + 1
    <3>1. Len(l) # 0 => i - 1 \in 1..Len(l) /\ i - 1 = Len(l) /\ i # 1
      BY <2>2, <1>2
    <3>2. Tip(l) = IF Len(l) = 0 THEN << >> ELSE HashLine(l[Len(l)])
      BY EndedTip
    <3>3. Len(l) = 0 => i = 1
      BY <2>2
    <3> QED BY <2>2, <3>1, <3>2, <3>3, <1>1, <1>2, <1>4
  <2> QED BY <2>1, <2>2, <1>2
<1>6. Tip(Append(l, r)) = HashLine(r)
  <2>1. Len(l) + 1 # 0
    BY <1>2
  <2>2. Tip(Append(l, r)) = IF Len(Append(l, r)) = 0 THEN << >>
                            ELSE HashLine(Append(l, r)[Len(Append(l, r))])
    BY <1>2, <1>3, EndedTip
  <2> QED BY <1>2, <2>1, <2>2
<1>7. Land(l, r) = Append(l, r)
  BY <1>1, EndedTip
<1> QED BY <1>3, <1>5, <1>6, <1>7 DEF r

-----------------------------------------------------------------------------
(* Every variable keeps its shape. *)

\* The link LogChain::link returns is a hash, and the ids the backend scans
\* are event ids.
LEMMA LinkType == TypeOK => Link \in Hash /\ Seen \subseteq EventIds
<1> SUFFICES ASSUME TypeOK PROVE Link \in Hash /\ Seen \subseteq EventIds
  OBVIOUS
<1>1. Link \in Hash
  BY TipType DEF TypeOK, Link
<1>2. ScanIds(log) \subseteq EventIds
  <2> SUFFICES ASSUME NEW i \in 1..Len(log), log[i].id # Torn
               PROVE  log[i].id \in EventIds
    BY DEF ScanIds
  <2>1. log[i] \in Line
    BY ElementOfSeq DEF TypeOK
  <2> QED BY <2>1 DEF Line, Symbols
<1> QED BY <1>1, <1>2 DEF TypeOK, Seen

\* What an interrupted write leaves is the file as it was, or the file with one
\* of three pieces at its end.
LEMMA LeftoversType ==
  ASSUME TypeOK, writing.busy => writing.id \in EventIds, writing.busy
  PROVE  \A left \in Leftovers :
            left = log \/ \E piece \in Line :
                /\ left = Land(log, piece)
                /\ piece \in {Garbled(FALSE), Unended(writing.id, writing.prev),
                              Record(writing.id, writing.prev)}
<1>1. writing.id \in EventIds /\ writing.prev \in Hash
  BY DEF TypeOK
<1>2. /\ Garbled(FALSE) \in Line
      /\ Unended(writing.id, writing.prev) \in Line
      /\ Record(writing.id, writing.prev) \in Line
  BY <1>1, PieceType
<1> QED BY <1>2 DEF Leftovers

\* Every step of the store, a fault or the verify thread keeps the shapes.
LEMMA TypeInductive ==
  ASSUME TypeOK, writing.busy => writing.id \in EventIds, [Next]_vars
  PROVE  TypeOK'
<1> USE DEF TypeOK
<1>1. ASSUME NEW e \in EventIds, Present(e), BeginWrite(e) \/ DedupAppend(e)
      PROVE  TypeOK'
  <2>1. Link \in Hash /\ Seen \subseteq EventIds
    BY LinkType
  <2>2. presented' \subseteq EventIds /\ appends' \in Nat
    BY <1>1 DEF Present
  <2>3. CASE BeginWrite(e)
    BY <2>1, <2>2, <2>3 DEF BeginWrite, Symbols
  <2>4. CASE DedupAppend(e)
    <3>1. Append(Link, e) \in Hash
      BY <2>1 DEF Hash, Symbols
    <3> QED BY <2>1, <2>2, <2>4, <3>1 DEF DedupAppend
  <2> QED BY <1>1, <2>3, <2>4
<1>2. CASE WritePartial
  BY <1>2 DEF WritePartial
<1>3. Idle \in [busy : BOOLEAN, id : Symbols, prev : Hash, partial : BOOLEAN]
  <2>1. << >> \in Hash
    BY EmptySeq DEF Hash
  <2> QED BY <2>1 DEF Idle, Symbols
<1>4. CASE WriteOk
  <2>1. Record(writing.id, writing.prev) \in Line
    BY <1>4, PieceType DEF WriteOk
  <2>2. Land(log, Record(writing.id, writing.prev)) \in Seq(Line)
    BY <2>1, LandFacts
  <2>3. HashLine(Record(writing.id, writing.prev)) \in Hash
    BY <2>1, HashLineType
  <2> QED BY <1>3, <1>4, <2>2, <2>3 DEF WriteOk
<1>5. ASSUME NEW left \in Leftovers, writing.busy PROVE left \in Seq(Line)
  <2>1. CASE left = log
    BY <2>1
  <2>2. ASSUME NEW piece \in Line, left = Land(log, piece) PROVE left \in Seq(Line)
    BY <2>2, LandFacts
  <2> QED BY <1>5, <2>1, <2>2, LeftoversType
<1>6. CASE WriteFails
  BY <1>3, <1>5, <1>6 DEF WriteFails
<1>7. ASSUME NEW left \in Seq(Line), Reopen(left), damaged' \in BOOLEAN
      PROVE  TypeOK'
  <2>1. /\ << >> \in Hash
        /\ NoVerify \in [verdict : Verdicts, pos : Nat, prev : Hash, mid : BOOLEAN]
    BY EmptySeq DEF Hash, NoVerify, Verdicts
  <2>2. /\ log' \in Seq(Line)
        /\ writing' = Idle
        /\ held' = << >>
        /\ warm' = FALSE
        /\ seen' = {}
        /\ verify' = NoVerify /\ restarts' \in Nat
        /\ UNCHANGED <<acked, presented, appends>>
    BY <1>7 DEF Reopen
  <2> QED BY <1>3, <1>7, <2>1, <2>2
<1>8. CASE Restart
  BY <1>7, <1>8 DEF Restart
<1>9. CASE Crash
  BY <1>5, <1>7, <1>9 DEF Crash
<1>10. CASE Verify
  <2>1. CASE VerifyStart
    <3>1. << >> \in Hash
      BY EmptySeq DEF Hash
    <3> QED BY <2>1, <3>1 DEF VerifyStart, NoVerify, Verdicts
  <2>2. CASE VerifyLine
    <3>1. View \in Seq(Line)
      BY LandFacts, PieceType DEF View
    <3>2. View[verify.pos + 1] \in Line
      BY <2>2, <3>1, ElementOfSeq DEF VerifyLine, Ended
    <3>3. HashLine(View[verify.pos + 1]) \in Hash
      BY <3>2, HashLineType
    <3>4. \/ verify' = [verify EXCEPT !.pos = verify.pos + 1, !.prev = HashLine(View[verify.pos + 1])]
          \/ verify' = [verify EXCEPT !.verdict = "unverified"]
      BY <2>2 DEF VerifyLine
    <3>5. verify' \in [verdict : Verdicts, pos : Nat, prev : Hash, mid : BOOLEAN]
      <4> DEFINE h == HashLine(View[verify.pos + 1])
      <4>1. h \in Hash /\ verify.pos + 1 \in Nat
        BY <3>3
      <4> HIDE DEF h
      <4>2. verify' = [verify EXCEPT !.pos = verify.pos + 1, !.prev = h]
            \/ verify' = [verify EXCEPT !.verdict = "unverified"]
        BY <3>4 DEF h
      <4> QED BY <4>1, <4>2 DEF Verdicts
    <3> QED BY <2>2, <3>5 DEF VerifyLine
  <2>3. CASE VerifyTail \/ VerifyAfterTail \/ VerifyEnd
    BY <2>3 DEF VerifyTail, VerifyAfterTail, VerifyEnd, Verdicts
  <2> QED BY <1>10, <2>1, <2>2, <2>3 DEF Verify
<1>11. CASE UNCHANGED vars
  BY <1>11 DEF vars
<1> QED
  BY <1>1, <1>2, <1>4, <1>6, <1>8, <1>9, <1>10, <1>11
  DEF Next, StoreAppend, AppendIf

-----------------------------------------------------------------------------
(* What one step does to the file. *)

\* A step leaves the file alone, or is the end of the append in flight: its
\* bytes, or what is left of them, go to the end of the file.
LEMMA LogStep ==
  ASSUME TypeOK, InFlight, [Next]_vars
  PROVE  \/ log' = log
         \/ /\ writing.busy
            /\ ~writing'.busy
            /\ \E piece \in Line : log' = Land(log, piece) /\ piece.id \in {Torn, writing.id}
<1>1. ~Idle.busy
  BY DEF Idle
<1>2. writing.busy => /\ Record(writing.id, writing.prev) \in Line
                      /\ Record(writing.id, writing.prev).id = writing.id
                      /\ Unended(writing.id, writing.prev).id = writing.id
                      /\ Garbled(FALSE).id = Torn
  BY PieceType DEF InFlight, TypeOK, Record, Unended, Garbled
<1>3. ASSUME NEW left \in Leftovers, writing.busy
      PROVE  left = log \/ \E piece \in Line : left = Land(log, piece) /\ piece.id \in {Torn, writing.id}
  BY <1>2, <1>3, LeftoversType DEF InFlight
<1>4. CASE WriteOk
  BY <1>1, <1>2, <1>4 DEF WriteOk
<1>5. CASE WriteFails
  BY <1>1, <1>3, <1>5 DEF WriteFails
<1>6. CASE Crash
  BY <1>1, <1>3, <1>6 DEF Crash, Reopen
<1>7. CASE Restart
  BY <1>7 DEF Restart, Reopen
<1>8. CASE (\E e \in EventIds : StoreAppend(e) \/ AppendIf(e)) \/ WritePartial \/ UNCHANGED vars
  BY <1>8 DEF StoreAppend, AppendIf, BeginWrite, DedupAppend, WritePartial, vars
<1>9. CASE Verify
  BY <1>9
  DEF Verify, VerifyStart, VerifyLine, VerifyTail, VerifyAfterTail, VerifyEnd
<1> QED BY <1>4, <1>5, <1>6, <1>7, <1>8, <1>9 DEF Next

\* Terminated lines stay.
LEMMA EndedStays ==
  ASSUME TypeOK, InFlight, [Next]_vars
  PROVE  /\ Len(log) <= Len(log')
         /\ \A i \in 1..Len(log) : log[i].ended => log'[i] = log[i]
<1>1. Len(log) \in Nat
  BY DEF TypeOK
<1>2. CASE log' = log
  BY <1>1, <1>2
<1>3. ASSUME NEW piece \in Line, log' = Land(log, piece)
      PROVE  /\ Len(log) <= Len(log')
             /\ \A i \in 1..Len(log) : log[i].ended => log'[i] = log[i]
  <2>1. log \in Seq(Line)
    BY DEF TypeOK
  <2>2. Len(log') \in {Len(log), Len(log) + 1}
    BY <1>3, <2>1, LandFacts
  <2>3. \A i \in 1..Len(log) : log[i].ended => log'[i] = log[i]
    BY <1>3, <2>1, LandFacts
  <2> QED BY <1>1, <2>2, <2>3
<1> QED BY <1>2, <1>3, LogStep

\* While nothing is damaged, a step that changes the file adds the record in
\* flight, and every terminated line read through View is a line of the file.
LEMMA UndamagedStep ==
  ASSUME IInv, [Next]_vars, ~damaged'
  PROVE  /\ ~damaged
         /\ \/ log' = log
            \/ /\ writing.busy
               /\ log' = Append(log, Record(writing.id, writing.prev))
<1>1. AllEnded(log) \/ damaged
  BY DEF IInv, ChainIntegrity, AllEnded
<1>2. log \in Seq(Line) /\ damaged \in BOOLEAN
  BY DEF IInv, TypeOK
<1>3. writing.busy => /\ Record(writing.id, writing.prev) \in Line
                      /\ Unended(writing.id, writing.prev) \in Line
                      /\ Garbled(FALSE) \in Line
  BY PieceType DEF IInv, InFlight, TypeOK
<1>4. ASSUME NEW piece \in Line, AllEnded(log), ~piece.ended
      PROVE  OpenEnded(Land(log, piece))
  <2>1. Land(log, piece) = Append(log, piece)
    BY <1>2, <1>4, EndedTip
  <2>2. /\ Len(Append(log, piece)) = Len(log) + 1
        /\ Append(log, piece)[Len(log) + 1] = piece
        /\ Append(log, piece) # << >>
    BY <1>2
  <2> QED BY <1>4, <2>1, <2>2 DEF OpenEnded
<1>5. CASE WriteOk
  BY <1>1, <1>2, <1>3, <1>5, EndedTip DEF WriteOk
<1>6. CASE WriteFails
  BY <1>6 DEF WriteFails
<1>7. CASE Crash
  <2>1. PICK left \in Leftovers : log' = left /\ ~damaged /\ ~OpenEnded(left)
    BY <1>7, <1>2 DEF Crash, Reopen
  <2>2. AllEnded(log)
    BY <1>1, <2>1
  <2>3. ~Garbled(FALSE).ended /\ ~Unended(writing.id, writing.prev).ended
    BY DEF Garbled, Unended
  <2>4. left \in {log, Land(log, Record(writing.id, writing.prev))}
    BY <1>3, <1>4, <1>7, <2>1, <2>2, <2>3 DEF Leftovers, Crash
  <2> QED BY <1>2, <1>3, <1>7, <2>1, <2>2, <2>4, EndedTip DEF Crash
<1>8. CASE Restart
  BY <1>8 DEF Restart, Reopen
<1>9. CASE (\E e \in EventIds : StoreAppend(e) \/ AppendIf(e)) \/ WritePartial \/ UNCHANGED vars
  BY <1>9 DEF StoreAppend, AppendIf, BeginWrite, DedupAppend, WritePartial, vars
<1>10. CASE Verify
  BY <1>10
  DEF Verify, VerifyStart, VerifyLine, VerifyTail, VerifyAfterTail, VerifyEnd
<1> QED BY <1>5, <1>6, <1>7, <1>8, <1>9, <1>10 DEF Next

-----------------------------------------------------------------------------
(* Each part of the invariant is preserved. *)

\* append_locked, append_if, the faults and restarts keep an undamaged file one
\* chain whose tip the cache holds.
LEMMA ChainPreserved ==
  ASSUME IInv, [Next]_vars
  PROVE  ChainIntegrity'
<1> SUFFICES ASSUME ~damaged'
             PROVE  /\ Chained(log') /\ AllEnded(log')
                    /\ held' # << >> => held' = Tip(log')
  BY DEF ChainIntegrity, AllEnded, Chained, ChainedUpTo, Tip, HashLine, IsRecord
<1>1. ~damaged
  BY UndamagedStep
<1>2. /\ log \in Seq(Line) /\ Chained(log) /\ AllEnded(log)
      /\ held # << >> => held = Tip(log)
  BY <1>1 DEF IInv, TypeOK, ChainIntegrity, AllEnded
<1>3. Link = Tip(log)
  BY <1>2 DEF Link
<1>4. ASSUME writing.busy
      PROVE  LET r == Record(writing.id, writing.prev) IN
             /\ Chained(Append(log, r))
             /\ AllEnded(Append(log, r))
             /\ Tip(Append(log, r)) = HashLine(r)
  <2>1. writing.id \in EventIds /\ writing.prev = Tip(log)
    BY <1>1, <1>4 DEF IInv, InFlight
  <2> QED BY <1>2, <2>1, ChainStep
<1>5. Chained(log') /\ AllEnded(log')
  BY <1>2, <1>4, UndamagedStep
<1>6. held' # << >> => held' = Tip(log')
  <2>1. CASE WriteOk
    <3>1. log' = Append(log, Record(writing.id, writing.prev))
      <4>1. Record(writing.id, writing.prev) \in Line
        BY <2>1, PieceType DEF WriteOk, IInv, InFlight, TypeOK
      <4> QED BY <1>2, <2>1, <4>1, EndedTip DEF WriteOk
    <3> QED BY <1>4, <2>1, <3>1 DEF WriteOk
  <2>2. CASE WriteFails
    <3>1. log' = log /\ held' = held
      BY <2>2 DEF WriteFails
    <3> QED BY <1>2, <3>1
  <2>3. CASE Crash \/ Restart
    BY <2>3 DEF Crash, Restart, Reopen
  <2>4. CASE \E e \in EventIds : StoreAppend(e) \/ AppendIf(e)
    <3>1. log' = log /\ held' = Link
      BY <2>4 DEF StoreAppend, AppendIf, BeginWrite, DedupAppend
    <3> QED BY <1>3, <3>1
  <2>5. CASE WritePartial \/ UNCHANGED vars \/ Verify
    <3>1. log' = log /\ held' = held
      BY <2>5
      DEF WritePartial, vars, Verify, VerifyStart, VerifyLine, VerifyTail,
          VerifyAfterTail, VerifyEnd
    <3> QED BY <1>2, <3>1
  <2> QED BY <2>1, <2>2, <2>3, <2>4, <2>5 DEF Next
<1> QED BY <1>5, <1>6

\* No step loses an acknowledged event of an undamaged file.
LEMMA AckedPreserved ==
  ASSUME IInv, [Next]_vars
  PROVE  AckedReadable'
<1> SUFFICES ASSUME ~damaged' PROVE acked' \subseteq ScanIds(log')
  BY DEF AckedReadable, ScanIds
<1>1. ~damaged /\ acked \subseteq ScanIds(log) /\ log \in Seq(Line)
  BY UndamagedStep DEF IInv, AckedReadable, TypeOK
<1>2. ASSUME writing.busy, log' = Append(log, Record(writing.id, writing.prev))
      PROVE  ScanIds(log) \cup {writing.id} \subseteq ScanIds(log')
  <2>1. /\ Len(log') = Len(log) + 1 /\ Len(log) \in Nat
        /\ \A k \in 1..Len(log) : log'[k] = log[k]
        /\ log'[Len(log) + 1] = Record(writing.id, writing.prev)
    <3>1. Record(writing.id, writing.prev) \in Line
      BY <1>2, PieceType DEF IInv, InFlight, TypeOK
    <3> QED BY <1>1, <1>2, <3>1
  <2>2. writing.id # Torn
    BY <1>2, ConstantsAssumption DEF IInv, InFlight
  <2>3. ScanIds(log) \subseteq ScanIds(log')
    BY <2>1 DEF ScanIds
  <2>4. writing.id \in ScanIds(log')
    <3>1. Len(log) + 1 \in 1..Len(log') /\ log'[Len(log) + 1].id = writing.id
      BY <2>1 DEF Record
    <3> QED BY <2>2, <3>1 DEF ScanIds
  <2> QED BY <2>3, <2>4
<1>3. ScanIds(log) \subseteq ScanIds(log')
  BY <1>2, UndamagedStep
<1>4. CASE WriteOk
  <2>1. log' = Append(log, Record(writing.id, writing.prev))
    <3>1. Record(writing.id, writing.prev) \in Line /\ AllEnded(log)
      BY <1>1, <1>4, PieceType
      DEF WriteOk, IInv, InFlight, TypeOK, ChainIntegrity, AllEnded
    <3> QED BY <1>1, <1>4, <3>1, EndedTip DEF WriteOk
  <2> QED BY <1>1, <1>2, <1>4, <2>1 DEF WriteOk
<1>5. CASE ~WriteOk
  <2>1. acked' = acked
    BY <1>5
    DEF Next, StoreAppend, AppendIf, BeginWrite, DedupAppend, WritePartial,
        WriteFails,
       Crash, Restart, Reopen, vars, Verify, VerifyStart, VerifyLine, VerifyTail, VerifyAfterTail, VerifyEnd
  <2> QED BY <1>1, <1>3, <2>1
<1> QED BY <1>4, <1>5

\* No step lands a second claim: the one in flight was admitted when the file
\* held none, and nothing else has landed since.
LEMMA OneClaimPreserved ==
  ASSUME IInv, [Next]_vars
  PROVE  OneClaim'
<1>1. CASE log' = log
  BY <1>1 DEF IInv, OneClaim
<1>2. ASSUME writing.busy, NEW piece \in Line, log' = Land(log, piece),
             piece.id \in {Torn, writing.id}
      PROVE  OneClaim'
  <2>1. log \in Seq(Line) /\ Len(log) \in Nat
    BY DEF IInv, TypeOK
  <2>2. \A i \in 1..Len(log') :
            \/ i <= Len(log) /\ log'[i] = log[i]
            \/ i = Len(log') /\ log'[i].id \in {Torn, writing.id}
    BY <1>2, <2>1, LandFacts
  <2>3. Torn \notin Claims
    BY ConstantsAssumption
  <2>4. writing.id \in Claims => \A i \in 1..Len(log) : log[i].id \notin Claims
    BY <1>2, <2>3 DEF IInv, InFlight, ScanIds
  <2>5. \A i, j \in 1..Len(log) : log[i].id \in Claims /\ log[j].id \in Claims => i = j
    BY DEF IInv, OneClaim
  <2>6. SUFFICES ASSUME NEW i \in 1..Len(log'), NEW j \in 1..Len(log'),
                        log'[i].id \in Claims, log'[j].id \in Claims
                 PROVE  i = j
    BY DEF OneClaim
  <2>7. i \in Nat /\ j \in Nat /\ 1 <= i /\ 1 <= j
    OBVIOUS
  <2> QED BY <2>1, <2>2, <2>3, <2>4, <2>5, <2>6, <2>7
<1> QED BY <1>1, <1>2, LogStep DEF IInv

\* What the append in flight knows of the file stays true until it ends.
LEMMA InFlightPreserved ==
  ASSUME IInv, [Next]_vars
  PROVE  InFlight'
<1>1. CASE writing' = Idle
  BY <1>1 DEF InFlight, Idle
<1>2. ASSUME NEW e \in EventIds, BeginWrite(e),
             e \in Claims => ScanIds(log) \cap Claims = {}
      PROVE  InFlight'
  <2>1. /\ writing'.busy
        /\ ~writing'.partial
        /\ writing'.id = e
        /\ writing'.prev = Link
        /\ log' = log /\ damaged' = damaged
    BY <1>2 DEF BeginWrite
  <2>2. ~damaged => Link = Tip(log)
    BY DEF IInv, ChainIntegrity, Link
  <2> QED BY <1>2, <2>1, <2>2 DEF InFlight, Tip, HashLine, ScanIds
<1>3. CASE WritePartial
  <2>1. /\ writing'.busy = writing.busy
        /\ writing'.id = writing.id
        /\ writing'.prev = writing.prev
        /\ writing.busy /\ log' = log /\ damaged' = damaged
    BY <1>3 DEF WritePartial, IInv, TypeOK
  <2> QED BY <2>1 DEF IInv, InFlight, Tip, HashLine, ScanIds
<1>4. CASE writing' = writing /\ log' = log /\ (damaged' = damaged \/ ~writing.busy)
  BY <1>4 DEF IInv, InFlight, Tip, HashLine, ScanIds
<1>5. CASE \E e \in EventIds : StoreAppend(e) \/ AppendIf(e)
  <2>1. PICK e \in EventIds : StoreAppend(e) \/ AppendIf(e)
    BY <1>5
  <2>2. CASE StoreAppend(e) /\ BeginWrite(e)
    BY <1>2, <2>2 DEF StoreAppend
  <2>3. CASE StoreAppend(e) /\ DedupAppend(e)
    BY <1>4, <2>3 DEF StoreAppend, Present, DedupAppend
  <2>4. CASE AppendIf(e)
    BY <1>2, <2>4 DEF AppendIf
  <2> QED BY <2>1, <2>2, <2>3, <2>4 DEF StoreAppend
<1>6. CASE WriteOk \/ WriteFails \/ Crash \/ Restart
  BY <1>1, <1>6 DEF WriteOk, WriteFails, Crash, Restart, Reopen
<1>7. CASE Verify \/ UNCHANGED vars
  BY <1>4, <1>7
  DEF Verify, VerifyStart, VerifyLine, VerifyTail, VerifyAfterTail, VerifyEnd,
      vars
<1> QED BY <1>3, <1>5, <1>6, <1>7 DEF Next

\* A terminated line a reader finds through View is a terminated line of the
\* file: what an append in progress adds is not terminated.
LEMMA ViewLine ==
  ASSUME TypeOK, NEW i \in Nat \ {0}, Ended(View, i)
  PROVE  i \in 1..Len(log) /\ View[i] = log[i] /\ log[i].ended
<1>1. log \in Seq(Line) /\ Len(log) \in Nat
  BY DEF TypeOK
<1>2. CASE View = log
  BY <1>1, <1>2 DEF Ended
<1>3. CASE View = Land(log, Garbled(FALSE))
  <2>1. Garbled(FALSE) \in Line /\ Garbled(FALSE).ended = FALSE
    BY PieceType DEF Garbled
  <2>a. View \in Seq(Line)
    BY <1>1, <1>3, <2>1, LandFacts
  <2>2. Len(View) \in Nat
    BY <2>a, LenProperties
  <2>3. i \in 1..Len(View) /\ View[i].ended
    BY <2>2 DEF Ended
  <2>4. \/ i <= Len(log) /\ View[i] = log[i]
        \/ View[i].ended = Garbled(FALSE).ended
    BY <1>1, <1>3, <2>1, <2>3, LandFacts
  <2>5. i <= Len(log) /\ View[i] = log[i]
    BY <2>1, <2>3, <2>4
  <2> QED BY <1>1, <2>3, <2>5
<1> QED BY <1>2, <1>3 DEF View

\* What the verify thread has passed stays chained while appends go on, and
\* each line it passes extends it.
LEMMA WalkedPreserved ==
  ASSUME IInv, [Next]_vars
  PROVE  Walked'
<1>1. /\ log \in Seq(Line) /\ Len(log) \in Nat
      /\ verify.pos \in Nat
      /\ verify \in [verdict : Verdicts, pos : Nat, prev : Hash, mid : BOOLEAN]
  BY DEF IInv, TypeOK
<1>2. CASE verify' = NoVerify
  BY <1>2 DEF Walked, NoVerify
<1>3. ASSUME verify'.pos = verify.pos, verify'.prev = verify.prev,
             verify'.verdict \in {"running", "verified"} => verify.verdict \in {"running", "verified"}
      PROVE  Walked'
  <2> SUFFICES ASSUME verify.verdict \in {"running", "verified"}
               PROVE  /\ verify.pos <= Len(log')
                      /\ ChainedUpTo(log', verify.pos)
                      /\ \A i \in 1..verify.pos : log'[i].ended
                      /\ verify.prev = IF verify.pos = 0 THEN << >> ELSE HashLine(log'[verify.pos])
    BY <1>3 DEF Walked, ChainedUpTo, IsRecord, HashLine
  <2>1. /\ verify.pos <= Len(log)
        /\ ChainedUpTo(log, verify.pos)
        /\ \A i \in 1..verify.pos : log[i].ended
        /\ verify.prev = IF verify.pos = 0 THEN << >> ELSE HashLine(log[verify.pos])
    BY DEF IInv, Walked
  <2>2. Len(log') \in Nat
    BY TypeInductive DEF IInv, InFlight, TypeOK
  <2>3. /\ Len(log) <= Len(log')
        /\ \A i \in 1..Len(log) : log[i].ended => log'[i] = log[i]
    BY EndedStays DEF IInv
  <2>4. \A i \in 1..verify.pos : i \in 1..Len(log)
    BY <1>1, <2>1
  <2>5. \A i \in 1..verify.pos : log'[i] = log[i]
    BY <2>1, <2>3, <2>4
  <2>6. \A i \in 1..verify.pos : i # 1 => i - 1 \in 1..verify.pos
    BY <1>1
  <2>7. verify.pos # 0 => verify.pos \in 1..verify.pos
    BY <1>1
  <2>8. ChainedUpTo(log', verify.pos)
    BY <2>1, <2>5, <2>6 DEF ChainedUpTo
  <2> QED BY <1>1, <2>1, <2>2, <2>3, <2>5, <2>7, <2>8
<1>4. CASE VerifyStart
  <2>1. /\ verify'.pos = 0 /\ verify'.prev = << >> /\ log' = log
    BY <1>4 DEF VerifyStart, NoVerify
  <2> QED BY <1>1, <2>1 DEF Walked, ChainedUpTo
<1>5. CASE VerifyLine
  <2> DEFINE next == verify.pos + 1
             h == HashLine(View[next])
  <2>1. /\ next \in Nat \ {0}
        /\ Ended(View, next)
        /\ verify.verdict = "running"
        /\ log' = log
    BY <1>1, <1>5 DEF VerifyLine
  <2>2. next \in 1..Len(log) /\ View[next] = log[next] /\ log[next].ended
    BY <2>1, ViewLine DEF IInv
  <2>3. CASE ~(IsRecord(View[next]) /\ View[next].prev = verify.prev)
    <3>1. verify' = [verify EXCEPT !.verdict = "unverified"]
      BY <1>5, <2>3 DEF VerifyLine
    <3>2. verify'.verdict = "unverified"
      BY <1>1, <3>1
    <3> QED BY <3>2 DEF Walked
  <2>4. CASE IsRecord(View[next]) /\ View[next].prev = verify.prev
    <3>1. verify' = [verify EXCEPT !.pos = next, !.prev = h]
      BY <1>5, <2>4 DEF VerifyLine
    <3> HIDE DEF h
    <3>2. verify'.pos = next /\ verify'.prev = h
      <4> HIDE DEF next
      <4> QED BY <1>1, <3>1
    <3>3. /\ ChainedUpTo(log, verify.pos)
          /\ \A i \in 1..verify.pos : log[i].ended
          /\ verify.prev = IF verify.pos = 0 THEN << >> ELSE HashLine(log[verify.pos])
      BY <2>1 DEF IInv, Walked
    <3>4. h = HashLine(log[next]) /\ next # 0 /\ next - 1 = verify.pos
          /\ (next = 1 <=> verify.pos = 0)
      BY <1>1, <2>2 DEF h
    <3>5. \A i \in 1..next : i \in 1..verify.pos \/ i = next
      BY <1>1
    <3>6. IsRecord(log[next]) /\ log[next].prev = IF next = 1 THEN << >> ELSE HashLine(log[next - 1])
      BY <2>2, <2>4, <3>3, <3>4
    <3>7. ChainedUpTo(log, next)
      BY <3>3, <3>5, <3>6 DEF ChainedUpTo
    <3>8. \A i \in 1..next : log[i].ended
      BY <2>2, <3>3, <3>5
    <3>9. next <= Len(log)
      BY <1>1, <2>2
    <3> HIDE DEF next
    <3> QED BY <2>1, <3>2, <3>4, <3>7, <3>8, <3>9
            DEF Walked, ChainedUpTo, IsRecord, HashLine
  <2> QED BY <2>3, <2>4
<1>6. CASE VerifyTail \/ VerifyAfterTail \/ VerifyEnd
  <2>1. /\ verify'.pos = verify.pos /\ verify'.prev = verify.prev
        /\ verify.verdict = "running"
    BY <1>1, <1>6 DEF VerifyTail, VerifyAfterTail, VerifyEnd
  <2> QED BY <1>3, <2>1
<1>7. CASE Crash \/ Restart
  BY <1>2, <1>7 DEF Crash, Restart, Reopen
<1>8. CASE verify' = verify
  BY <1>3, <1>8
<1>9. CASE (\E e \in EventIds : StoreAppend(e) \/ AppendIf(e)) \/ WritePartial \/ WriteOk
           \/ WriteFails \/ UNCHANGED vars
  BY <1>8, <1>9
  DEF StoreAppend, AppendIf, BeginWrite, DedupAppend, WritePartial, WriteOk,
      WriteFails, vars
<1> QED BY <1>4, <1>5, <1>6, <1>7, <1>9 DEF Next, Verify

-----------------------------------------------------------------------------
(* The theorems. *)

\* A session that has never been written satisfies the invariant.
LEMMA InitInvariant == Init => IInv
<1> SUFFICES ASSUME Init PROVE IInv
  OBVIOUS
<1>1. << >> \in Hash /\ << >> \in Seq(Line) /\ Len(<< >>) = 0
  BY EmptySeq DEF Hash
<1>2. TypeOK
  BY <1>1 DEF Init, TypeOK, Idle, NoVerify, Verdicts, Symbols
<1>3. ChainIntegrity /\ OneClaim
  BY <1>1 DEF Init, ChainIntegrity, OneClaim, Chained, ChainedUpTo
<1>4. AckedReadable /\ InFlight /\ Walked
  BY DEF Init, AckedReadable, InFlight, Walked, Idle, NoVerify
<1> QED BY <1>2, <1>3, <1>4 DEF IInv

\* The inductive invariant of the session log: every reachable state of the
\* append path, the faults and the verify thread satisfies IInv.
THEOREM Invariance == Spec => []IInv
<1>1. IInv /\ [Next]_vars => IInv'
  <2> SUFFICES ASSUME IInv, [Next]_vars PROVE IInv'
    OBVIOUS
  <2>1. TypeOK'
    BY TypeInductive DEF IInv, InFlight
  <2> QED BY <2>1, ChainPreserved, AckedPreserved, OneClaimPreserved,
             InFlightPreserved,
             WalkedPreserved DEF IInv
<1> QED BY <1>1, InitInvariant, PTL DEF Spec

\* Type correctness of SessionStore, LogChain and the local-file write state.
THEOREM TypeCorrect == Spec => []TypeOK
<1>1. IInv => TypeOK
  BY DEF IInv
<1> QED BY <1>1, Invariance, PTL

\* append_locked under append_lock never breaks the hash chain: without a fault
\* that leaves foreign bytes the file is one chain and the cache is its tip.
THEOREM ChainSafe == Spec => []ChainIntegrity
<1>1. IInv => ChainIntegrity
  BY DEF IInv
<1> QED BY <1>1, Invariance, PTL

\* An append that answered Ok stays readable (append_sync).
THEOREM AckedDurable == Spec => []AckedReadable
<1>1. IInv => AckedReadable
  BY DEF IInv
<1> QED BY <1>1, Invariance, PTL

\* append_if admits one claim, for every interleaving and every fault.
THEOREM ClaimUnique == Spec => []OneClaim
<1>1. IInv => OneClaim
  BY DEF IInv
<1> QED BY <1>1, Invariance, PTL

\* verify_disk never calls Verified what is not a chain, even when it races
\* appends, failed writes and damaged lines.
THEOREM VerifySound == Spec => []VerifiedMeansChained
<1>1. IInv => VerifiedMeansChained
  BY DEF IInv, Walked, VerifiedMeansChained
<1> QED BY <1>1, Invariance, PTL

\* No step of the store removes or rewrites a terminated line of the file.
THEOREM LogAppendOnly == Spec => AppendOnly
<1>1. IInv /\ [Next]_vars =>
        [\A i \in 1..Len(log) : log[i].ended => i <= Len(log') /\ log'[i] = log[i]]_log
  <2> SUFFICES ASSUME IInv, [Next]_vars, NEW i \in 1..Len(log), log[i].ended
               PROVE  i <= Len(log') /\ log'[i] = log[i]
    OBVIOUS
  <2>1. /\ Len(log) <= Len(log')
        /\ log'[i] = log[i]
    BY EndedStays DEF IInv
  <2>2. Len(log) \in Nat /\ Len(log') \in Nat
    BY TypeInductive DEF IInv, InFlight, TypeOK
  <2> QED BY <2>1, <2>2
<1> QED BY <1>1, Invariance, PTL DEF Spec, AppendOnly

-----------------------------------------------------------------------------
(* LogState: the rows a window or a page keeps. *)

\* A set of numbers that has an element has a least one.
LEMMA LeastOf ==
    ASSUME NEW S \in SUBSET Nat, S # {}
    PROVE  \E x \in S : \A y \in S : x <= y
<1> DEFINE Less == {p \in Nat \X Nat : p[1] < p[2]}
<1>1. IsWellFoundedOn(Less, Nat)
  BY NatLessThanWellFounded DEF OpToRel
<1> HIDE DEF Less
<1>2. PICK x \in S : \A y \in S : <<y, x>> \notin Less
  BY <1>1, WFMin
<1>3. ASSUME NEW y \in S PROVE x <= y
  <2>1. y < x => <<y, x>> \in Less
    BY DEF Less
  <2> QED BY <1>2, <2>1
<1> QED BY <1>3

\* Min is the least of a set of numbers.
LEMMA MinIs ==
    ASSUME NEW S \in SUBSET Nat, S # {}
    PROVE  Min(S) \in S /\ \A y \in S : Min(S) <= y
<1>1. PICK x \in S : \A y \in S : x <= y
  BY LeastOf
<1> QED BY <1>1 DEF Min

\* Max is the greatest of a bounded set of numbers.
LEMMA MaxIs ==
    ASSUME NEW L \in Nat, NEW S \in SUBSET (0..L), S # {}
    PROVE  Max(S) \in S /\ \A y \in S : y <= Max(S)
<1> DEFINE T == {n \in Nat : \A m \in S : m <= n}
<1>1. L \in T
  OBVIOUS
<1>2. PICK x \in T : \A y \in T : x <= y
  <2> HIDE DEF T
  <2>1. T \in SUBSET Nat
    BY DEF T
  <2> QED BY <1>1, <2>1, LeastOf
<1>3. x \in S
  <2> SUFFICES ASSUME x \notin S PROVE FALSE
    OBVIOUS
  <2>1. \A m \in S : m < x
    OBVIOUS
  <2>2. x # 0
    <3>1. PICK m \in S : TRUE
      OBVIOUS
    <3>2. m < x /\ m \in 0..L
      BY <2>1
    <3> QED BY <3>2
  <2>3. x - 1 \in T
    BY <2>1, <2>2
  <2> QED BY <1>2, <2>3
<1>4. \A m \in S : m <= x
  OBVIOUS
<1> HIDE DEF T
<1>5. Max(S) \in S /\ \A y \in S : Max(S) >= y
  BY <1>3, <1>4 DEF Max
<1> QED BY <1>5

-----------------------------------------------------------------------------
(* What Only keeps of a sequence of rows. *)

\* The rows of S among the first n, as the function Only computes.
Selects(w, S, L, f) ==
    f = [n \in 0..L |->
          IF n = 0 THEN << >>
          ELSE IF w[n] \in S THEN Append(f[n - 1], w[n])
          ELSE f[n - 1]]

\* Only is the last value of that function.
LEMMA OnlySelects ==
    ASSUME NEW w, NEW S
    PROVE  Only(w, S) = (CHOOSE f : Selects(w, S, Len(w), f))[Len(w)]
BY DEF Only, Selects

\* Where it starts and how it goes on.
Grows(w, S, L, f) ==
    /\ f[0] = << >>
    /\ \A n \in 1..L : f[n] = IF w[n] \in S THEN Append(f[n - 1], w[n]) ELSE f[n - 1]
LEMMA SelectsAt ==
    ASSUME NEW w, NEW S, NEW L \in Nat, NEW f, Selects(w, S, L, f)
    PROVE  Grows(w, S, L, f)
<1> DEFINE Rhs(n) == IF n = 0 THEN << >>
                     ELSE IF w[n] \in S THEN Append(f[n - 1], w[n])
                     ELSE f[n - 1]
<1>1. f = [n \in 0..L |-> Rhs(n)]
  BY DEF Selects
<1>2. ASSUME NEW n \in 0..L PROVE f[n] = Rhs(n)
  <2> HIDE DEF Rhs
  <2> QED BY <1>1
<1> QED BY <1>2 DEF Grows

\* There is such a function.
LEMMA SelectsExist ==
    ASSUME NEW w, NEW S, NEW L \in Nat
    PROVE  \E f : Selects(w, S, L, f)
<1> DEFINE Bad == {n \in Nat : ~ \E f : Selects(w, S, n, f)}
<1> SUFFICES ASSUME Bad # {} PROVE FALSE
  OBVIOUS
<1>1. PICK m \in Bad : \A y \in Bad : m <= y
  BY LeastOf
<1>2. CASE m = 0
  <2> DEFINE g == [n \in 0..0 |-> << >>]
  <2>1. Selects(w, S, m, g)
    BY <1>2 DEF Selects
  <2> QED BY <1>1, <2>1
<1>3. CASE m # 0
  <2>1. m \in Nat /\ m - 1 \in Nat /\ m - 1 \notin Bad
    BY <1>1, <1>3
  <2>2. PICK f : Selects(w, S, m - 1, f)
    BY <2>1
  <2> DEFINE v == IF w[m] \in S THEN Append(f[m - 1], w[m]) ELSE f[m - 1]
             g == [n \in 0..m |-> IF n = m THEN v ELSE f[n]]
  <2>3. g[m] = v /\ \A n \in 0..(m - 1) : g[n] = f[n]
    BY <2>1
  <2>4. ASSUME NEW n \in 0..m
        PROVE  g[n] = IF n = 0 THEN << >>
                      ELSE IF w[n] \in S THEN Append(g[n - 1], w[n])
                      ELSE g[n - 1]
    <3> HIDE DEF g
    <3>1. CASE n = 0
      <4>1. Grows(w, S, m - 1, f)
        BY <2>1, <2>2, SelectsAt
      <4> QED BY <1>3, <2>1, <2>3, <3>1, <4>1 DEF Grows
    <3>2. CASE n # 0 /\ n # m
      <4>1. n \in 1..(m - 1) /\ g[n] = f[n] /\ g[n - 1] = f[n - 1]
        BY <2>1, <2>3, <3>2
      <4>2. \A j \in 1..(m - 1) :
              f[j] = IF w[j] \in S THEN Append(f[j - 1], w[j]) ELSE f[j - 1]
        <5>1. Grows(w, S, m - 1, f)
          BY <2>1, <2>2, SelectsAt
        <5> QED BY <5>1 DEF Grows
      <4> QED BY <3>2, <4>1, <4>2
    <3>3. CASE n = m
      <4>1. g[m - 1] = f[m - 1]
        BY <2>1, <2>3
      <4> QED BY <1>3, <2>3, <3>3, <4>1
    <3> QED BY <3>1, <3>2, <3>3
  <2>5. Selects(w, S, m, g)
    <3>1. g = [n \in 0..m |-> g[n]]
      OBVIOUS
    <3> HIDE DEF g
    <3> QED BY <2>4, <3>1 DEF Selects
  <2> HIDE DEF g
  <2> QED BY <1>1, <2>5
<1> QED BY <1>2, <1>3

\* What holds of the rows kept of the first n: they are rows of S, in
\* increasing order when those of the sequence are, and none is left out.
Kept(w, S, n, r) ==
    /\ r \in Seq(Nat)
    /\ \A i \in 1..Len(r) : r[i] \in S /\ \E j \in 1..n : r[i] = w[j]
    /\ \A j \in 1..n : w[j] \in S => \E i \in 1..Len(r) : r[i] = w[j]
    /\ \A i, j \in 1..Len(r) : i < j => r[i] < r[j]
Rising(w, S) ==
    \A i, j \in 1..Len(w) : i < j /\ w[i] \in S /\ w[j] \in S => w[i] < w[j]

\* One more row.
LEMMA KeptStep ==
    ASSUME NEW w \in Seq(Nat), NEW S, Rising(w, S), NEW n \in 1..Len(w),
           NEW r, Kept(w, S, n - 1, r)
    PROVE  Kept(w, S, n, IF w[n] \in S THEN Append(r, w[n]) ELSE r)
<1>1. r \in Seq(Nat) /\ w[n] \in Nat /\ Len(r) \in Nat
  BY DEF Kept
<1>2. \A j \in 1..n : j \in 1..(n - 1) \/ j = n
  OBVIOUS
<1>3. \A j \in 1..(n - 1) : j \in 1..n /\ j < n /\ j \in 1..Len(w)
  OBVIOUS
<1>4. CASE w[n] \notin S
  BY <1>1, <1>2, <1>3, <1>4 DEF Kept
<1>5. CASE w[n] \in S
  <2> DEFINE q == Append(r, w[n])
  <2>1. /\ q \in Seq(Nat) /\ Len(q) = Len(r) + 1 /\ q[Len(r) + 1] = w[n]
        /\ \A i \in 1..Len(r) : q[i] = r[i]
        /\ \A i \in 1..Len(q) : i \in 1..Len(r) \/ i = Len(r) + 1
    BY <1>1
  <2> HIDE DEF q
  <2>2. \A i \in 1..Len(r) : r[i] < w[n]
    BY <1>3, <1>5 DEF Kept, Rising
  <2>3. ASSUME NEW i \in 1..Len(q) PROVE q[i] \in S /\ \E j \in 1..n : q[i] = w[j]
    <3>1. CASE i = Len(r) + 1
      <4>1. n \in 1..n /\ q[i] = w[n]
        BY <2>1, <3>1
      <4> QED BY <1>5, <4>1
    <3>2. CASE i \in 1..Len(r)
      <4>1. r[i] \in S /\ \E j \in 1..(n - 1) : r[i] = w[j]
        BY <3>2 DEF Kept
      <4> QED BY <1>3, <2>1, <3>2, <4>1
    <3> QED BY <2>1, <3>1, <3>2
  <2>4. ASSUME NEW j \in 1..n, w[j] \in S PROVE \E i \in 1..Len(q) : q[i] = w[j]
    <3>1. CASE j = n
      <4>1. Len(r) + 1 \in 1..Len(q) /\ q[Len(r) + 1] = w[j]
        BY <1>1, <2>1, <3>1
      <4> QED BY <4>1
    <3>2. CASE j \in 1..(n - 1)
      <4>1. PICK i \in 1..Len(r) : r[i] = w[j]
        BY <2>4, <3>2 DEF Kept
      <4> QED BY <1>1, <2>1, <4>1
    <3> QED BY <1>2, <3>1, <3>2
  <2>5. ASSUME NEW i \in 1..Len(q), NEW j \in 1..Len(q), i < j PROVE q[i] < q[j]
    <3>1. CASE j \in 1..Len(r)
      <4>1. i \in 1..Len(r)
        BY <1>1, <2>5, <3>1
      <4> QED BY <2>1, <2>5, <3>1, <4>1 DEF Kept
    <3>2. CASE j = Len(r) + 1
      <4>1. i \in 1..Len(r)
        BY <1>1, <2>1, <2>5, <3>2
      <4> QED BY <2>1, <2>2, <3>2, <4>1
    <3> QED BY <2>1, <3>1, <3>2
  <2>6. Kept(w, S, n, q)
    BY <2>1, <2>3, <2>4, <2>5 DEF Kept
  <2> QED BY <1>5, <2>6 DEF q
<1> QED BY <1>4, <1>5

\* What Only keeps.
LEMMA OnlyKeeps ==
    ASSUME NEW w \in Seq(Nat), NEW S, Rising(w, S)
    PROVE  Kept(w, S, Len(w), Only(w, S))
<1>1. PICK L \in Nat : L = Len(w)
  OBVIOUS
<1> DEFINE f == CHOOSE h : Selects(w, S, L, h)
           Bad == {n \in 0..L : ~Kept(w, S, n, f[n])}
<1>2. Selects(w, S, L, f)
  <2>1. \E h : Selects(w, S, L, h)
    BY <1>1, SelectsExist
  <2> QED BY <2>1
<1>3. Only(w, S) = f[L]
  BY <1>1, OnlySelects
<1> HIDE DEF f
<1>4. /\ f[0] = << >>
      /\ \A n \in 1..L : f[n] = IF w[n] \in S THEN Append(f[n - 1], w[n]) ELSE f[n - 1]
  <2>1. Grows(w, S, L, f)
    BY <1>1, <1>2, SelectsAt
  <2> QED BY <2>1 DEF Grows
<1>5. ASSUME Bad # {} PROVE FALSE
  <2>1. Bad \in SUBSET Nat
    BY <1>1
  <2>2. PICK m \in Bad : \A y \in Bad : m <= y
    BY <1>5, <2>1, LeastOf
  <2>3. m # 0
    <3>1. Kept(w, S, 0, << >>)
      BY DEF Kept
    <3> QED BY <1>4, <2>2, <3>1
  <2>4. m \in 1..L /\ m - 1 \in 0..L /\ m - 1 \notin Bad
    BY <1>1, <2>2, <2>3
  <2>5. Kept(w, S, m - 1, f[m - 1])
    BY <2>4
  <2>6. Kept(w, S, m, f[m])
    <3>1. PICK r : r = f[m - 1]
      OBVIOUS
    <3>2. Kept(w, S, m, IF w[m] \in S THEN Append(r, w[m]) ELSE r)
      BY <1>1, <2>4, <2>5, <3>1, KeptStep
    <3> QED BY <1>4, <2>4, <3>1, <3>2
  <2> QED BY <2>2, <2>6
<1> QED BY <1>1, <1>3, <1>5

-----------------------------------------------------------------------------
(* Windows: the durable rows of a window are the positions of an interval of *)
(* the log, in order.                                                        *)

Spans(w, a, b) ==
    /\ w \in Seq(Nat)
    /\ a \in Nat /\ b \in Nat /\ a <= b
    /\ \A i \in 1..Len(w) : w[i] # Delta => a < w[i] /\ w[i] <= b
    /\ \A i, j \in 1..Len(w) : i < j /\ w[i] # Delta /\ w[j] # Delta => w[i] < w[j]
    /\ \A p \in (a + 1)..b : \E i \in 1..Len(w) : w[i] = p

\* A rising sequence that takes every value of an interval and no other counts
\* it through.
LEMMA RisingInterval ==
    ASSUME NEW r \in Seq(Nat), NEW a \in Nat, NEW b \in Nat, a <= b,
           \A i \in 1..Len(r) : a < r[i] /\ r[i] <= b,
           \A p \in (a + 1)..b : \E i \in 1..Len(r) : r[i] = p,
           \A i, j \in 1..Len(r) : i < j => r[i] < r[j]
    PROVE  Len(r) = b - a /\ \A i \in 1..Len(r) : r[i] = a + i
<1>1. PICK L \in Nat : L = Len(r)
  OBVIOUS
<1> DEFINE Bad == {i \in 1..L : r[i] # a + i}
<1>2. \A i \in 1..L : r[i] \in Nat
  BY <1>1
<1>3. ASSUME Bad # {} PROVE FALSE
  <2>1. Bad \in SUBSET Nat
    OBVIOUS
  <2>2. PICK m \in Bad : \A y \in Bad : m <= y
    BY <1>3, <2>1, LeastOf
  <2>3. m \in 1..L /\ r[m] # a + m
    BY <2>2
  <2>4. \A i \in 1..L : i < m => r[i] = a + i
    BY <2>2
  <2>5. r[m] > a + m
    <3>1. CASE m = 1
      BY <1>1, <1>2, <2>3, <3>1
    <3>2. CASE m # 1
      <4>1. m - 1 \in 1..L /\ m - 1 < m
        BY <2>3, <3>2
      <4>2. r[m - 1] = a + (m - 1) /\ r[m - 1] < r[m]
        BY <1>1, <2>3, <2>4, <4>1
      <4>3. r[m] \in Nat /\ m \in Nat
        BY <1>2, <2>3
      <4>4. PICK x \in Nat : x = r[m]
        BY <4>3
      <4>5. a + (m - 1) < x /\ x # a + m
        BY <2>3, <4>2, <4>4
      <4>6. x > a + m
        BY <4>3, <4>5
      <4> QED BY <4>4, <4>6
    <3> QED BY <3>1, <3>2
  <2>6. a + m \in (a + 1)..b
    BY <1>1, <1>2, <2>3, <2>5
  <2>7. PICK j \in 1..L : r[j] = a + m
    BY <1>1, <2>6
  <2>8. ~(j < m)
    BY <2>3, <2>4, <2>7
  <2>9. ~(m < j)
    BY <1>1, <1>2, <2>3, <2>5, <2>7
  <2> QED BY <2>3, <2>7, <2>8, <2>9
<1>4. \A i \in 1..L : r[i] = a + i
  BY <1>3
<1>5. L = b - a
  <2>1. L <= b - a
    <3>1. CASE L = 0
      BY <3>1
    <3>2. CASE L # 0
      <4>1. L \in 1..L
        BY <3>2
      <4>2. r[L] = a + L /\ r[L] <= b
        BY <1>1, <1>4, <4>1
      <4> QED BY <4>2
    <3> QED BY <3>1, <3>2
  <2>2. L >= b - a
    <3>1. CASE b = a
      BY <3>1
    <3>2. CASE b # a
      <4>1. b \in (a + 1)..b
        BY <3>2
      <4>2. PICK j \in 1..L : r[j] = b
        BY <1>1, <4>1
      <4> QED BY <1>4, <4>2
    <3> QED BY <3>1, <3>2
  <2> QED BY <2>1, <2>2
<1> QED BY <1>1, <1>4, <1>5

\* So the durable rows of a window are that interval.
LEMMA SpansDurables ==
    ASSUME NEW w, NEW a, NEW b, Spans(w, a, b)
    PROVE  /\ Durables(w) \in Seq(Nat) /\ Len(Durables(w)) = b - a
           /\ \A i \in 1..Len(Durables(w)) : Durables(w)[i] = a + i
<1> DEFINE S == Nat \ {Delta}
<1>1. PICK r : r = Only(w, S)
  OBVIOUS
<1>2. w \in Seq(Nat) /\ a \in Nat /\ b \in Nat /\ a <= b /\ \A i \in 1..Len(w) : w[i] \in Nat
  BY DEF Spans
<1>3. \A i \in 1..Len(w) : w[i] \in S <=> w[i] # Delta
  BY <1>2
<1>4. Rising(w, S)
  BY <1>3 DEF Rising, Spans
<1>5. Durables(w) = r
  BY <1>1 DEF Durables
<1> HIDE DEF S
<1>6. Kept(w, S, Len(w), r)
  BY <1>1, <1>2, <1>4, OnlyKeeps
<1>7. r \in Seq(Nat) /\ \A i, j \in 1..Len(r) : i < j => r[i] < r[j]
  BY <1>6 DEF Kept
<1>8. \A i \in 1..Len(r) : a < r[i] /\ r[i] <= b
  <2> SUFFICES ASSUME NEW i \in 1..Len(r) PROVE a < r[i] /\ r[i] <= b
    OBVIOUS
  <2>1. PICK j \in 1..Len(w) : r[i] = w[j] /\ w[j] \in S
    BY <1>6 DEF Kept
  <2> QED BY <1>3, <2>1 DEF Spans
<1>9. \A p \in (a + 1)..b : \E i \in 1..Len(r) : r[i] = p
  <2> SUFFICES ASSUME NEW p \in (a + 1)..b PROVE \E i \in 1..Len(r) : r[i] = p
    OBVIOUS
  <2>1. PICK j \in 1..Len(w) : w[j] = p
    BY DEF Spans
  <2>2. p # Delta
    BY <1>2 DEF Delta
  <2>3. w[j] \in S
    BY <1>3, <2>1, <2>2
  <2> QED BY <1>6, <2>1, <2>3 DEF Kept
<1>10. Len(r) = b - a /\ \A i \in 1..Len(r) : r[i] = a + i
  BY <1>2, <1>7, <1>8, <1>9, RisingInterval
<1> QED BY <1>5, <1>7, <1>10

\* A window cut in two spans two intervals that meet.
LEMMA SpansSplit ==
    ASSUME NEW w, NEW a, NEW b, Spans(w, a, b), NEW k \in 0..Len(w)
    PROVE  \E c \in Nat : /\ Spans(SubSeq(w, 1, k), a, c)
                          /\ Spans(SubSeq(w, k + 1, Len(w)), c, b)
<1>1. PICK L \in Nat : L = Len(w) /\ k \in 0..L
  BY DEF Spans
<1>2. w \in Seq(Nat) /\ a \in Nat /\ b \in Nat /\ a <= b /\ \A i \in 1..L : w[i] \in Nat
  BY <1>1 DEF Spans
<1>3. PICK u : u = SubSeq(w, 1, k)
  OBVIOUS
<1>4. PICK v : v = SubSeq(w, k + 1, L)
  OBVIOUS
<1>5. u \in Seq(Nat) /\ Len(u) = k /\ \A i \in 1..k : u[i] = w[i]
  BY <1>1, <1>2, <1>3
<1>6. v \in Seq(Nat) /\ Len(v) = L - k /\ \A i \in 1..(L - k) : v[i] = w[k + i]
  BY <1>1, <1>2, <1>4
<1> DEFINE C == {a} \cup {n \in 0..b : \E i \in 1..k : w[i] = n /\ n # Delta}
<1>7. C \in SUBSET (0..b) /\ C # {} /\ a \in C
  BY <1>2
<1>8. \A i \in 1..k : w[i] # Delta => w[i] \in C
  <2> SUFFICES ASSUME NEW i \in 1..k, w[i] # Delta PROVE w[i] \in C
    OBVIOUS
  <2>1. i \in 1..L
    BY <1>1
  <2>2. w[i] \in 0..b
    BY <1>1, <1>2, <2>1 DEF Spans
  <2> QED BY <2>2
<1>9. \A n \in C : n = a \/ \E i \in 1..k : w[i] = n /\ n # Delta
  OBVIOUS
<1> HIDE DEF C
<1>10. PICK c : c = Max(C)
  OBVIOUS
<1>11. c \in C /\ c \in Nat /\ c <= b /\ \A n \in C : n <= c
  <2>1. c \in C /\ \A n \in C : n <= c
    BY <1>2, <1>7, <1>10, MaxIs
  <2>2. c \in 0..b
    BY <1>7, <2>1
  <2> QED BY <1>2, <2>1, <2>2
<1>12. a <= c
  BY <1>7, <1>11
<1>13. Spans(u, a, c)
  <2>1. ASSUME NEW i \in 1..k, w[i] # Delta PROVE a < w[i] /\ w[i] <= c
    <3>1. i \in 1..L
      BY <1>1
    <3> QED BY <1>1, <1>8, <1>11, <2>1, <3>1 DEF Spans
  <2>2. ASSUME NEW i \in 1..k, NEW j \in 1..k, i < j, w[i] # Delta, w[j] # Delta
        PROVE  w[i] < w[j]
    <3>1. i \in 1..L /\ j \in 1..L
      BY <1>1
    <3> QED BY <1>1, <2>2, <3>1 DEF Spans
  <2>3. ASSUME NEW p \in (a + 1)..c PROVE \E i \in 1..k : w[i] = p
    <3>1. p \in (a + 1)..b /\ p # a /\ p \in Nat /\ p # Delta /\ c # a
      BY <1>2, <1>11 DEF Delta
    <3>2. PICK i \in 1..L : w[i] = p
      BY <1>1, <3>1 DEF Spans
    <3>3. PICK j \in 1..k : w[j] = c /\ c # Delta
      BY <1>9, <1>11, <3>1
    <3>4. j \in 1..L
      BY <1>1
    <3>5. ~(k < i)
      <4> SUFFICES ASSUME k < i PROVE FALSE
        OBVIOUS
      <4>1. j < i
        BY <1>1
      <4>2. c < p
        BY <1>1, <3>1, <3>2, <3>3, <3>4, <4>1 DEF Spans
      <4> QED BY <1>2, <1>11, <4>2
    <3>6. i \in 1..k
      BY <1>1, <3>5
    <3> QED BY <3>2, <3>6
  <2> QED BY <1>2, <1>5, <1>11, <1>12, <2>1, <2>2, <2>3 DEF Spans
<1>14. Spans(v, c, b)
  <2>1. ASSUME NEW i \in 1..(L - k), w[k + i] # Delta PROVE c < w[k + i] /\ w[k + i] <= b
    <3>1. k + i \in 1..L
      BY <1>1
    <3>2. a < w[k + i] /\ w[k + i] <= b
      BY <1>1, <2>1, <3>1 DEF Spans
    <3>3. CASE c = a
      BY <3>2, <3>3
    <3>4. CASE c # a
      <4>1. PICK j \in 1..k : w[j] = c /\ c # Delta
        BY <1>9, <1>11, <3>4
      <4>2. j \in 1..L /\ j < k + i
        BY <1>1
      <4> QED BY <1>1, <2>1, <3>1, <3>2, <4>1, <4>2 DEF Spans
    <3> QED BY <3>3, <3>4
  <2>2. ASSUME NEW i \in 1..(L - k), NEW j \in 1..(L - k), i < j,
               w[k + i] # Delta, w[k + j] # Delta
        PROVE  w[k + i] < w[k + j]
    <3>1. k + i \in 1..L /\ k + j \in 1..L /\ k + i < k + j
      BY <1>1, <2>2
    <3> QED BY <1>1, <2>2, <3>1 DEF Spans
  <2>3. ASSUME NEW p \in (c + 1)..b PROVE \E i \in 1..(L - k) : w[k + i] = p
    <3>1. p \in (a + 1)..b /\ p \in Nat /\ p # Delta /\ p > c
      BY <1>2, <1>11, <1>12 DEF Delta
    <3>2. PICK i \in 1..L : w[i] = p
      BY <1>1, <3>1 DEF Spans
    <3>3. ~(i <= k)
      <4> SUFFICES ASSUME i <= k PROVE FALSE
        OBVIOUS
      <4>1. i \in 1..k
        BY <1>1
      <4>2. p \in C
        BY <1>8, <3>1, <3>2, <4>1
      <4> QED BY <1>11, <3>1, <4>2
    <3>4. i - k \in 1..(L - k) /\ k + (i - k) = i
      BY <1>1, <3>3
    <3> QED BY <3>2, <3>4
  <2>4. /\ \A i \in 1..Len(v) : v[i] # Delta => c < v[i] /\ v[i] <= b
        /\ \A i, j \in 1..Len(v) : i < j /\ v[i] # Delta /\ v[j] # Delta => v[i] < v[j]
    BY <1>6, <2>1, <2>2
  <2>5. \A p \in (c + 1)..b : \E i \in 1..Len(v) : v[i] = p
    BY <1>6, <2>3
  <2> QED BY <1>2, <1>6, <1>11, <2>4, <2>5 DEF Spans
<1> QED BY <1>1, <1>3, <1>4, <1>11, <1>13, <1>14

\* A row more: the next position, or a streamed row.
LEMMA SpansAppend ==
    ASSUME NEW w, NEW a, NEW b, Spans(w, a, b)
    PROVE  /\ Spans(Append(w, b + 1), a, b + 1)
           /\ Spans(Append(w, Delta), a, b)
<1>1. PICK L \in Nat : L = Len(w)
  BY DEF Spans
<1>2. w \in Seq(Nat) /\ a \in Nat /\ b \in Nat /\ a <= b /\ \A i \in 1..L : w[i] \in Nat
  BY <1>1 DEF Spans
<1>3. ASSUME NEW x \in Nat
      PROVE  /\ Append(w, x) \in Seq(Nat) /\ Len(Append(w, x)) = L + 1
             /\ Append(w, x)[L + 1] = x /\ \A i \in 1..L : Append(w, x)[i] = w[i]
  BY <1>1, <1>2
<1>4. /\ \A i \in 1..L : w[i] # Delta => a < w[i] /\ w[i] <= b
      /\ \A i, j \in 1..L : i < j /\ w[i] # Delta /\ w[j] # Delta => w[i] < w[j]
      /\ \A p \in (a + 1)..b : \E i \in 1..L : w[i] = p
  BY <1>1 DEF Spans
<1>5. \A i \in 1..(L + 1) : i \in 1..L \/ i = L + 1
  OBVIOUS
<1>6. Spans(Append(w, b + 1), a, b + 1)
  <2>1. PICK q : q = Append(w, b + 1)
    OBVIOUS
  <2>2. q \in Seq(Nat) /\ Len(q) = L + 1 /\ q[L + 1] = b + 1 /\ \A i \in 1..L : q[i] = w[i]
    BY <1>2, <1>3, <2>1
  <2>3. ASSUME NEW i \in 1..(L + 1), q[i] # Delta PROVE a < q[i] /\ q[i] <= b + 1
    <3>1. CASE i = L + 1
      BY <1>2, <2>2, <3>1
    <3>2. CASE i \in 1..L
      <4>1. q[i] = w[i] /\ w[i] \in Nat /\ a < w[i] /\ w[i] <= b
        BY <1>2, <1>4, <2>2, <2>3, <3>2
      <4> QED BY <1>2, <4>1
    <3> QED BY <1>5, <3>1, <3>2
  <2>4. ASSUME NEW i \in 1..(L + 1), NEW j \in 1..(L + 1), i < j, q[i] # Delta, q[j] # Delta
        PROVE  q[i] < q[j]
    <3>1. i \in 1..L
      BY <1>5, <2>4
    <3>2. q[i] = w[i] /\ q[i] <= b
      BY <1>4, <2>2, <2>4, <3>1
    <3>3. CASE j = L + 1
      BY <1>2, <2>2, <3>1, <3>2, <3>3
    <3>4. CASE j \in 1..L
      BY <1>4, <2>2, <2>4, <3>1, <3>4
    <3> QED BY <1>5, <3>3, <3>4
  <2>5. ASSUME NEW p \in (a + 1)..(b + 1) PROVE \E i \in 1..(L + 1) : q[i] = p
    <3>1. CASE p = b + 1
      <4>1. L + 1 \in 1..(L + 1)
        OBVIOUS
      <4> QED BY <2>2, <3>1, <4>1
    <3>2. CASE p \in (a + 1)..b
      <4>1. PICK i \in 1..L : w[i] = p
        BY <1>4, <3>2
      <4>2. i \in 1..(L + 1)
        OBVIOUS
      <4> QED BY <2>2, <4>1, <4>2
    <3> QED BY <1>2, <3>1, <3>2
  <2>6. b + 1 \in Nat /\ a <= b + 1
    BY <1>2
  <2> QED BY <1>2, <2>1, <2>2, <2>3, <2>4, <2>5, <2>6 DEF Spans
<1>7. Spans(Append(w, Delta), a, b)
  <2>1. PICK q : q = Append(w, Delta)
    OBVIOUS
  <2>2. q \in Seq(Nat) /\ Len(q) = L + 1 /\ q[L + 1] = Delta /\ \A i \in 1..L : q[i] = w[i]
    BY <1>3, <2>1 DEF Delta
  <2>3. /\ \A i \in 1..(L + 1) : q[i] # Delta => a < q[i] /\ q[i] <= b
        /\ \A i, j \in 1..(L + 1) : i < j /\ q[i] # Delta /\ q[j] # Delta => q[i] < q[j]
    BY <1>4, <1>5, <2>2
  <2>4. ASSUME NEW p \in (a + 1)..b PROVE \E i \in 1..(L + 1) : q[i] = p
    <3>1. PICK i \in 1..L : w[i] = p
      BY <1>4
    <3>2. i \in 1..(L + 1)
      OBVIOUS
    <3> QED BY <2>2, <3>1, <3>2
  <2> QED BY <1>2, <2>1, <2>2, <2>3, <2>4 DEF Spans
<1> QED BY <1>6, <1>7

\* What trim() leaves of a window, and what push() counts.
LEMMA PushSpans ==
    ASSUME NEW l, NEW w, NEW a, NEW b, Spans(w, a, b)
    PROVE  \E c \in Nat : LET k == Dropped(l, w)
                          IN /\ Spans(SubSeq(w, k + 1, Len(w)), c, b)
                             /\ a <= c /\ c <= b
                             /\ Len(Durables(SubSeq(w, 1, k))) = c - a
<1>1. PICK L \in Nat : L = Len(w)
  BY DEF Spans
<1> DEFINE K == {k \in 0..Len(w) : Fits(l, SubSeq(w, k + 1, Len(w)))}
<1>2. L \in K
  <2>1. Len(SubSeq(w, L + 1, L)) = 0
    BY <1>1 DEF Spans
  <2> QED BY <1>1, <2>1 DEF Fits
<1>3. K \in SUBSET Nat
  OBVIOUS
<1>4. Dropped(l, w) = Min(K)
  BY DEF Dropped
<1>5. \A k \in K : k \in 0..L
  BY <1>1
<1> HIDE DEF K
<1>6. PICK k \in 0..L : k = Dropped(l, w)
  BY <1>2, <1>3, <1>4, <1>5, MinIs
<1>7. PICK c \in Nat : Spans(SubSeq(w, 1, k), a, c) /\ Spans(SubSeq(w, k + 1, L), c, b)
  BY <1>1, SpansSplit
<1>8. Len(Durables(SubSeq(w, 1, k))) = c - a
  BY <1>7, SpansDurables
<1>9. a <= c /\ c <= b
  BY <1>7 DEF Spans
<1> QED BY <1>1, <1>6, <1>7, <1>8, <1>9

-----------------------------------------------------------------------------
(* The epoch of a log, and what a fold of it holds. *)

Logs == Seq(Kinds)

\* The epoch starts at the record before the newest clear, or at the head.
LEMMA EpochIs ==
    ASSUME NEW l \in Logs
    PROVE  /\ EpochStart(l) \in Nat /\ EpochStart(l) <= Len(l)
           /\ l # << >> => EpochStart(l) < Len(l)
           /\ EpochStart(l) # 0 => l[EpochStart(l) + 1] = "clear"
           /\ \A q \in 1..Len(l) : l[q] = "clear" => q <= EpochStart(l) + 1
<1>1. PICK L \in Nat : L = Len(l)
  BY DEF Logs
<1> DEFINE C == {0} \cup {p - 1 : p \in {q \in 1..Len(l) : l[q] = "clear"}}
<1>2. C \in SUBSET (0..L) /\ C # {}
  BY <1>1
<1>3. \A n \in C : n # 0 => n + 1 \in 1..L /\ l[n + 1] = "clear"
  BY <1>1
<1>4. \A q \in 1..L : l[q] = "clear" => q - 1 \in C
  BY <1>1
<1>5. EpochStart(l) = Max(C)
  BY DEF EpochStart
<1> HIDE DEF C
<1>6. PICK e : e = Max(C)
  OBVIOUS
<1>7. e \in C /\ \A n \in C : n <= e
  BY <1>2, <1>6, MaxIs
<1>8. e \in 0..L /\ (e # 0 => e + 1 \in 1..L /\ l[e + 1] = "clear")
  BY <1>2, <1>3, <1>7
<1>9. ASSUME NEW q \in 1..L, l[q] = "clear" PROVE q <= e + 1
  <2>1. q - 1 \in C
    BY <1>4, <1>9
  <2>2. q - 1 <= e
    BY <1>7, <2>1
  <2> QED BY <1>8, <2>2
<1>10. l # << >> => L # 0
  BY <1>1 DEF Logs
<1>11. e \in Nat /\ e <= L /\ (l # << >> => e < L)
  BY <1>8, <1>10
<1> QED BY <1>1, <1>5, <1>6, <1>8, <1>9, <1>11

\* What it is, from where the newest clear is.
LEMMA EpochAt ==
    ASSUME NEW l \in Logs, NEW e \in Nat, e <= Len(l),
           e # 0 => e < Len(l) /\ l[e + 1] = "clear",
           \A q \in 1..Len(l) : l[q] = "clear" => q <= e + 1
    PROVE  EpochStart(l) = e
<1>1. PICK x \in Nat : x = EpochStart(l)
  BY EpochIs
<1>2. /\ x <= Len(l) /\ (x # 0 => l[x + 1] = "clear") /\ (l # << >> => x < Len(l))
      /\ \A q \in 1..Len(l) : l[q] = "clear" => q <= x + 1
  BY <1>1, EpochIs
<1>3. Len(l) \in Nat /\ (l = << >> => Len(l) = 0)
  BY DEF Logs
<1>4. x # 0 => x <= e
  <2> SUFFICES ASSUME x # 0 PROVE x <= e
    OBVIOUS
  <2>1. x + 1 \in 1..Len(l)
    BY <1>2, <1>3
  <2>2. x + 1 <= e + 1
    BY <1>2, <2>1
  <2> QED BY <2>2
<1>5. e # 0 => e <= x
  <2> SUFFICES ASSUME e # 0 PROVE e <= x
    OBVIOUS
  <2>1. e + 1 \in 1..Len(l)
    BY <1>3
  <2>2. e + 1 <= x + 1
    BY <1>2, <2>1
  <2> QED BY <2>2
<1>6. x = e
  BY <1>4, <1>5
<1> QED BY <1>1, <1>6

\* A record more keeps the epoch, unless it is a clear, which opens one.
LEMMA EpochAppend ==
    ASSUME NEW l \in Logs, NEW kind \in Kinds
    PROVE  EpochStart(Append(l, kind)) = IF kind = "clear" THEN Len(l) ELSE EpochStart(l)
<1>1. PICK m : m = Append(l, kind)
  OBVIOUS
<1>2. PICK L \in Nat : L = Len(l)
  BY DEF Logs
<1>3. /\ m \in Logs /\ Len(m) = L + 1 /\ m[L + 1] = kind /\ \A q \in 1..L : m[q] = l[q]
  BY <1>1, <1>2 DEF Logs
<1>4. \A q \in 1..(L + 1) : q \in 1..L \/ q = L + 1
  OBVIOUS
<1>5. CASE kind = "clear"
  <2>1. \A q \in 1..Len(m) : q <= L + 1
    BY <1>3
  <2>2. L <= Len(m) /\ L < Len(m)
    BY <1>3
  <2>3. EpochStart(m) = L
    BY <1>2, <1>3, <1>5, <2>1, <2>2, EpochAt
  <2> QED BY <1>1, <1>2, <1>5, <2>3
<1>6. CASE kind # "clear"
  <2>1. PICK e \in Nat : e = EpochStart(l)
    BY EpochIs
  <2>2. /\ e <= L /\ (e # 0 => l[e + 1] = "clear") /\ (l # << >> => e < L)
        /\ \A q \in 1..L : l[q] = "clear" => q <= e + 1
    BY <1>2, <2>1, EpochIs
  <2>3. e # 0 => e < L
    <3>1. l = << >> => L = 0
      BY <1>2
    <3> QED BY <2>2, <3>1
  <2>4. e # 0 => e < Len(m) /\ m[e + 1] = "clear"
    <3> SUFFICES ASSUME e # 0 PROVE e < Len(m) /\ m[e + 1] = "clear"
      OBVIOUS
    <3>1. e + 1 \in 1..L
      BY <2>3
    <3> QED BY <1>3, <2>2, <3>1
  <2>5. \A q \in 1..Len(m) : m[q] = "clear" => q <= e + 1
    BY <1>3, <1>4, <1>6, <2>2
  <2>6. e <= Len(m)
    BY <1>3, <2>2
  <2>7. EpochStart(m) = e
    BY <1>3, <2>4, <2>5, <2>6, EpochAt
  <2> QED BY <1>1, <1>6, <2>1, <2>7
<1> QED BY <1>5, <1>6

Offsets == [some : BOOLEAN, at : Nat]
States == [held : BOOLEAN, window : Seq(Nat), base : Nat, epoch : Offsets, durable : Nat]

\* A state that notes the epoch's records among the first n of the log: it
\* counts them all, knows where the epoch starts once it counts one, and its
\* window spans those from the ordinal it claims up to g, past which no record
\* can be read.
Notes(s, l, n, g) ==
    /\ s \in States
    /\ s.held
    /\ s.durable = n - EpochStart(l)
    /\ s.epoch \in {NoOffset, At(EpochStart(l))}
    /\ s.durable > 0 => s.epoch = At(EpochStart(l))
    /\ Spans(s.window, EpochStart(l) + s.base, g)
    /\ g \in Nat /\ g <= n
    /\ \A p \in (g + 1)..n : l[p] = "wide"

\* A fold of a log that has a record is such a state: its window ends at the
\* newest record that can be read.
LEMMA FoldMirrors ==
    ASSUME Budget \in Nat \ {0}, NEW l \in Logs, l # << >>
    PROVE  (\E g \in Nat : Notes(FoldEpoch(l), l, Len(l), g)) /\ FoldEpoch(l).durable # 0
<1>1. PICK L \in Nat : L = Len(l) /\ L # 0
  BY DEF Logs
<1>2. PICK e \in Nat : e = EpochStart(l) /\ e < L
  BY <1>1, EpochIs
<1>3. PICK R : R = Readable(l)
  OBVIOUS
<1>4. /\ R \in SUBSET (0..L) /\ \A p \in R : p \in (e + 1)..L
      /\ \A p \in (e + 1)..L : p \in R \/ l[p] = "wide"
  BY <1>1, <1>2, <1>3 DEF Readable
<1>5. L - e \in Nat /\ L - e # 0 /\ At(e) \in Offsets
  BY <1>1, <1>2 DEF At, Offsets
<1>6. CASE R = {}
  <2>1. FoldEpoch(l) = [Empty(At(e)) EXCEPT !.durable = L - e, !.window = << >>, !.base = 0]
    BY <1>1, <1>2, <1>3, <1>6 DEF FoldEpoch
  <2>2. PICK s : s = FoldEpoch(l)
    OBVIOUS
  <2>3. s = [held |-> TRUE, window |-> << >>, base |-> 0, epoch |-> At(e), durable |-> L - e]
    BY <2>1, <2>2 DEF Empty
  <2>4. s \in States
    BY <1>5, <2>3 DEF States
  <2>5. Spans(<< >>, e + 0, e)
    BY DEF Spans
  <2>6. \A p \in (e + 1)..L : l[p] = "wide"
    BY <1>4, <1>6
  <2>7. Notes(s, l, L, e)
    BY <1>2, <2>3, <2>4, <2>5, <2>6 DEF Notes
  <2> QED BY <1>1, <1>5, <2>2, <2>3, <2>7
<1>7. CASE R # {}
  <2>1. PICK g : g = Max(R)
    OBVIOUS
  <2>2. g \in R /\ \A y \in R : y <= g
    BY <1>4, <1>7, <2>1, MaxIs
  <2>3. g \in Nat /\ e + 1 <= g /\ g <= L
    BY <1>4, <2>2
  <2> DEFINE F == {p \in R : \A q \in p..g : q \in R}
  <2>4. g \in F
    <3>1. \A q \in g..g : q = g
      BY <2>3
    <3> QED BY <2>2, <3>1
  <2>5. F \in SUBSET Nat /\ \A p \in F : p \in (e + 1)..g
    <3>1. \A p \in F : p \in R
      OBVIOUS
    <3> HIDE DEF F
    <3>2. \A p \in F : p \in (e + 1)..L /\ p <= g
      BY <1>4, <2>2, <3>1
    <3>3. \A p \in F : p \in Nat /\ p \in (e + 1)..g
      BY <1>2, <2>3, <3>2
    <3> QED BY <3>3
  <2> HIDE DEF F
  <2>6. PICK f \in (e + 1)..g : f = Min(F)
    BY <2>4, <2>5, MinIs
  <2>7. PICK o \in (e + 1)..g : o = IF g - f < Budget THEN f ELSE g - Budget + 1
    <3>1. Budget \in Nat /\ Budget # 0
      OBVIOUS
    <3>2. f \in Nat /\ f <= g /\ e + 1 <= f
      BY <2>6
    <3>3. ~(g - f < Budget) => g - Budget + 1 \in (e + 1)..g
      BY <2>3, <3>1, <3>2
    <3> QED BY <2>6, <3>3
  <2>8. PICK w : w = [i \in 1..(g - o + 1) |-> o + i - 1]
    OBVIOUS
  <2>9. FoldEpoch(l) = [Empty(At(e)) EXCEPT !.durable = L - e, !.window = w, !.base = o - e - 1]
    <3>1. F = {p \in Readable(l) : \A q \in p..Max(Readable(l)) : q \in Readable(l)}
      BY <1>3, <2>1 DEF F
    <3> QED BY <1>1, <1>2, <1>3, <1>7, <2>1, <2>6, <2>7, <2>8, <3>1 DEF FoldEpoch
  <2>10. PICK s : s = FoldEpoch(l)
    OBVIOUS
  <2>11. s = [held |-> TRUE, window |-> w, base |-> o - e - 1, epoch |-> At(e), durable |-> L - e]
    BY <2>9, <2>10 DEF Empty
  <2>12. o \in Nat /\ o # 0 /\ o <= g /\ e + 1 <= o
    BY <2>3, <2>7
  <2>13. Spans(w, o - 1, g)
    <3>1. /\ g - o + 1 \in Nat /\ Len(w) = g - o + 1
          /\ \A i \in 1..(g - o + 1) : w[i] = o + i - 1
      BY <2>3, <2>8, <2>12
    <3>2. w \in Seq(Nat)
      <4>1. \A i \in 1..(g - o + 1) : o + i - 1 \in Nat
        BY <2>12
      <4> QED BY <2>8, <3>1, <4>1
    <3>3. \A i \in 1..Len(w) : w[i] # Delta => o - 1 < w[i] /\ w[i] <= g
      BY <2>3, <2>12, <3>1
    <3>4. \A i, j \in 1..Len(w) : i < j /\ w[i] # Delta /\ w[j] # Delta => w[i] < w[j]
      BY <2>12, <3>1
    <3>5. ASSUME NEW p \in ((o - 1) + 1)..g PROVE \E i \in 1..Len(w) : w[i] = p
      <4>1. p - o + 1 \in 1..(g - o + 1) /\ o + (p - o + 1) - 1 = p
        BY <2>3, <2>12
      <4>2. w[p - o + 1] = p
        BY <3>1, <4>1
      <4> QED BY <3>1, <4>1, <4>2
    <3>6. o - 1 \in Nat /\ o - 1 <= g
      BY <2>3, <2>12
    <3> QED BY <2>3, <3>2, <3>3, <3>4, <3>5, <3>6 DEF Spans
  <2>14. o - e - 1 \in Nat /\ e + (o - e - 1) = o - 1
    BY <2>12
  <2>15. s \in States
    <3>1. w \in Seq(Nat)
      BY <2>13 DEF Spans
    <3> QED BY <1>5, <2>11, <2>14, <3>1 DEF States
  <2>16. ASSUME NEW p \in (g + 1)..L PROVE l[p] = "wide"
    <3>1. p \in (e + 1)..L /\ ~(p <= g)
      BY <2>3
    <3> QED BY <1>4, <2>2, <3>1
  <2>17. Notes(s, l, L, g)
    BY <1>2, <2>3, <2>11, <2>13, <2>14, <2>15, <2>16 DEF Notes
  <2> QED BY <1>1, <1>5, <2>3, <2>10, <2>11, <2>17
<1> QED BY <1>6, <1>7

\* A fold counts what it read: its epoch's start and its count name the length
\* of the log it was read from.  Of an empty log it counts nothing.
LEMMA FoldReads ==
    ASSUME NEW l \in Logs
    PROVE  /\ FoldEpoch(l).held
           /\ FoldEpoch(l).epoch.at + FoldEpoch(l).durable = Len(l)
           /\ l = << >> => FoldEpoch(l).durable = 0
<1>1. PICK L \in Nat : L = Len(l)
  BY DEF Logs
<1>2. PICK e \in Nat : e = EpochStart(l) /\ e <= L
  BY <1>1, EpochIs
<1>3. FoldEpoch(l).held /\ FoldEpoch(l).durable = L - e /\ FoldEpoch(l).epoch = At(e)
  BY <1>1, <1>2 DEF FoldEpoch, Empty
<1>4. e + (L - e) = L /\ (L = 0 => L - e = 0)
  BY <1>2
<1>5. l = << >> => L = 0
  BY <1>1
<1> QED BY <1>1, <1>3, <1>4, <1>5 DEF At

-----------------------------------------------------------------------------
(* What a process knows of its log and of its reader, at every step.         *)

\* The records the state counts: one in flight is in the log and not noted.
Counted == IF app.step = "written" THEN Len(records) - 1 ELSE Len(records)

\* Who may be doing what: a restored process appends, a marker belongs to a
\* clear, and the task that clears is not reading a page.
Locked ==
    /\ app.step = "idle" => app = NoAppend
    /\ app.step # "idle" => ready
    /\ app.kind = "clear" => clearing
    /\ clearing => ready /\ ~walk.below

\* A fold is of a log that has grown since, or of the log as it is.
Reads(h, l) ==
    h.held => /\ h.epoch.at + h.durable \in Nat
              /\ h.epoch.at + h.durable <= Len(l)
              /\ h.epoch.at + h.durable = Len(l) => h = FoldEpoch(l)
Folding == \A f \in Folders : Reads(fold[f], records)

\* The state of a process that is not astray is its log's.
Holding ==
    ~clearing /\ ~astray =>
        \/ st = Absent /\ app = NoAppend /\ (records = << >> \/ ~ready)
        \/ /\ \E g \in Nat : Notes(st, records, Counted, g)
           /\ app.step # "idle" => st.epoch.some

\* A clear's marker that has opened the epoch is its first record.
Marking ==
    app.kind = "clear" /\ ~astray =>
        /\ app.step = "opened" => st = Empty(At(Len(records)))
        /\ app.step = "written" => /\ records # << >> /\ EpochStart(records) = Len(records) - 1
                                   /\ st = Empty(At(Len(records) - 1))

\* A walk w over an epoch that starts at e: what it got are records it has
\* passed, in order, and it got every one that a read can hold.  Where it ended
\* last is not past a record it could read.  A position with an offset names
\* one place, and a read of the log has a horizon ahead.
Walks == [index : Nat, offset : Offsets, below : BOOLEAN, horizon : Nat,
          epoch : Offsets, got : Seq(Nat), end : Nat]
Passed(got, l, e, n) ==
    /\ got \in Seq(Nat)
    /\ \A i \in 1..Len(got) : e < got[i] /\ got[i] <= n
    /\ \A i, j \in 1..Len(got) : i < j => got[i] < got[j]
    /\ \A p \in (e + 1)..n : l[p] = "wide" \/ \E i \in 1..Len(got) : got[i] = p
Walking(w, l, e) ==
    /\ w \in Walks
    /\ Passed(w.got, l, e, e + w.index)
    /\ e + w.index <= Len(l)
    /\ e + w.end <= Len(l)
    /\ \A p \in (e + w.index + 1)..(e + w.end) : l[p] = "wide"
    /\ w.offset.some => w.offset.at = e + w.index
    /\ w.below => /\ w.epoch = At(e)
                  /\ w.index < w.horizon /\ e + w.horizon <= Len(l)
Reading == ~clearing /\ ~astray => Walking(walk, records, EpochStart(records))

\* The shape of what the steps read.
Shapes ==
    /\ records \in Logs
    /\ app \in [step : {"idle", "opened", "written"}, kind : Kinds]
    /\ ready \in BOOLEAN /\ clearing \in BOOLEAN /\ astray \in BOOLEAN
    /\ fold = [f \in Folders |-> fold[f]]

\* The inductive invariant.
StateInv == Shapes /\ Locked /\ Folding /\ Holding /\ Marking /\ Reading

-----------------------------------------------------------------------------
(* What push, a page of the window and a page of the log give. *)

\* The next row pushed on a state without a gap, or a streamed one on any.
LEMMA PushNotes ==
    ASSUME NEW l \in Logs, NEW n \in Nat, NEW g \in Nat, NEW s, Notes(s, l, n, g),
           NEW row, NEW m \in Nat, NEW h \in Nat,
           \/ row = n + 1 /\ m = n + 1 /\ g = n /\ h = m /\ s.epoch = At(EpochStart(l))
           \/ row = Delta /\ m = n /\ h = g
    PROVE  Notes(Push(l, s, row), l, m, h)
<1>1. PICK e \in Nat : e = EpochStart(l)
  BY EpochIs
<1>2. PICK b \in Nat : b = s.base
  BY DEF Notes, States
<1>3. PICK d \in Nat : d = s.durable
  BY DEF Notes, States
<1>4. /\ s \in States /\ s.held /\ d = n - e /\ s.epoch \in {NoOffset, At(e)}
      /\ d > 0 => s.epoch = At(e)
      /\ Spans(s.window, e + b, g)
      /\ g <= n /\ \A p \in (g + 1)..n : l[p] = "wide"
  BY <1>1, <1>2, <1>3 DEF Notes
<1>5. PICK w : w = Append(s.window, row)
  OBVIOUS
<1>6. Spans(w, e + b, h)
  <2>1. /\ Spans(Append(s.window, g + 1), e + b, g + 1)
        /\ Spans(Append(s.window, Delta), e + b, g)
    BY <1>4, SpansAppend
  <2> QED BY <1>5, <2>1
<1>7. PICK k : k = Dropped(l, w)
  OBVIOUS
<1>8. PICK c \in Nat : /\ Spans(SubSeq(w, k + 1, Len(w)), c, h)
                       /\ e + b <= c /\ c <= h
                       /\ Len(Durables(SubSeq(w, 1, k))) = c - (e + b)
  BY <1>6, <1>7, PushSpans
<1>9. PICK v : v = SubSeq(w, k + 1, Len(w))
  OBVIOUS
<1>10. PICK x : x = IF row = Delta THEN 0 ELSE 1
  OBVIOUS
<1>11. x \in Nat /\ d + x = m - e /\ d + x \in Nat
  BY <1>3, <1>4, <1>10 DEF Delta
<1>12. b + (c - (e + b)) = c - e /\ c - e \in Nat /\ e + (c - e) = c
  BY <1>8
<1>13. PICK t : t = Push(l, s, row)
  OBVIOUS
<1>14. t = [s EXCEPT !.window = v, !.base = @ + (c - (e + b)), !.durable = @ + x]
  BY <1>5, <1>7, <1>8, <1>9, <1>10, <1>13 DEF Push
<1>15. /\ t.held
       /\ t.window = v
       /\ t.base = c - e
       /\ t.durable = m - e
       /\ t.epoch = s.epoch
  BY <1>2, <1>3, <1>4, <1>11, <1>12, <1>14 DEF States
<1>16. t \in States
  <2>1. v \in Seq(Nat)
    BY <1>8, <1>9 DEF Spans
  <2>2. t = [s EXCEPT !.window = v, !.base = c - e, !.durable = m - e]
    BY <1>2, <1>3, <1>4, <1>11, <1>12, <1>14 DEF States
  <2>3. m - e \in Nat
    BY <1>11
  <2> QED BY <1>4, <1>12, <2>1, <2>2, <2>3 DEF States
<1>17. m - e > 0 => s.epoch = At(e)
  BY <1>1, <1>4
<1>18. Spans(t.window, e + t.base, h)
  BY <1>8, <1>9, <1>12, <1>15
<1>19. h <= m /\ \A p \in (h + 1)..m : l[p] = "wide"
  BY <1>4
<1> QED BY <1>1, <1>4, <1>13, <1>15, <1>16, <1>17, <1>18, <1>19 DEF Notes

\* A page of the window from an ordinal it holds: the records that follow, and
\* none only past the window's end.
LEMMA PageIs ==
    ASSUME Limit \in Nat \ {0}, NEW l \in Logs, NEW n \in Nat, NEW g \in Nat, NEW s,
           Notes(s, l, n, g),
           NEW e \in Nat, e = EpochStart(l), NEW index \in Nat, s.base <= index,
           NEW page, page = Page(s, index)
    PROVE  /\ page \in Seq(Nat)
           /\ \A i \in 1..Len(page) : page[i] = e + index + i
           /\ page # << >> => e + index + Len(page) <= g
           /\ page = << >> => g <= e + index
<1>1. PICK b \in Nat : b = s.base /\ b <= index
  BY DEF Notes, States
<1>3. Spans(s.window, e + b, g)
  BY <1>1 DEF Notes
<1>4. PICK r : r = Durables(s.window)
  OBVIOUS
<1>5. r \in Seq(Nat) /\ Len(r) = g - (e + b) /\ \A i \in 1..Len(r) : r[i] = (e + b) + i
  BY <1>3, <1>4, SpansDurables
<1>6. PICK R \in Nat : R = Len(r)
  BY <1>5
<1>7. PICK k \in Nat : k = index - b
  BY <1>1
<1>8. PICK z \in Nat : z = IF k + Limit <= R THEN k + Limit ELSE R
  <2>1. k + Limit \in Nat
    BY <1>7
  <2> QED BY <1>6, <2>1
<1>9. PICK q : q = SubSeq(r, k + 1, z)
  OBVIOUS
<1>10. page = q
  BY <1>1, <1>4, <1>6, <1>7, <1>8, <1>9 DEF Page
<1>11. z <= R
  BY <1>6, <1>7, <1>8
<1>12. CASE k + 1 <= z
  <2>1. /\ q \in Seq(Nat) /\ Len(q) = z - k
        /\ \A i \in 1..(z - k) : q[i] = r[k + i]
    <3>1. k + 1 \in Int /\ z \in Int /\ z - (k + 1) + 1 = z - k
      OBVIOUS
    <3>2. \A i \in (k + 1)..z : r[i] \in Nat
      <4>1. \A i \in (k + 1)..z : i \in 1..Len(r)
        BY <1>6, <1>11
      <4> QED BY <1>5, <4>1
    <3>3. /\ q \in Seq(Nat)
          /\ Len(q) = IF k + 1 <= z THEN z - (k + 1) + 1 ELSE 0
          /\ \A i \in 1..(z - (k + 1) + 1) : q[i] = r[(k + 1) + i - 1]
      BY <1>9, <3>1, <3>2, SubSeqProperties
    <3>4. \A i \in 1..(z - k) : (k + 1) + i - 1 = k + i
      OBVIOUS
    <3> QED BY <1>12, <3>1, <3>3, <3>4
  <2>2. ASSUME NEW i \in 1..(z - k) PROVE q[i] = e + index + i
    <3>1. k + i \in 1..R
      BY <1>7, <1>8, <1>11, <1>12
    <3>2. q[i] = (e + b) + (k + i)
      BY <1>5, <1>6, <2>1, <3>1
    <3> QED BY <1>1, <1>7, <3>2
  <2>3. e + index + (z - k) <= g
    <3>1. R = g - (e + b) /\ index = k + b
      BY <1>1, <1>5, <1>6, <1>7
    <3> QED BY <1>11, <3>1
  <2>4. q # << >>
    BY <1>12, <2>1
  <2> QED BY <1>10, <2>1, <2>2, <2>3, <2>4
<1>13. CASE ~(k + 1 <= z)
  <2>1. q = << >>
    BY <1>5, <1>6, <1>7, <1>8, <1>9, <1>13
  <2>2. k >= R
    BY <1>6, <1>7, <1>8, <1>13
  <2>3. g <= e + index
    <3>1. R = g - (e + b) /\ index = k + b
      BY <1>1, <1>5, <1>6, <1>7
    <3> QED BY <2>2, <3>1
  <2> QED BY <1>10, <2>1, <2>3
<1> QED BY <1>12, <1>13

\* A walk that gets the records that follow, up to m, has passed those too.
LEMMA PassedOn ==
    ASSUME NEW l, NEW e \in Nat, NEW n \in Nat, NEW m \in Nat, n <= m, e <= n,
           NEW got, Passed(got, l, e, n), NEW r \in Seq(Nat),
           \A i \in 1..Len(r) : n < r[i] /\ r[i] <= m,
           \A i, j \in 1..Len(r) : i < j => r[i] < r[j],
           \A p \in (n + 1)..m : l[p] = "wide" \/ \E i \in 1..Len(r) : r[i] = p
    PROVE  Passed(got \o r, l, e, m)
<1>1. PICK G \in Nat : G = Len(got)
  BY DEF Passed
<1>2. PICK R \in Nat : R = Len(r)
  OBVIOUS
<1>3. /\ got \in Seq(Nat)
      /\ \A i \in 1..G : got[i] \in Nat /\ e < got[i] /\ got[i] <= n
      /\ \A i, j \in 1..G : i < j => got[i] < got[j]
      /\ \A p \in (e + 1)..n : l[p] = "wide" \/ \E i \in 1..G : got[i] = p
  BY <1>1 DEF Passed
<1>4. PICK w : w = got \o r
  OBVIOUS
<1>5. /\ w \in Seq(Nat) /\ Len(w) = G + R
      /\ \A i \in 1..G : w[i] = got[i]
      /\ \A i \in (G + 1)..(G + R) : w[i] = r[i - G]
  BY <1>1, <1>2, <1>3, <1>4
<1>6. \A i \in 1..(G + R) : i \in 1..G \/ (i \in (G + 1)..(G + R) /\ i - G \in 1..R)
  OBVIOUS
<1>7. \A i \in 1..R : r[i] \in Nat
  BY <1>2
<1>8. ASSUME NEW i \in 1..Len(w) PROVE e < w[i] /\ w[i] <= m
  <2>1. CASE i \in 1..G
    <3>1. w[i] = got[i] /\ got[i] \in Nat /\ e < got[i] /\ got[i] <= n
      BY <1>3, <1>5, <2>1
    <3> QED BY <3>1
  <2>2. CASE i \notin 1..G
    <3>1. i \in (G + 1)..(G + R) /\ i - G \in 1..R
      BY <1>5, <1>6, <2>2
    <3>2. w[i] = r[i - G] /\ n < r[i - G] /\ r[i - G] <= m /\ r[i - G] \in Nat
      BY <1>2, <1>5, <1>7, <3>1
    <3> QED BY <3>2
  <2> QED BY <2>1, <2>2
<1>9. ASSUME NEW i \in 1..Len(w), NEW j \in 1..Len(w), i < j PROVE w[i] < w[j]
  <2>1. CASE i \in 1..G /\ j \in 1..G
    BY <1>3, <1>5, <1>9, <2>1
  <2>2. CASE i \in 1..G /\ j \notin 1..G
    <3>1. j \in (G + 1)..(G + R) /\ j - G \in 1..R
      BY <1>5, <1>6, <2>2
    <3>2. w[i] = got[i] /\ got[i] \in Nat /\ got[i] <= n
      BY <1>3, <1>5, <2>2
    <3>3. w[j] = r[j - G] /\ n < r[j - G] /\ r[j - G] \in Nat
      BY <1>2, <1>5, <1>7, <3>1
    <3> QED BY <3>2, <3>3
  <2>3. CASE i \notin 1..G
    <3>1. i \in (G + 1)..(G + R) /\ i - G \in 1..R
      BY <1>5, <1>6, <2>3
    <3>2. j \in (G + 1)..(G + R) /\ j - G \in 1..R /\ i - G < j - G
      BY <1>5, <1>9, <3>1
    <3> QED BY <1>2, <1>5, <3>1, <3>2
  <2> QED BY <2>1, <2>2, <2>3
<1>10. ASSUME NEW p \in (e + 1)..m
       PROVE  l[p] = "wide" \/ \E i \in 1..Len(w) : w[i] = p
  <2>1. p \in (e + 1)..n \/ p \in (n + 1)..m
    OBVIOUS
  <2>2. CASE p \in (e + 1)..n
    <3>1. l[p] = "wide" \/ \E i \in 1..G : got[i] = p
      BY <1>3, <2>2
    <3>2. \A i \in 1..G : i \in 1..Len(w)
      BY <1>5
    <3> QED BY <1>5, <3>1, <3>2
  <2>3. CASE p \in (n + 1)..m
    <3>1. l[p] = "wide" \/ \E i \in 1..R : r[i] = p
      BY <1>2, <2>3
    <3>2. \A i \in 1..R : G + i \in (G + 1)..(G + R) /\ (G + i) - G = i /\ G + i \in 1..Len(w)
      BY <1>5
    <3>3. ASSUME NEW i \in 1..R, r[i] = p PROVE w[G + i] = p /\ G + i \in 1..Len(w)
      BY <1>5, <3>2, <3>3
    <3> QED BY <3>1, <3>3
  <2> QED BY <2>1, <2>2, <2>3
<1> QED BY <1>4, <1>5, <1>8, <1>9, <1>10 DEF Passed

\* A set without elements has none to count.
LEMMA NoneCounted == Cardinality({}) = 0
  BY FS_EmptySet

\* A page g that goes on from the ordinal x of an epoch that starts at e to m.
Answers(g, l, e, x, m) ==
    /\ x <= m /\ e + m <= Len(l)
    /\ g.index = m /\ g.offset = At(e + m)
    /\ g.rows \in Seq(Nat)
    /\ \A i \in 1..Len(g.rows) : e + x < g.rows[i] /\ g.rows[i] <= e + m
    /\ \A i, j \in 1..Len(g.rows) : i < j => g.rows[i] < g.rows[j]
    /\ \A p \in (e + x + 1)..(e + m) :
           l[p] = "wide" \/ \E i \in 1..Len(g.rows) : g.rows[i] = p

\* The page a read of the log answers a position with: it goes on, at most to
\* the end of the log, and returns every record passed that it can hold.
LEMMA LogPageIs ==
    ASSUME Limit \in Nat \ {0}, NEW l \in Logs, NEW e \in Nat, NEW w,
           Walking(w, l, e), w.below
    PROVE  \E m \in Nat : Answers(LogPage(l, w), l, e, w.index, m)
<1>1. PICK L \in Nat : L = Len(l)
  BY DEF Logs
<1>2. PICK x \in Nat : x = w.index
  BY DEF Walking, Walks
<1>3. PICK h \in Nat : h = w.horizon
  BY DEF Walking, Walks
<1>4. /\ x < h /\ e + h <= L /\ e + x <= L /\ w.epoch = At(e)
      /\ w.offset.some => w.offset.at = e + x
      /\ w.offset.some \in BOOLEAN
  BY <1>1, <1>2, <1>3 DEF Walking, Walks, Offsets
<1>5. PICK ord \in Nat : ord = IF w.offset.some THEN w.index ELSE 0
  BY <1>2
<1>6. PICK off \in Nat : off = IF w.offset.some THEN w.offset.at ELSE w.epoch.at
  BY <1>4 DEF At
<1>7. off = e + ord /\ ord <= x /\ off <= L
  <2>1. CASE w.offset.some
    BY <1>2, <1>4, <1>5, <1>6, <2>1
  <2>2. CASE ~w.offset.some
    <3>1. ord = 0 /\ off = e
      BY <1>4, <1>5, <1>6, <2>2 DEF At
    <3> QED BY <1>4, <3>1
  <2> QED BY <2>1, <2>2
<1> DEFINE T(n) == {p \in off + 1..off + n : l[p] # "wide" /\ ord + (p - off - 1) >= w.index}
           N == {n \in 0..Len(l) - off :
                    \/ ord + n >= w.horizon
                    \/ Cardinality(T(n)) >= Limit
                    \/ off + n = Len(l)}
<1>8. LogPage(l, w) = [rows |-> Only([i \in 1..Min(N) |-> off + i], T(Min(N))),
                       index |-> ord + Min(N), offset |-> At(off + Min(N))]
  <2>1. ~(~w.offset.some /\ ~w.epoch.some)
    BY <1>4 DEF At
  <2> QED BY <1>5, <1>6, <2>1 DEF LogPage
<1>9. PICK y \in Nat : y = L - off
  BY <1>7
<1>10. N \in SUBSET Nat /\ y \in N /\ \A n \in N : n \in 0..y
  <2>1. 0..Len(l) - off = 0..y
    BY <1>1, <1>9
  <2>2. off + y = Len(l)
    BY <1>1, <1>7, <1>9
  <2>3. y \in 0..y /\ 0..y \subseteq Nat
    OBVIOUS
  <2> QED BY <2>1, <2>2, <2>3
<1>11. PICK n \in 0..y : n = Min(N) /\ n \in N
  <2> HIDE DEF N
  <2> QED BY <1>10, MinIs
<1>12. ord + n >= h \/ Cardinality(T(n)) >= Limit \/ off + n = L
  BY <1>1, <1>3, <1>11
<1>13. PICK m \in Nat : m = ord + n
  OBVIOUS
<1>14. e + m = off + n /\ e + m <= L /\ off + n \in Nat
  BY <1>7, <1>9, <1>13
<1>15. PICK S : S = T(n)
  OBVIOUS
<1>16. \A p \in Nat : p \in S <=> p \in (off + 1)..(off + n) /\ l[p] # "wide" /\ e + x < p
  <2>1. ASSUME NEW p \in Nat PROVE ord + (p - off - 1) >= x <=> e + x < p
    BY <1>7
  <2> QED BY <1>2, <1>15, <2>1
<1>17. S \subseteq (off + 1)..(off + n)
  BY <1>15
<1> HIDE DEF T, N
<1>18. x <= m
  <2>1. CASE ord + n >= h
    BY <1>4, <1>13, <2>1
  <2>2. CASE off + n = L
    BY <1>4, <1>14, <2>2
  <2>3. CASE Cardinality(T(n)) >= Limit
    <3>1. S # {}
      BY <1>15, <2>3, NoneCounted
    <3>2. PICK p : p \in S
      BY <3>1
    <3>3. p \in Nat /\ p <= off + n /\ e + x < p
      BY <1>16, <1>17, <3>2
    <3> QED BY <1>14, <3>3
  <2> QED BY <1>12, <2>1, <2>2, <2>3
<1>19. PICK u : u = [i \in 1..n |-> off + i]
  OBVIOUS
<1>20. u \in Seq(Nat) /\ Len(u) = n /\ \A i \in 1..n : u[i] = off + i
  BY <1>19
<1>21. Rising(u, S)
  BY <1>20 DEF Rising
<1>22. PICK r : r = Only(u, S)
  OBVIOUS
<1>23. Kept(u, S, n, r)
  BY <1>20, <1>21, <1>22, OnlyKeeps
<1>24. LogPage(l, w) = [rows |-> r, index |-> m, offset |-> At(e + m)]
  BY <1>8, <1>11, <1>13, <1>14, <1>15, <1>19, <1>22
<1>25. r \in Seq(Nat) /\ \A i, j \in 1..Len(r) : i < j => r[i] < r[j]
  BY <1>23 DEF Kept
<1>26. ASSUME NEW i \in 1..Len(r) PROVE e + x < r[i] /\ r[i] <= e + m
  <2>1. r[i] \in S /\ r[i] \in Nat
    BY <1>23, <1>25 DEF Kept
  <2>2. r[i] \in (off + 1)..(off + n) /\ e + x < r[i]
    BY <1>16, <2>1
  <2> QED BY <1>14, <2>2
<1>27. ASSUME NEW p \in (e + x + 1)..(e + m)
       PROVE  l[p] = "wide" \/ \E i \in 1..Len(r) : r[i] = p
  <2> SUFFICES ASSUME l[p] # "wide" PROVE \E i \in 1..Len(r) : r[i] = p
    OBVIOUS
  <2>1. /\ p \in Nat
        /\ e + x < p
        /\ p \in (off + 1)..(off + n)
        /\ p - off \in 1..n
        /\ off + (p - off) = p
    BY <1>7, <1>14
  <2>2. p \in S
    BY <1>16, <2>1
  <2>3. u[p - off] = p
    BY <1>20, <2>1
  <2> QED BY <1>23, <2>1, <2>2, <2>3 DEF Kept
<1>28. /\ x <= m /\ e + m <= Len(l)
       /\ LogPage(l, w).index = m /\ LogPage(l, w).offset = At(e + m)
       /\ LogPage(l, w).rows = r
  BY <1>1, <1>14, <1>18, <1>24
<1> QED BY <1>2, <1>25, <1>26, <1>27, <1>28 DEF Answers

\* A walk goes on over a log that grows.
LEMMA WalkingOn ==
    ASSUME NEW l \in Logs, NEW kind \in Kinds, NEW e \in Nat, NEW w,
           Walking(w, l, e)
    PROVE  Walking(w, Append(l, kind), e)
<1>1. PICK L \in Nat : L = Len(l)
  BY DEF Logs
<1>2. PICK k : k = Append(l, kind)
  OBVIOUS
<1>3. Len(k) = L + 1 /\ \A q \in 1..L : k[q] = l[q]
  BY <1>1, <1>2 DEF Logs
<1>4. PICK x \in Nat : x = w.index
  BY DEF Walking, Walks
<1>5. PICK d \in Nat : d = w.end
  BY DEF Walking, Walks
<1>6. /\ w \in Walks /\ Passed(w.got, l, e, e + x) /\ e + x <= L /\ e + d <= L
      /\ \A p \in (e + x + 1)..(e + d) : l[p] = "wide"
      /\ (w.offset.some => w.offset.at = e + w.index)
      /\ w.below => w.epoch = At(e) /\ w.index < w.horizon /\ e + w.horizon <= L
  BY <1>1, <1>4, <1>5 DEF Walking
<1>7. Passed(w.got, k, e, e + x)
  <2>1. \A p \in (e + 1)..(e + x) : p \in 1..L
    BY <1>6
  <2>2. \A p \in (e + 1)..(e + x) : k[p] = l[p]
    BY <1>3, <2>1
  <2> QED BY <1>6, <2>2 DEF Passed
<1>8. \A p \in (e + x + 1)..(e + d) : k[p] = "wide"
  <2>1. \A p \in (e + x + 1)..(e + d) : p \in 1..L
    BY <1>6
  <2> QED BY <1>3, <1>6, <2>1
<1>9. e + x <= Len(k) /\ e + d <= Len(k) /\ (w.below => e + w.horizon <= Len(k))
  <2>1. w.horizon \in Nat
    BY <1>6 DEF Walks
  <2> QED BY <1>3, <1>6, <2>1
<1> QED BY <1>2, <1>4, <1>5, <1>6, <1>7, <1>8, <1>9 DEF Walking

\* A walk that has not begun.
LEMMA WalkingFresh ==
    ASSUME NEW l \in Logs
    PROVE  Walking(WalkStart, l, EpochStart(l))
<1>1. WalkStart \in Walks
  BY DEF WalkStart, Walks, Offsets, NoOffset
<1>2. PICK e \in Nat : e = EpochStart(l) /\ e <= Len(l)
  BY EpochIs
<1>3. Passed(<< >>, l, e, e)
  BY <1>2 DEF Passed
<1>4. /\ WalkStart.got = << >> /\ WalkStart.index = 0 /\ WalkStart.end = 0
      /\ ~WalkStart.below /\ ~WalkStart.offset.some
  BY DEF WalkStart, NoOffset
<1>5. \A p \in (e + 0 + 1)..(e + 0) : l[p] = "wide"
  BY <1>2
<1>6. e + 0 = e
  OBVIOUS
<1>7. Walking(WalkStart, l, e)
  BY <1>1, <1>2, <1>3, <1>4, <1>5, <1>6 DEF Walking
<1> QED BY <1>2, <1>7

-----------------------------------------------------------------------------
(* Each step keeps the invariant. *)

\* A state without a record notes an epoch that has none.
LEMMA EmptyNotes ==
    ASSUME NEW l \in Logs, NEW e \in Nat, e = EpochStart(l)
    PROVE  Notes(Empty(At(e)), l, e, e) /\ Notes(Empty(NoOffset), l, e, e)
<1>1. Spans(<< >>, e + 0, e)
  BY DEF Spans
<1>2. Empty(At(e)) \in States /\ Empty(NoOffset) \in States
  BY DEF Empty, At, NoOffset, States, Offsets
<1>3. e - e = 0 /\ ~(0 > 0) /\ \A p \in (e + 1)..e : l[p] = "wide"
  OBVIOUS
<1> QED BY <1>1, <1>2, <1>3 DEF Notes, Empty

\* A state without an epoch is one of a log without records.
LEMMA NoEpoch ==
    ASSUME NEW l \in Logs, NEW s, NEW g, Notes(s, l, Len(l), g), ~s.epoch.some
    PROVE  l = << >>
<1>1. PICK e \in Nat : e = EpochStart(l) /\ (l # << >> => e < Len(l))
  BY EpochIs
<1>2. Len(l) \in Nat
  BY DEF Logs
<1>3. s.durable = Len(l) - e /\ ~(s.durable > 0)
  BY <1>1 DEF Notes, At
<1> QED BY <1>1, <1>2, <1>3

\* A log without records has its epoch at the head.
LEMMA EmptyLog == << >> \in Logs /\ Len(<< >>) = 0 /\ EpochStart(<< >>) = 0
<1>1. PICK l : l = << >>
  OBVIOUS
<1>2. l \in Logs /\ Len(l) = 0
  BY <1>1 DEF Logs
<1>3. EpochStart(l) \in Nat /\ EpochStart(l) <= Len(l)
  BY <1>2, EpochIs
<1>4. EpochStart(l) = 0
  BY <1>2, <1>3
<1> QED BY <1>1, <1>2, <1>4

\* Before any step.
LEMMA InitHolds == StateInit => StateInv
<1> SUFFICES ASSUME StateInit PROVE StateInv
  OBVIOUS
<1>1. /\ records = << >>
      /\ st = Absent
      /\ app = NoAppend
      /\ fold = [f \in Folders |-> NoFold]
      /\ walk = WalkStart /\ ready = TRUE /\ clearing = FALSE /\ astray = FALSE
  BY DEF StateInit
<1>2. records \in Logs
  BY <1>1, EmptyLog
<1>3. Reading
  BY <1>1, <1>2, WalkingFresh DEF Reading
<1>4. Shapes /\ Locked
  BY <1>1, <1>2 DEF Shapes, Locked, NoAppend, Kinds
<1>5. Folding
  BY <1>1 DEF Folding, Reads, NoFold, Absent
<1>6. Holding /\ Marking
  BY <1>1 DEF Holding, Marking, NoAppend
<1> QED BY <1>3, <1>4, <1>5, <1>6 DEF StateInv

\* A process that is not astray and not clearing, and holds the session, has
\* noted its log.
LEMMA HeldNotes ==
    ASSUME StateInv, ~clearing, ~astray, st.held
    PROVE  /\ \E g \in Nat : Notes(st, records, Counted, g)
           /\ app.step # "idle" => st.epoch.some
           /\ Counted \in Nat /\ Counted <= Len(records)
<1>1. /\ \E g \in Nat : Notes(st, records, Counted, g)
      /\ app.step # "idle" => st.epoch.some
  BY DEF StateInv, Holding, Absent
<1>2. PICK g \in Nat : Notes(st, records, Counted, g)
  BY <1>1
<1>3. Len(records) \in Nat
  BY DEF StateInv, Shapes, Logs
<1>4. g <= Counted
  BY <1>2 DEF Notes
<1>5. Counted \in Nat /\ Counted <= Len(records)
  BY <1>3, <1>4 DEF Counted
<1> QED BY <1>1, <1>5

\* The folds in progress do not change while the log and they do not.
LEMMA FoldingStays ==
    ASSUME Folding, records' = records, fold' = fold
    PROVE  Folding'
  BY DEF Folding, Reads

\* A fold of a log is one of a log that has grown since.
LEMMA FoldingGrows ==
    ASSUME Shapes, Folding, NEW kind \in Kinds, records' = Append(records, kind), fold' = fold
    PROVE  Folding'
<1>1. PICK L \in Nat : L = Len(records)
  BY DEF Shapes, Logs
<1>2. Len(records') = L + 1
  BY <1>1 DEF Shapes, Logs
<1>3. ASSUME NEW f \in Folders, fold[f].held
      PROVE  LET n == fold[f].epoch.at + fold[f].durable
             IN n \in Nat /\ n <= Len(records') /\ n # Len(records')
  <2>1. PICK n \in Nat : n = fold[f].epoch.at + fold[f].durable /\ n <= L
    BY <1>1, <1>3 DEF Folding, Reads
  <2>2. n <= L + 1 /\ n # L + 1
    BY <2>1
  <2> QED BY <1>2, <2>1, <2>2
<1> QED BY <1>3 DEF Folding, Reads

\* A fold that is read is of the log as it is.
LEMMA FoldingReads ==
    ASSUME Shapes, Folding, NEW f \in Folders, records' = records,
           fold' = [fold EXCEPT ![f] = FoldEpoch(records)]
    PROVE  Folding' /\ fold' = [h \in Folders |-> fold'[h]]
<1>1. fold' = [h \in Folders |-> fold'[h]]
  BY DEF Shapes
<1>2. \A h \in Folders : fold'[h] = IF h = f THEN FoldEpoch(records) ELSE fold[h]
  BY DEF Shapes
<1>3. Reads(FoldEpoch(records), records)
  <2>1. records \in Logs /\ Len(records) \in Nat
    BY DEF Shapes, Logs
  <2> QED BY <2>1, FoldReads DEF Reads
<1>4. \A h \in Folders : Reads(fold'[h], records)
  BY <1>2, <1>3 DEF Folding
<1> QED BY <1>1, <1>4 DEF Folding

\* A fold that is installed or dropped leaves the other as it is.
LEMMA FoldingDrops ==
    ASSUME Shapes, Folding, NEW f \in Folders, records' = records,
           fold' = [fold EXCEPT ![f] = NoFold]
    PROVE  Folding' /\ fold' = [h \in Folders |-> fold'[h]]
<1>1. fold' = [h \in Folders |-> fold'[h]]
  BY DEF Shapes
<1>2. \A h \in Folders : fold'[h] = IF h = f THEN NoFold ELSE fold[h]
  BY DEF Shapes
<1>3. Reads(NoFold, records)
  BY DEF Reads, NoFold, Absent
<1>4. \A h \in Folders : Reads(fold'[h], records)
  BY <1>2, <1>3 DEF Folding
<1> QED BY <1>1, <1>4 DEF Folding

\* A durable append takes the lock.
LEMMA AppendDurableKeeps ==
    ASSUME StateInv, AppendDurable
    PROVE  StateInv'
<1>1. PICK kind \in {"rec", "wide"} :
        /\ app' = [step |-> "opened", kind |-> kind]
        /\ st' = IF NeedsEpoch THEN Empty(At(Len(records))) ELSE st
  BY DEF AppendDurable, Open
<1>2. /\ ready /\ app = NoAppend
      /\ records' = records
      /\ fold' = fold
      /\ walk' = walk
      /\ ready' = ready
      /\ clearing' = clearing
      /\ astray' = astray
  BY DEF AppendDurable, CanAppend
<1>3. app.step = "idle" /\ Counted = Len(records)
  BY <1>2 DEF NoAppend, Counted
<1>4. app'.step = "opened" /\ app'.kind = kind /\ kind # "clear" /\ Counted' = Len(records)
  BY <1>1, <1>2 DEF Counted
<1>5. records \in Logs
  BY DEF StateInv, Shapes
<1>6. Holding'
  <2> SUFFICES ASSUME ~clearing, ~astray
               PROVE  (\E g \in Nat : Notes(st', records, Len(records), g)) /\ st'.epoch.some
    BY <1>2, <1>4 DEF Holding
  <2>1. \/ st = Absent /\ records = << >>
        \/ \E g \in Nat : Notes(st, records, Len(records), g)
    BY <1>2, <1>3 DEF StateInv, Holding
  <2>2. CASE NeedsEpoch
    <3>1. records = << >>
      BY <1>5, <2>1, <2>2, NoEpoch DEF Notes, NeedsEpoch
    <3>2. Len(records) = 0 /\ EpochStart(records) = 0
      BY <3>1, EmptyLog
    <3>3. st' = Empty(At(0))
      BY <1>1, <2>2, <3>2
    <3>4. Notes(Empty(At(0)), records, 0, 0)
      BY <1>5, <3>2, EmptyNotes
    <3>5. st'.epoch.some
      BY <3>3 DEF Empty, At
    <3> QED BY <3>2, <3>3, <3>4, <3>5
  <2>3. CASE ~NeedsEpoch
    <3>1. st # Absent /\ st.epoch.some
      BY <2>3 DEF Absent, NeedsEpoch
    <3>2. st' = st
      BY <1>1, <2>3
    <3> QED BY <2>1, <3>1, <3>2
  <2> QED BY <2>2, <2>3
<1>7. Shapes'
  BY <1>1, <1>2 DEF StateInv, Shapes, Kinds
<1>8. Locked' /\ Marking'
  BY <1>2, <1>4 DEF StateInv, Locked, Marking
<1>9. Folding'
  BY <1>2, FoldingStays DEF StateInv
<1>10. Reading'
  BY <1>2 DEF StateInv, Reading
<1> QED BY <1>6, <1>7, <1>8, <1>9, <1>10 DEF StateInv

\* The record reaches the log.
LEMMA BackendWroteKeeps ==
    ASSUME StateInv, BackendWrote
    PROVE  StateInv'
<1>1. /\ app.step = "opened" /\ records' = Append(records, app.kind)
      /\ app' = [app EXCEPT !.step = "written"]
      /\ st' = st
      /\ fold' = fold
      /\ walk' = walk
      /\ ready' = ready
      /\ clearing' = clearing
      /\ astray' = astray
  BY DEF BackendWrote
<1>2. records \in Logs /\ app.kind \in Kinds
  BY DEF StateInv, Shapes
<1>3. PICK L \in Nat : L = Len(records)
  BY <1>2 DEF Logs
<1>4. PICK e \in Nat : e = EpochStart(records)
  BY <1>2, EpochIs
<1>5. /\ records' \in Logs
      /\ Len(records') = L + 1
      /\ records' # << >>
      /\ Len(records') - 1 = L
      /\ \A q \in 1..L : records'[q] = records[q]
  BY <1>1, <1>2, <1>3 DEF Logs
<1>6. EpochStart(records') = IF app.kind = "clear" THEN L ELSE e
  BY <1>1, <1>2, <1>3, <1>4, EpochAppend
<1>7. app'.step = "written" /\ app'.kind = app.kind /\ Counted' = L /\ Counted = L
  BY <1>1, <1>3, <1>5 DEF StateInv, Shapes, Counted
<1>8. app # NoAppend
  BY <1>1 DEF NoAppend
<1>9. ready /\ (app.kind = "clear" => clearing)
  BY <1>1 DEF StateInv, Locked
<1>10. Shapes'
  BY <1>1, <1>5 DEF StateInv, Shapes
<1>11. Locked'
  BY <1>1, <1>7, <1>9 DEF StateInv, Locked
<1>12. Folding'
  BY <1>1, <1>2, FoldingGrows DEF StateInv
<1>13. Holding' /\ Reading'
  <2> SUFFICES ASSUME ~clearing, ~astray PROVE Holding' /\ Reading'
    BY <1>1 DEF Holding, Reading
  <2>1. EpochStart(records') = EpochStart(records)
    BY <1>4, <1>6, <1>9
  <2>2. st.epoch.some /\ \E g \in Nat : Notes(st, records, L, g)
    BY <1>1, <1>7, <1>8 DEF StateInv, Holding
  <2>3. PICK g \in Nat : Notes(st, records, L, g)
    BY <2>2
  <2>4. \A p \in (g + 1)..L : records'[p] = "wide"
    <3>1. \A p \in (g + 1)..L : p \in 1..L
      OBVIOUS
    <3> QED BY <1>5, <2>3, <3>1 DEF Notes
  <2>5. Notes(st, records', L, g)
    BY <2>1, <2>3, <2>4 DEF Notes
  <2>6. Walking(walk, records, e)
    BY <1>4 DEF StateInv, Reading
  <2>7. Walking(walk, records', e)
    BY <1>1, <1>2, <2>6, WalkingOn
  <2> QED BY <1>1, <1>4, <1>7, <2>1, <2>2, <2>5, <2>7 DEF Holding, Reading
<1>14. Marking'
  <2> SUFFICES ASSUME app.kind = "clear", ~astray PROVE Marking'
    BY <1>1, <1>7 DEF Marking
  <2>1. st = Empty(At(L))
    BY <1>1, <1>3 DEF StateInv, Marking
  <2>2. EpochStart(records') = Len(records') - 1
    BY <1>5, <1>6
  <2> QED BY <1>1, <1>5, <1>7, <2>1, <2>2 DEF Marking
<1> QED BY <1>10, <1>11, <1>12, <1>13, <1>14 DEF StateInv

\* An append ends, and with a marker's append the clear.
LEMMA OverKeeps ==
    ASSUME StateInv, AppendOver
    PROVE  /\ app' = NoAppend /\ app'.step = "idle" /\ app'.kind # "clear"
           /\ fold' = fold /\ ready' = ready
           /\ fold' = [f \in Folders |-> fold'[f]]
           /\ Locked' /\ Marking'
           /\ clearing' = (clearing /\ app.kind # "clear")
           /\ walk' = IF app.kind = "clear" THEN WalkStart ELSE walk
           /\ clearing' \in BOOLEAN /\ ready' \in BOOLEAN
           /\ app' \in [step : {"idle", "opened", "written"}, kind : Kinds]
<1>1. /\ app' = NoAppend /\ fold' = fold /\ ready' = ready
      /\ app.kind = "clear" => clearing' = FALSE /\ walk' = WalkStart
      /\ app.kind # "clear" => clearing' = clearing /\ walk' = walk
  BY DEF AppendOver
<1>2. clearing \in BOOLEAN /\ ready \in BOOLEAN /\ fold = [f \in Folders |-> fold[f]]
  BY DEF StateInv, Shapes
<1>3. app'.step = "idle" /\ app'.kind # "clear"
  BY <1>1 DEF NoAppend
<1>4. /\ clearing' = (clearing /\ app.kind # "clear")
      /\ walk' = IF app.kind = "clear" THEN WalkStart ELSE walk
  BY <1>1, <1>2
<1>5. Locked'
  BY <1>1, <1>3, <1>4 DEF StateInv, Locked
<1>6. Marking'
  BY <1>3 DEF Marking
<1>7. app' \in [step : {"idle", "opened", "written"}, kind : Kinds]
  BY <1>1 DEF NoAppend, Kinds
<1> QED BY <1>1, <1>2, <1>3, <1>4, <1>5, <1>6, <1>7

\* The write failed.
LEMMA BackendFailedKeeps ==
    ASSUME StateInv, BackendFailed
    PROVE  StateInv'
<1>1. /\ app.step = "opened" /\ AppendOver
      /\ astray' = (astray \/ app.kind = "clear")
      /\ records' = records /\ st' = st
  BY DEF BackendFailed
<1>2. /\ app' = NoAppend /\ app'.step = "idle" /\ fold' = fold /\ ready' = ready
      /\ fold' = [f \in Folders |-> fold'[f]]
      /\ Locked' /\ Marking'
      /\ clearing' = (clearing /\ app.kind # "clear")
      /\ walk' = IF app.kind = "clear" THEN WalkStart ELSE walk
      /\ clearing' \in BOOLEAN /\ ready' \in BOOLEAN
      /\ app' \in [step : {"idle", "opened", "written"}, kind : Kinds]
  BY <1>1, OverKeeps
<1>3. app # NoAppend /\ Counted' = Counted
  BY <1>1, <1>2 DEF NoAppend, Counted
<1>4. Shapes'
  BY <1>1, <1>2 DEF StateInv, Shapes
<1>5. Folding'
  BY <1>1, <1>2, FoldingStays DEF StateInv
<1>6. Holding' /\ Reading'
  <2> SUFFICES ASSUME ~clearing', ~astray' PROVE Holding' /\ Reading'
    BY DEF Holding, Reading
  <2>1. ~astray /\ app.kind # "clear" /\ ~clearing /\ walk' = walk
    BY <1>1, <1>2
  <2>2. \E g \in Nat : Notes(st, records, Counted, g)
    BY <1>3, <2>1 DEF StateInv, Holding
  <2> QED BY <1>1, <1>2, <1>3, <2>1, <2>2 DEF StateInv, Holding, Reading
<1> QED BY <1>2, <1>4, <1>5, <1>6 DEF StateInv

\* The write landed and its append failed.
LEMMA BackendUnsyncedKeeps ==
    ASSUME StateInv, BackendUnsynced
    PROVE  StateInv'
<1>1. /\ AppendOver
      /\ astray' = TRUE
      /\ records' = Append(records, app.kind)
  BY DEF BackendUnsynced
<1>2. /\ fold' = fold /\ Locked' /\ Marking'
      /\ fold' = [f \in Folders |-> fold'[f]]
      /\ clearing' \in BOOLEAN /\ ready' \in BOOLEAN
      /\ app' \in [step : {"idle", "opened", "written"}, kind : Kinds]
  BY <1>1, OverKeeps
<1>3. records \in Logs /\ app.kind \in Kinds
  BY DEF StateInv, Shapes
<1>4. records' \in Logs
  BY <1>1, <1>3 DEF Logs
<1>5. Shapes'
  BY <1>1, <1>2, <1>4 DEF Shapes
<1>6. Folding'
  BY <1>1, <1>2, <1>3, FoldingGrows DEF StateInv
<1>7. Holding' /\ Reading'
  BY <1>1 DEF Holding, Reading
<1> QED BY <1>2, <1>5, <1>6, <1>7 DEF StateInv

\* A state without a gap has a window that ends at what it counts.
LEMMA NoGap ==
    ASSUME NEW l \in Logs, NEW s, NEW n \in Nat, NEW g \in Nat, Notes(s, l, n, g), ~Gapped(s)
    PROVE  g = n
<1>1. PICK e \in Nat : e = EpochStart(l)
  BY EpochIs
<1>2. PICK b \in Nat : b = s.base
  BY DEF Notes, States
<1>3. PICK r : r = Durables(s.window)
  OBVIOUS
<1>4. Spans(s.window, e + b, g) /\ s.durable = n - e
  BY <1>1, <1>2 DEF Notes
<1>5. Len(r) = g - (e + b)
  BY <1>3, <1>4, SpansDurables
<1>6. b + Len(r) = n - e
  BY <1>2, <1>3, <1>4 DEF Gapped
<1> QED BY <1>5, <1>6

\* The record in flight is noted; a clear's marker opens the epoch.
LEMMA NoteDurableKeeps ==
    ASSUME StateInv, NoteDurable
    PROVE  StateInv'
<1>1. /\ app.step = "written" /\ AppendOver
      /\ st' = Push(records, OrDefault(st), Len(records))
      /\ astray' = (astray \/ Gapped(st))
      /\ records' = records
  BY DEF NoteDurable
<1>2. /\ app' = NoAppend /\ app'.step = "idle" /\ fold' = fold /\ ready' = ready
      /\ fold' = [f \in Folders |-> fold'[f]]
      /\ Locked' /\ Marking'
      /\ clearing' = (clearing /\ app.kind # "clear")
      /\ walk' = IF app.kind = "clear" THEN WalkStart ELSE walk
      /\ clearing' \in BOOLEAN /\ ready' \in BOOLEAN
      /\ app' \in [step : {"idle", "opened", "written"}, kind : Kinds]
  BY <1>1, OverKeeps
<1>3. records \in Logs
  BY DEF StateInv, Shapes
<1>4. PICK L \in Nat : L = Len(records)
  BY <1>3 DEF Logs
<1>5. PICK e \in Nat : e = EpochStart(records) /\ e <= L
  BY <1>3, <1>4, EpochIs
<1>6. app # NoAppend /\ Counted = L - 1 /\ Counted' = L
  BY <1>1, <1>2, <1>4 DEF NoAppend, Counted
<1>7. Shapes'
  <2>1. astray' \in BOOLEAN
    BY <1>1 DEF StateInv, Shapes
  <2> QED BY <1>1, <1>2, <1>3, <2>1 DEF Shapes
<1>8. Folding'
  BY <1>1, <1>2, FoldingStays DEF StateInv
<1>9. Holding' /\ Reading'
  <2> SUFFICES ASSUME ~clearing', ~astray' PROVE Holding' /\ Reading'
    BY DEF Holding, Reading
  <2>1. ~astray /\ ~Gapped(st)
    BY <1>1
  <2>2. /\ L - 1 \in Nat
        /\ st.held /\ st.epoch = At(e)
        /\ Notes(st, records, L - 1, L - 1)
    <3>1. CASE app.kind = "clear"
      <4>1. records # << >> /\ e = L - 1 /\ st = Empty(At(L - 1))
        BY <1>1, <1>4, <1>5, <2>1, <3>1 DEF StateInv, Marking
      <4>2. Notes(Empty(At(e)), records, e, e)
        BY <1>3, <1>5, EmptyNotes
      <4> QED BY <4>1, <4>2 DEF Empty
    <3>2. CASE app.kind # "clear"
      <4>1. ~clearing
        BY <1>2, <3>2
      <4>2. st.epoch.some /\ \E g \in Nat : Notes(st, records, L - 1, g)
        BY <1>1, <1>6, <2>1, <4>1 DEF StateInv, Holding
      <4>3. PICK g \in Nat : Notes(st, records, L - 1, g)
        BY <4>2
      <4>4. L - 1 \in Nat
        BY <4>3 DEF Notes
      <4>5. g = L - 1
        BY <1>3, <2>1, <4>3, <4>4, NoGap
      <4>6. st.held /\ st.epoch = At(e)
        BY <1>5, <4>2, <4>3 DEF Notes, NoOffset
      <4> QED BY <4>3, <4>4, <4>5, <4>6
    <3> QED BY <3>1, <3>2
  <2>3. Notes(Push(records, st, L), records, L, L)
    <3>1. PICK n \in Nat : n = L - 1 /\ L = n + 1
      BY <2>2
    <3>2. Notes(st, records, n, n) /\ st.epoch = At(EpochStart(records))
      BY <1>5, <2>2, <3>1
    <3> QED BY <1>3, <3>1, <3>2, PushNotes
  <2>4. OrDefault(st) = st
    BY <2>2 DEF OrDefault
  <2>5. \E g \in Nat : Notes(st', records', Counted', g)
    BY <1>1, <1>4, <1>6, <2>3, <2>4
  <2>6. Walking(walk', records, EpochStart(records))
    <3>1. CASE app.kind = "clear"
      BY <1>2, <1>3, <3>1, WalkingFresh
    <3>2. CASE app.kind # "clear"
      BY <1>2, <2>1, <3>2 DEF StateInv, Reading
    <3> QED BY <3>1, <3>2
  <2> QED BY <1>1, <1>2, <2>5, <2>6 DEF Holding, Reading
<1> QED BY <1>2, <1>7, <1>8, <1>9 DEF StateInv

\* A streamed row is noted.
LEMMA NoteDeltaKeeps ==
    ASSUME StateInv, NoteDelta
    PROVE  StateInv'
<1>1. /\ ready /\ app = NoAppend
      /\ st' = Push(records, OrDefault(st), Delta)
      /\ records' = records /\ app' = app /\ fold' = fold /\ walk' = walk
      /\ ready' = ready /\ clearing' = clearing /\ astray' = astray
  BY DEF NoteDelta, CanAppend
<1>2. records \in Logs
  BY DEF StateInv, Shapes
<1>3. PICK L \in Nat : L = Len(records)
  BY <1>2 DEF Logs
<1>4. Counted = L /\ Counted' = L
  BY <1>1, <1>3 DEF Counted, NoAppend
<1>5. Holding'
  <2> SUFFICES ASSUME ~clearing, ~astray PROVE \E g \in Nat : Notes(st', records, L, g)
    BY <1>1, <1>4 DEF Holding, NoAppend
  <2>1. PICK g \in Nat : Notes(OrDefault(st), records, L, g)
    <3>1. CASE \E g \in Nat : Notes(st, records, L, g)
      BY <3>1 DEF OrDefault, Notes
    <3>2. CASE st = Absent /\ records = << >>
      <4>1. L = 0 /\ EpochStart(records) = 0
        BY <1>3, <3>2, EmptyLog
      <4>2. Notes(Empty(NoOffset), records, 0, 0)
        BY <1>2, <4>1, EmptyNotes
      <4>3. OrDefault(st) = Empty(NoOffset)
        BY <3>2 DEF OrDefault, Absent
      <4> QED BY <4>1, <4>2, <4>3
    <3> QED BY <1>1, <1>4, <3>1, <3>2 DEF StateInv, Holding
  <2> QED BY <1>1, <1>2, <2>1, PushNotes
<1>6. Shapes' /\ Reading'
  BY <1>1 DEF StateInv, Shapes, Reading
<1>7. Locked' /\ Marking'
  BY <1>1 DEF StateInv, Locked, Marking, NoAppend
<1>8. Folding'
  BY <1>1, FoldingStays DEF StateInv
<1> QED BY <1>5, <1>6, <1>7, <1>8 DEF StateInv

\* A clear drops the state.
LEMMA ResetKeeps ==
    ASSUME StateInv, ResetTrajectory
    PROVE  StateInv'
<1>1. /\ ready
      /\ ~clearing
      /\ ~walk.below
      /\ st' = Absent /\ clearing' = TRUE
      /\ records' = records
      /\ app' = app
      /\ fold' = fold
      /\ walk' = walk
      /\ ready' = ready
      /\ astray' = astray
  BY DEF ResetTrajectory
<1>2. Shapes'
  BY <1>1 DEF StateInv, Shapes
<1>3. app.kind # "clear"
  BY <1>1 DEF StateInv, Locked
<1>4. Locked' /\ Marking'
  BY <1>1, <1>3 DEF StateInv, Locked, Marking
<1>5. Folding'
  BY <1>1, FoldingStays DEF StateInv
<1>6. Holding' /\ Reading'
  BY <1>1 DEF Holding, Reading
<1> QED BY <1>2, <1>4, <1>5, <1>6 DEF StateInv

\* The marker's append takes the lock.
LEMMA AppendMarkerKeeps ==
    ASSUME StateInv, AppendMarker
    PROVE  StateInv'
<1>1. /\ clearing /\ ready /\ app = NoAppend
      /\ app' = [step |-> "opened", kind |-> "clear"]
      /\ st' = IF NeedsEpoch THEN Empty(At(Len(records))) ELSE st
      /\ astray' = ~NeedsEpoch
      /\ records' = records
      /\ fold' = fold
      /\ walk' = walk
      /\ ready' = ready
      /\ clearing' = clearing
  BY DEF AppendMarker, CanAppend, Open
<1>2. Shapes'
  BY <1>1 DEF StateInv, Shapes, Kinds
<1>3. Locked'
  BY <1>1 DEF StateInv, Locked
<1>4. Marking'
  BY <1>1 DEF Marking
<1>5. Folding'
  BY <1>1, FoldingStays DEF StateInv
<1>6. Holding' /\ Reading'
  BY <1>1 DEF Holding, Reading
<1> QED BY <1>2, <1>3, <1>4, <1>5, <1>6 DEF StateInv

\* A new process opens the log.
LEMMA RestartKeeps ==
    ASSUME StateInv, NewProcess
    PROVE  StateInv'
<1>1. /\ st' = Absent /\ fold' = [f \in Folders |-> NoFold] /\ walk' = WalkStart
      /\ ready' = FALSE /\ clearing' = FALSE /\ astray' = FALSE
      /\ records' = records
      /\ app' = NoAppend
  BY DEF NewProcess
<1>2. records \in Logs
  BY DEF StateInv, Shapes
<1>3. Reading'
  BY <1>1, <1>2, WalkingFresh DEF Reading
<1>4. Shapes' /\ Locked'
  BY <1>1, <1>2 DEF Shapes, Locked, NoAppend, Kinds
<1>5. Folding'
  BY <1>1 DEF Folding, Reads, NoFold, Absent
<1>6. Holding' /\ Marking'
  BY <1>1 DEF Holding, Marking, NoAppend
<1> QED BY <1>3, <1>4, <1>5, <1>6 DEF StateInv

\* The owner, or a reader, folds the log.
LEMMA FoldReadKeeps ==
    ASSUME StateInv, RestoreRead \/ FoldSession
    PROVE  StateInv'
<1>1. PICK f \in Folders : fold' = [fold EXCEPT ![f] = FoldEpoch(records)]
  BY DEF RestoreRead, FoldSession, Folders
<1>2. /\ records' = records /\ st' = st /\ app' = app /\ walk' = walk
      /\ ready' = ready /\ clearing' = clearing /\ astray' = astray
  BY DEF RestoreRead, FoldSession
<1>3. Folding' /\ fold' = [h \in Folders |-> fold'[h]]
  BY <1>1, <1>2, FoldingReads DEF StateInv
<1>4. Shapes' /\ Reading'
  BY <1>2, <1>3 DEF StateInv, Shapes, Reading
<1>5. Counted' = Counted
  BY <1>2 DEF Counted
<1>6. Locked' /\ Marking' /\ Holding'
  BY <1>2, <1>5 DEF StateInv, Locked, Marking, Holding
<1> QED BY <1>3, <1>4, <1>6 DEF StateInv

\* What was folded is installed: of the log as it is, or the process is astray.
LEMMA CommitKeeps ==
    ASSUME Budget \in Nat \ {0}, StateInv, NEW f \in Folders, fold[f].held, CommitRestore(f),
           records' = records, app' = app, walk' = walk, clearing' = clearing,
           ready' \in BOOLEAN, ready => ready'
    PROVE  StateInv'
<1>1. /\ st' = IF fold[f].durable = 0 THEN Absent ELSE fold[f]
      /\ fold' = [fold EXCEPT ![f] = NoFold]
      /\ astray' = (astray \/ Overtaken(f))
  BY DEF CommitRestore
<1>2. Folding' /\ fold' = [h \in Folders |-> fold'[h]]
  BY <1>1, FoldingDrops DEF StateInv
<1>3. astray' \in BOOLEAN
  BY <1>1 DEF StateInv, Shapes
<1>4. Shapes'
  BY <1>2, <1>3 DEF StateInv, Shapes
<1>5. Locked'
  BY DEF StateInv, Locked
<1>6. Reading'
  BY <1>1 DEF StateInv, Reading
<1>7. CASE astray'
  BY <1>2, <1>4, <1>5, <1>6, <1>7 DEF StateInv, Holding, Marking
<1>8. CASE ~astray'
  <2>1. app = NoAppend /\ fold[f].epoch.at + fold[f].durable = Len(records)
    BY <1>1, <1>8 DEF Overtaken
  <2>2. fold[f] = FoldEpoch(records)
    BY <2>1 DEF StateInv, Folding, Reads
  <2>3. records \in Logs /\ Counted' = Len(records)
    BY <2>1 DEF StateInv, Shapes, Counted, NoAppend
  <2>4. Marking'
    BY <2>1 DEF Marking, NoAppend
  <2>5. Holding'
    <3>1. CASE records = << >>
      <4>1. st' = Absent
        BY <1>1, <2>2, <2>3, <3>1, FoldReads
      <4> QED BY <2>1, <3>1, <4>1 DEF Holding
    <3>2. CASE records # << >>
      <4>1. /\ \E g \in Nat : Notes(FoldEpoch(records), records, Len(records), g)
            /\ FoldEpoch(records).durable # 0
        BY <2>3, <3>2, FoldMirrors
      <4>2. st' = FoldEpoch(records)
        BY <1>1, <2>2, <4>1
      <4> QED BY <2>1, <2>3, <4>1, <4>2 DEF Holding, NoAppend
    <3> QED BY <3>1, <3>2
  <2> QED BY <1>2, <1>4, <1>5, <1>6, <2>4, <2>5 DEF StateInv
<1> QED BY <1>7, <1>8

\* The owner, or a reader, installs what it folded.
LEMMA FoldCommitKeeps ==
    ASSUME Budget \in Nat \ {0}, StateInv, RestoreCommit \/ FoldCommit
    PROVE  StateInv'
<1>1. CASE RestoreCommit
  <2>1. /\ fold["owner"].held /\ CommitRestore("owner") /\ ready' = TRUE
        /\ records' = records /\ app' = app /\ walk' = walk /\ clearing' = clearing
    BY <1>1 DEF RestoreCommit
  <2>2. "owner" \in Folders
    BY DEF Folders
  <2> QED BY <2>1, <2>2, CommitKeeps
<1>2. CASE FoldCommit
  <2>1. /\ fold["reader"].held /\ CommitRestore("reader") /\ ready' = ready
        /\ records' = records /\ app' = app /\ walk' = walk /\ clearing' = clearing
    BY <1>2 DEF FoldCommit
  <2>2. "reader" \in Folders /\ ready \in BOOLEAN
    BY DEF Folders, StateInv, Shapes
  <2> QED BY <2>1, <2>2, CommitKeeps
<1> QED BY <1>1, <1>2

\* A step that only moves the walk, and leaves it a walk.
LEMMA WalkStepKeeps ==
    ASSUME StateInv, ~clearing,
           ~astray => Walking(walk', records, EpochStart(records)),
           records' = records, st' = st, app' = app, fold' = fold,
           ready' = ready, clearing' = clearing, astray' = astray
    PROVE  StateInv'
<1>1. Shapes' /\ Reading'
  BY DEF StateInv, Shapes, Reading
<1>2. Locked' /\ Marking'
  BY DEF StateInv, Locked, Marking
<1>3. Folding'
  BY FoldingStays DEF StateInv
<1>4. Counted' = Counted
  BY DEF Counted
<1>5. Holding'
  BY <1>4 DEF StateInv, Holding
<1> QED BY <1>1, <1>2, <1>3, <1>5 DEF StateInv

\* The window answers a page.
LEMMA ReadHeldKeeps ==
    ASSUME Limit \in Nat \ {0}, StateInv, ReadHeld
    PROVE  StateInv'
<1>1. PICK r : r = Page(st, walk.index)
  OBVIOUS
<1>2. /\ ~clearing /\ st.held /\ ~walk.below /\ walk.index >= st.base
      /\ walk' = IF r = << >> THEN [walk EXCEPT !.end = st.durable]
                 ELSE Deliver(walk, r, walk.index + Len(r), NoOffset)
      /\ records' = records /\ st' = st /\ app' = app /\ fold' = fold
      /\ ready' = ready /\ clearing' = clearing /\ astray' = astray
  BY <1>1 DEF ReadHeld, CanRead
<1> SUFFICES ASSUME ~astray PROVE Walking(walk', records, EpochStart(records))
  BY <1>2, WalkStepKeeps
<1>3. records \in Logs
  BY DEF StateInv, Shapes
<1>4. PICK e \in Nat : e = EpochStart(records)
  BY <1>3, EpochIs
<1>5. PICK L \in Nat : L = Len(records)
  BY <1>3 DEF Logs
<1>6. PICK n \in Nat : n = Counted /\ n <= L
  BY <1>2, <1>5, HeldNotes
<1>7. PICK g \in Nat : Notes(st, records, n, g)
  BY <1>2, <1>6, HeldNotes
<1>8. Walking(walk, records, e) /\ walk \in Walks
  BY <1>2, <1>4 DEF StateInv, Reading, Walking
<1>9. PICK x \in Nat : x = walk.index
  BY <1>8 DEF Walks
<1>10. PICK d \in Nat : d = walk.end
  BY <1>8 DEF Walks
<1>11. /\ st.base \in Nat /\ st.base <= x /\ st.durable \in Nat /\ st.durable = n - e
       /\ g <= n /\ \A p \in (g + 1)..n : records[p] = "wide"
  BY <1>2, <1>4, <1>7, <1>9 DEF Notes, States
<1>12. /\ r \in Seq(Nat) /\ \A i \in 1..Len(r) : r[i] = e + x + i
       /\ r # << >> => e + x + Len(r) <= g
       /\ r = << >> => g <= e + x
  <2>1. r = Page(st, x)
    BY <1>1, <1>9
  <2>2. st.base <= x /\ Limit \in Nat \ {0}
    BY <1>11
  <2> QED BY <1>3, <1>4, <1>7, <2>1, <2>2, PageIs
<1>13. /\ Passed(walk.got, records, e, e + x) /\ e + x <= L /\ e + d <= L
       /\ \A p \in (e + x + 1)..(e + d) : records[p] = "wide"
  BY <1>5, <1>8, <1>9, <1>10 DEF Walking
<1>14. CASE r = << >>
  <2>1. walk' = [walk EXCEPT !.end = st.durable]
    BY <1>2, <1>14
  <2>2. /\ walk' \in Walks
        /\ walk'.got = walk.got
        /\ walk'.index = x
        /\ walk'.end = st.durable
        /\ walk'.offset = walk.offset /\ ~walk'.below
    BY <1>2, <1>8, <1>9, <1>11, <2>1 DEF Walks
  <2>3. e + st.durable = n /\ e + st.durable <= L
    BY <1>6, <1>11
  <2>4. \A p \in (e + x + 1)..(e + st.durable) : records[p] = "wide"
    <3>1. \A p \in (e + x + 1)..n : p \in (g + 1)..n
      BY <1>12, <1>14
    <3> QED BY <1>11, <2>3, <3>1
  <2>5. walk.offset.some => walk.offset.at = e + x
    BY <1>8, <1>9 DEF Walking
  <2>6. Walking(walk', records, e)
    BY <1>5, <1>13, <2>2, <2>3, <2>4, <2>5 DEF Walking
  <2> QED BY <1>4, <2>6
<1>15. CASE r # << >>
  <2>1. PICK R \in Nat : R = Len(r)
    BY <1>12
  <2>2. Passed(walk.got \o r, records, e, e + x + R)
    <3>1. \A i \in 1..Len(r) : e + x < r[i] /\ r[i] <= e + x + R
      BY <1>12, <2>1
    <3>2. \A i, j \in 1..Len(r) : i < j => r[i] < r[j]
      BY <1>12, <2>1
    <3>3. ASSUME NEW p \in (e + x + 1)..(e + x + R) PROVE \E i \in 1..Len(r) : r[i] = p
      <4>1. p - e - x \in 1..R /\ e + x + (p - e - x) = p
        OBVIOUS
      <4> QED BY <1>12, <2>1, <4>1
    <3>4. e + x \in Nat /\ e + x + R \in Nat /\ e + x <= e + x + R /\ e <= e + x
      OBVIOUS
    <3> QED BY <1>12, <1>13, <3>1, <3>2, <3>3, <3>4, PassedOn
  <2>3. walk' = [walk EXCEPT !.got = walk.got \o r, !.index = x + R,
                             !.offset = NoOffset, !.below = FALSE]
    BY <1>2, <1>9, <1>15, <2>1 DEF Deliver
  <2>4. walk.got \o r \in Seq(Nat)
    BY <2>2 DEF Passed
  <2>5. NoOffset \in Offsets /\ ~NoOffset.some
    BY DEF NoOffset, Offsets
  <2>6. /\ walk'.got = walk.got \o r
        /\ walk'.index = x + R
        /\ walk'.end = d
        /\ walk'.offset = NoOffset /\ ~walk'.below
    BY <1>8, <1>10, <2>3 DEF Walks
  <2>7. walk' \in Walks
    <3>1. PICK v \in Seq(Nat) : v = walk.got \o r
      BY <2>4
    <3>2. PICK y \in Nat : y = x + R
      OBVIOUS
    <3>3. walk' = [walk EXCEPT !.got = v, !.index = y, !.offset = NoOffset, !.below = FALSE]
      BY <2>3, <3>1, <3>2
    <3> QED BY <1>8, <2>5, <3>3 DEF Walks
  <2>8. e + (x + R) = e + x + R /\ e + (x + R) <= L
    BY <1>6, <1>11, <1>12, <1>15, <2>1
  <2>9. \A p \in (e + (x + R) + 1)..(e + d) : records[p] = "wide"
    <3>1. \A p \in (e + (x + R) + 1)..(e + d) : p \in (e + x + 1)..(e + d)
      OBVIOUS
    <3> QED BY <1>13, <3>1
  <2>10. Walking(walk', records, e)
    BY <1>5, <1>13, <2>2, <2>5, <2>6, <2>7, <2>8, <2>9 DEF Walking
  <2> QED BY <1>4, <2>10
<1> QED BY <1>14, <1>15

\* The window no longer holds the position.
LEMMA ReadBelowKeeps ==
    ASSUME StateInv, ReadBelow
    PROVE  StateInv'
<1>1. /\ ~clearing /\ st.held /\ ~walk.below /\ walk.index < st.base
      /\ walk' = [walk EXCEPT !.below = TRUE, !.horizon = st.base, !.epoch = st.epoch]
      /\ records' = records /\ st' = st /\ app' = app /\ fold' = fold
      /\ ready' = ready /\ clearing' = clearing /\ astray' = astray
  BY DEF ReadBelow, CanRead
<1> SUFFICES ASSUME ~astray PROVE Walking(walk', records, EpochStart(records))
  BY <1>1, WalkStepKeeps
<1>2. records \in Logs
  BY DEF StateInv, Shapes
<1>3. PICK e \in Nat : e = EpochStart(records)
  BY <1>2, EpochIs
<1>4. PICK L \in Nat : L = Len(records)
  BY <1>2 DEF Logs
<1>5. PICK n \in Nat : n = Counted /\ n <= L
  BY <1>1, <1>4, HeldNotes
<1>6. PICK g \in Nat : Notes(st, records, n, g)
  BY <1>1, <1>5, HeldNotes
<1>7. PICK b \in Nat : b = st.base
  BY <1>6 DEF Notes, States
<1>8. Walking(walk, records, e) /\ walk \in Walks
  BY <1>1, <1>3 DEF StateInv, Reading, Walking
<1>9. walk.index \in Nat /\ walk.index < b
  BY <1>1, <1>7, <1>8 DEF Walks
<1>10. /\ e + b <= g /\ g <= n /\ st.durable = n - e
       /\ st.durable > 0 => st.epoch = At(e)
  BY <1>3, <1>6, <1>7 DEF Notes, Spans
<1>11. st.epoch = At(e) /\ e + b <= L
  BY <1>5, <1>9, <1>10
<1>12. At(e) \in Offsets
  BY DEF At, Offsets
<1>13. walk' = [walk EXCEPT !.below = TRUE, !.horizon = b, !.epoch = At(e)]
  BY <1>1, <1>7, <1>11
<1>14. /\ walk' \in Walks /\ walk'.got = walk.got /\ walk'.index = walk.index
       /\ walk'.end = walk.end /\ walk'.offset = walk.offset
       /\ walk'.horizon = b /\ walk'.epoch = At(e)
  BY <1>8, <1>12, <1>13 DEF Walks
<1>15. Walking(walk', records, e)
  BY <1>4, <1>8, <1>9, <1>11, <1>14 DEF Walking
<1> QED BY <1>3, <1>15

\* The log answers it.
LEMMA ReadLogKeeps ==
    ASSUME Limit \in Nat \ {0}, StateInv, ReadLog
    PROVE  StateInv'
<1>1. PICK g : g = LogPage(records, walk)
  OBVIOUS
<1>2. /\ walk.below /\ walk' = Deliver(walk, g.rows, g.index, g.offset)
      /\ records' = records /\ st' = st /\ app' = app /\ fold' = fold
      /\ ready' = ready /\ clearing' = clearing /\ astray' = astray
  BY <1>1 DEF ReadLog
<1>3. ~clearing
  BY <1>2 DEF StateInv, Locked
<1> SUFFICES ASSUME ~astray PROVE Walking(walk', records, EpochStart(records))
  BY <1>2, <1>3, WalkStepKeeps
<1>4. records \in Logs
  BY DEF StateInv, Shapes
<1>5. PICK e \in Nat : e = EpochStart(records)
  BY <1>4, EpochIs
<1>6. Walking(walk, records, e) /\ walk \in Walks
  BY <1>3, <1>5 DEF StateInv, Reading, Walking
<1>7. PICK x \in Nat : x = walk.index
  BY <1>6 DEF Walks
<1>8. PICK m \in Nat : Answers(g, records, e, x, m)
  BY <1>1, <1>2, <1>4, <1>6, <1>7, LogPageIs
<1>9. PICK r : r = g.rows
  OBVIOUS
<1>10. PICK d \in Nat : d = walk.end
  BY <1>6 DEF Walks
<1>11. /\ Passed(walk.got, records, e, e + x) /\ e + d <= Len(records)
       /\ \A p \in (e + x + 1)..(e + d) : records[p] = "wide"
  BY <1>6, <1>7, <1>10 DEF Walking
<1>12. Passed(walk.got \o r, records, e, e + m)
  <2>1. e + x \in Nat /\ e + m \in Nat /\ e + x <= e + m /\ e <= e + x
    BY <1>8 DEF Answers
  <2> QED BY <1>8, <1>9, <1>11, <2>1, PassedOn DEF Answers
<1>13. walk' = [walk EXCEPT !.got = walk.got \o r, !.index = m,
                            !.offset = At(e + m), !.below = FALSE]
  BY <1>2, <1>8, <1>9 DEF Deliver, Answers
<1>14. walk.got \o r \in Seq(Nat) /\ At(e + m) \in Offsets /\ At(e + m).at = e + m
  BY <1>12 DEF Passed, At, Offsets
<1>15. /\ walk' \in Walks /\ walk'.got = walk.got \o r /\ walk'.index = m
       /\ walk'.end = d /\ walk'.offset = At(e + m) /\ ~walk'.below
  BY <1>6, <1>10, <1>13, <1>14 DEF Walks
<1>16. \A p \in (e + m + 1)..(e + d) : records[p] = "wide"
  <2>1. x <= m
    BY <1>8 DEF Answers
  <2>2. \A p \in (e + m + 1)..(e + d) : p \in (e + x + 1)..(e + d)
    BY <2>1
  <2> QED BY <1>11, <2>2
<1>17. Walking(walk', records, e)
  BY <1>8, <1>11, <1>12, <1>14, <1>15, <1>16 DEF Walking, Answers
<1> QED BY <1>5, <1>17

\* Every step.
LEMMA StateStep ==
    ASSUME StateInv, [StateNext]_stateVars
    PROVE  StateInv'
<1>1. Budget \in Nat \ {0} /\ Limit \in Nat \ {0}
  BY StateAssumption
<1>2. CASE UNCHANGED stateVars
  <2>1. /\ records' = records
        /\ st' = st
        /\ app' = app
        /\ fold' = fold
        /\ walk' = walk
        /\ ready' = ready /\ clearing' = clearing /\ astray' = astray
    BY <1>2 DEF stateVars
  <2>2. Counted' = Counted
    BY <2>1 DEF Counted
  <2>3. Folding'
    BY <2>1, FoldingStays DEF StateInv
  <2> QED BY <2>1, <2>2, <2>3 DEF StateInv, Shapes, Locked, Holding, Marking, Reading
<1>3. CASE StateNext
  BY <1>1, <1>3, AppendDurableKeeps, BackendWroteKeeps, BackendFailedKeeps,
     BackendUnsyncedKeeps, NoteDurableKeeps, NoteDeltaKeeps, ResetKeeps, AppendMarkerKeeps,
     RestartKeeps, FoldReadKeeps, FoldCommitKeeps, ReadHeldKeeps, ReadBelowKeeps, ReadLogKeeps
     DEF StateNext
<1> QED BY <1>2, <1>3

\* The invariant of every behaviour.
THEOREM StateInvariance == StateSpec => []StateInv
<1>1. StateInv /\ [StateNext]_stateVars => StateInv'
  BY StateStep
<1> QED BY <1>1, InitHolds, PTL DEF StateSpec

\* Until a fold is overtaken, a record follows a gap, a marker is preceded or
\* not written, or a failed append leaves its record, the log state a process
\* holds between appends is its log's, whatever it has trimmed, folded, cleared
\* and restored; and after the next clear or process it is again
\* (append_locked, commit_restore, trim).
THEOREM StateMirrors == StateSpec => []StateMirrorsLog
<1>1. StateInv => StateMirrorsLog
  <2> SUFFICES ASSUME StateInv, Quiet, st.held, ~astray
               PROVE  LET rows == Durables(st.window)
                          start == EpochStart(records)
                      IN /\ st.durable > 0 => st.epoch = At(start)
                         /\ st.durable = Len(records) - start
                         /\ st.base + Len(rows) <= st.durable
                         /\ \A i \in 1..Len(rows) : rows[i] = start + st.base + i
                         /\ \A p \in start + st.base + Len(rows) + 1..Len(records) :
                                records[p] = "wide"
    BY DEF StateMirrorsLog
  <2>1. ~clearing /\ app = NoAppend
    BY DEF Quiet
  <2>2. Counted = Len(records)
    BY <2>1 DEF Counted, NoAppend
  <2>3. PICK g \in Nat : Notes(st, records, Len(records), g)
    BY <2>1, <2>2, HeldNotes
  <2>4. PICK e \in Nat : e = EpochStart(records)
    BY EpochIs DEF StateInv, Shapes
  <2>5. PICK b \in Nat : b = st.base
    BY <2>3 DEF Notes, States
  <2>6. PICK L \in Nat : L = Len(records)
    BY DEF StateInv, Shapes, Logs
  <2>7. /\ st.durable > 0 => st.epoch = At(e)
        /\ st.durable = L - e /\ Spans(st.window, e + b, g)
        /\ g <= L /\ \A p \in (g + 1)..L : records[p] = "wide"
    BY <2>3, <2>4, <2>5, <2>6 DEF Notes
  <2>8. PICK r : r = Durables(st.window)
    OBVIOUS
  <2>9. r \in Seq(Nat) /\ Len(r) = g - (e + b) /\ \A i \in 1..Len(r) : r[i] = (e + b) + i
    BY <2>7, <2>8, SpansDurables
  <2>10. b + Len(r) <= L - e /\ e + b + Len(r) + 1 = g + 1
    BY <2>7, <2>9
  <2>11. \A p \in e + b + Len(r) + 1..L : records[p] = "wide"
    BY <2>7, <2>10
  <2> QED BY <2>4, <2>5, <2>6, <2>7, <2>8, <2>9, <2>10, <2>11
<1> QED BY <1>1, StateInvariance, PTL

\* Until then, too, a reader's walk passes over no record that a read can hold
\* and repeats none, while appends trim the window under it and processes end
\* and start on any log (trajectory_page, read_page).
THEOREM WalkComplete == StateSpec => []WalkLosesNothing
<1>1. StateInv => WalkLosesNothing
  <2> SUFFICES ASSUME StateInv, ~clearing, ~astray PROVE WalkLosesNothing
    BY DEF WalkLosesNothing
  <2>1. PICK e \in Nat : e = EpochStart(records)
    BY EpochIs DEF StateInv, Shapes
  <2>2. Walking(walk, records, e) /\ walk \in Walks
    BY <2>1 DEF StateInv, Reading, Walking
  <2>3. PICK x \in Nat : x = walk.index
    BY <2>2 DEF Walks
  <2>4. PICK got \in Seq(Nat) : got = walk.got
    BY <2>2 DEF Walks
  <2>5. PICK G \in Nat : G = Len(got)
    OBVIOUS
  <2>6. PICK d \in Nat : d = walk.end
    BY <2>2 DEF Walks
  <2>7. /\ \A i \in 1..G : got[i] \in Nat /\ e < got[i] /\ got[i] <= e + x
        /\ \A i, j \in 1..G : i < j => got[i] < got[j]
        /\ \A p \in (e + 1)..(e + x) : records[p] = "wide" \/ \E i \in 1..G : got[i] = p
        /\ \A p \in (e + x + 1)..(e + d) : records[p] = "wide"
    BY <2>2, <2>3, <2>4, <2>5, <2>6 DEF Walking, Passed
  <2>8. PICK S : S = {got[i] : i \in 1..Len(got)}
    OBVIOUS
  <2>9. PICK y \in Nat : y = IF e + x <= e + d THEN e + d ELSE e + x
    OBVIOUS
  <2>10. PICK U : U = {d + e} \cup S
    OBVIOUS
  <2>11. U \in SUBSET (0..y) /\ U # {}
    <3>1. d + e \in 0..y
      BY <2>9
    <3>2. ASSUME NEW q \in S PROVE q \in 0..y
      <4>1. q \in Nat /\ q <= e + x
        BY <2>5, <2>7, <2>8
      <4> QED BY <2>9, <4>1
    <3> QED BY <2>10, <3>1, <3>2
  <2>12. PICK m \in 0..y : m = Max(U)
    <3>1. Max(U) \in U
      BY <2>11, MaxIs
    <3> QED BY <2>11, <3>1
  <2>13. ASSUME NEW i \in 1..(Len(got) - 1) PROVE got[i] < got[i + 1]
    <3>1. i \in 1..G /\ i + 1 \in 1..G /\ i < i + 1
      BY <2>5
    <3> QED BY <2>7, <3>1
  <2>14. ASSUME NEW p \in (e + 1)..m PROVE records[p] = "wide" \/ p \in S
    <3>1. p \in (e + 1)..(e + x) \/ p \in (e + x + 1)..(e + d)
      BY <2>9, <2>12
    <3> QED BY <2>5, <2>7, <2>8, <3>1
  <2> QED BY <2>1, <2>4, <2>6, <2>8, <2>10, <2>12, <2>13, <2>14, SMTT(30) DEF WalkLosesNothing
<1> QED BY <1>1, StateInvariance, PTL

=============================================================================
