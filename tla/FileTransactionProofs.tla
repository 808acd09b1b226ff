------------------------ MODULE FileTransactionProofs ------------------------
(***************************************************************************)
(* What the write journal guarantees for every number of writes, contents, *)
(* ceiling, changes by other programs and crashes.                         *)
(*                                                                         *)
(* None of the properties is inductive.  NothingLost at a write needs      *)
(* that the capture is current (RecordedBefore), that its block was stored *)
(* before its record (Progress) and that nobody else is part way (LockHeld);*)
(* at a restore it needs that the bytes judged are still there (Verdict)   *)
(* and are named by the record (Records).  VerdictSound needs a second     *)
(* invariant on top of it (Sides), stated where it is proved.              *)
(***************************************************************************)
EXTENDS FileTransaction, TLAPS

\* Whoever is part way through the target holds its lock.
LockHeld ==
    /\ \A op \in Ops : pc[op] \in InFlight => lock = op
    /\ reader # None => lock = Reader

\* What a write has done so far: its argument and its capture are there, the
\* blocks its record will name are stored before the record is.
Progress ==
    \A op \in Ops :
        /\ pc[op] \in InFlight => captured[op] # None /\ arg[op] # None
        /\ pc[op] \in {"backed", "stored", "prepared"}
             => captured[op].block_ref \in blocks \cup {None}
        /\ pc[op] = "stored" => arg[op] \in blocks
        /\ pc[op] \in {"captured", "backed", "stored"} => prepared[op] = None
        /\ pc[op] \in {"prepared", "wrote"} => prepared[op] # None
        /\ pc[op] = "prepared" => prepared[op].before = captured[op]
        /\ pc[op] = "wrote" => held[op]

\* A record on disk names stored blocks, the write's own bytes on one side.
RecordSound(op) ==
    /\ prepared[op] # None =>
         /\ pc[op] # "new"
         /\ arg[op] \in blocks
         /\ prepared[op].expected_after.block_ref = arg[op]
         /\ prepared[op].before.block_ref \in blocks \cup {None}
         /\ file # None /\ file.bytes = arg[op] => held[op]
    /\ committed[op] # None =>
         /\ prepared[op] # None
         /\ committed[op].block_ref = arg[op]

Records == \A op \in Ops : RecordSound(op)

\* The verdict a recovery acts on: the target held the write's bytes, and
\* still does unless another program changed it.
Verdict ==
    reader # None =>
        /\ prepared[reader.op] # None
        /\ held[reader.op]
        /\ ~raced => file # None /\ file.bytes = arg[reader.op]
        /\ (reader.step = "put" /\ prepared[reader.op].before.present)
             => prepared[reader.op].before.block_ref # None

\* The inductive invariant.
IInv ==
    /\ TypeOK
    /\ LockHeld
    /\ Progress
    /\ Records
    /\ Verdict
    /\ RecordedBefore
    /\ NothingLost
    /\ CommitHeld

-----------------------------------------------------------------------------
(* Facts about images and files. *)

\* write_file leaves a file with exactly the bytes it was given.
LEMMA WrittenFacts ==
    ASSUME NEW f \in File \cup {None}, NEW b \in Bytes, NEW g \in Written(f, b)
    PROVE  g \in File /\ g # None /\ g.bytes = b
BY ConstantsAssumption DEF Written, File

\* A capture is an image, and keeps the bytes unless they are over the ceiling.
LEMMA CaptureFacts ==
    ASSUME NEW f \in File \cup {None}
    PROVE  /\ Capture(f) \in ImageRecord /\ Capture(f) # None
           /\ (f # None /\ ~(Size[f.bytes] > Ceiling)) =>
                 Capture(f).block_ref = f.bytes
<1>1. CASE f = None
  <2>1. AbsentImage \in ImageRecord
    BY DEF AbsentImage, ImageRecord
  <2>2. Capture(f) = AbsentImage
    BY <1>1 DEF Capture
  <2> QED BY <1>1, <2>1, <2>2, ConstantsAssumption
<1>2. CASE f # None
  <2>1. f \in File /\ f.bytes \in Bytes
    BY <1>2 DEF File
  <2>2. Size[f.bytes] \in Nat
    BY <2>1, ConstantsAssumption
  <2>3. ASSUME NEW ref \in Bytes \cup {None} PROVE ImageOf(f, ref) \in ImageRecord
    BY <2>1, <2>2 DEF ImageOf, ImageRecord, File
  <2>4. CASE Size[f.bytes] > Ceiling
    BY <1>2, <2>3, <2>4, ConstantsAssumption DEF Capture
  <2>5. CASE ~(Size[f.bytes] > Ceiling)
    BY <1>2, <2>1, <2>3, <2>5, ConstantsAssumption DEF Capture, ImageOf
  <2> QED BY <2>4, <2>5
<1> QED BY <1>1, <1>2

\* The image a write expects to leave names its own bytes.
LEMMA ExpectedFacts ==
    ASSUME NEW before \in ImageRecord, NEW b \in Contents
    PROVE  /\ ExpectedAfter(before, b) \in ImageRecord
           /\ ExpectedAfter(before, b).block_ref = b
BY ConstantsAssumption DEF ExpectedAfter, ImageRecord, Bytes

\* The image a commit records names the write's bytes.
LEMMA CommitFacts ==
    ASSUME TypeOK, NEW op \in Ops, prepared[op] # None
    PROVE  /\ CommitImage(op) \in ImageRecord /\ CommitImage(op) # None
           /\ CommitImage(op).block_ref = prepared[op].expected_after.block_ref
<1>1. prepared[op] \in PreparedRecord
  BY DEF TypeOK
<1>2. prepared[op].expected_after \in ImageRecord
  BY <1>1 DEF PreparedRecord
<1>3. CASE file = None
  BY <1>2, <1>3, ConstantsAssumption DEF CommitImage
<1>4. CASE file # None
  <2>1. file \in File
    BY <1>4 DEF TypeOK
  <2>2. ImageOf(file, prepared[op].expected_after.block_ref) \in ImageRecord
    BY <1>2, <2>1, ConstantsAssumption DEF ImageOf, ImageRecord, File
  <2> QED BY <1>4, <2>2, ConstantsAssumption DEF CommitImage, ImageOf
<1> QED BY <1>3, <1>4

\* A verdict of Applied is about bytes: the target holds the write's own.
LEMMA AppliedFacts ==
    ASSUME TypeOK, Records, NEW op \in Ops, prepared[op] # None,
           Classify(op, file) = "Applied"
    PROVE  file # None /\ file.bytes = arg[op] /\ held[op]
<1>1. file # None /\ Holds(Left(op), file)
  BY DEF Classify
<1>2. Left(op).block_ref = arg[op]
  BY DEF Left, Records, RecordSound
<1> QED BY <1>1, <1>2 DEF Holds, Records, RecordSound

-----------------------------------------------------------------------------
(* History: what an overwrite adds to lost. *)

\* Before a write touches the target, the bytes there are kept or over the
\* ceiling, unless another program put them there.
LEMMA WriterKeeps ==
    ASSUME IInv, NEW op \in Ops, pc[op] = "prepared", Overwrite
    PROVE  NothingLost' /\ lost' \subseteq Bytes
<1>1. CASE file = None \/ raced \/ Kept(file.bytes)
  BY <1>1 DEF Overwrite, IInv, NothingLost, TypeOK
<1>2. CASE ~(file = None \/ raced \/ Kept(file.bytes))
  <2>1. file \in File /\ file.bytes \in Bytes
    BY <1>2 DEF IInv, TypeOK, File
  <2>2. captured[op] = Capture(file)
    BY <1>2 DEF IInv, RecordedBefore, InFlight
  <2>3. prepared[op] # None /\ prepared[op].before = captured[op]
    BY DEF IInv, Progress
  <2>4. captured[op].block_ref \in blocks \cup {None}
    BY DEF IInv, Progress
  <2>5. Size[file.bytes] > Ceiling
    <3> SUFFICES ASSUME ~(Size[file.bytes] > Ceiling) PROVE FALSE
      OBVIOUS
    <3>1. captured[op].block_ref = file.bytes
      BY <2>1, <2>2, CaptureFacts, ConstantsAssumption
    <3>2. file.bytes \in blocks
      BY <2>1, <2>4, <3>1, ConstantsAssumption
    <3> QED BY <1>2, <2>3, <3>1, <3>2 DEF Kept
  <2>6. lost' = lost \cup {file.bytes}
    BY <1>2 DEF Overwrite
  <2> QED BY <2>1, <2>5, <2>6 DEF IInv, NothingLost, TypeOK
<1> QED BY <1>1, <1>2

\* Before a restore touches the target, the bytes there are the write's own,
\* which its record keeps.
LEMMA RestorerKeeps ==
    ASSUME IInv, reader # None, Overwrite
    PROVE  lost' = lost
<1>1. reader.op \in Ops
  BY DEF IInv, TypeOK, Judged
<1>2. CASE raced
  BY <1>2 DEF Overwrite
<1>3. CASE ~raced
  <2>1. file.bytes = arg[reader.op] /\ prepared[reader.op] # None
    BY <1>3 DEF IInv, Verdict
  <2>2. Kept(file.bytes)
    BY <1>1, <2>1 DEF IInv, Records, RecordSound, Kept
  <2> QED BY <2>2 DEF Overwrite
<1> QED BY <1>2, <1>3

-----------------------------------------------------------------------------
(* One lemma per action, one step per part of the invariant. *)

\* The history of who touched the target stays in its type.
LEMMA TouchedType ==
    ASSUME TypeOK, NEW S, Touched(S)
    PROVE  foreign' \in [Ops -> BOOLEAN]
BY DEF TypeOK, Touched

\* held only grows, and counts every prepared write whose bytes are there.
LEMMA HoldingFacts ==
    ASSUME TypeOK, NEW f, Holding(f)
    PROVE  /\ held' \in [Ops -> BOOLEAN]
           /\ \A o \in Ops : held[o] => held'[o]
           /\ \A o \in Ops : (prepared[o] # None /\ f # None /\ f.bytes = arg[o])
                                => held'[o]
BY DEF TypeOK, Holding

\* A write under way has its argument and its capture.
LEMMA InFlightFacts ==
    ASSUME IInv, NEW op \in Ops, pc[op] \in InFlight
    PROVE  /\ arg[op] \in Contents
           /\ captured[op] \in ImageRecord
           /\ captured[op].block_ref \in Bytes \cup {None}
<1>1. arg[op] \in Contents /\ captured[op] \in ImageRecord
  BY DEF IInv, TypeOK, Progress
<1> QED BY <1>1 DEF ImageRecord

\* A write takes the lock and captures the target.
LEMMA BeginInductive ==
    ASSUME IInv, NEW op \in Ops, NEW b \in Contents, Begin(op, b)
    PROVE  IInv'
<1> USE ConstantsAssumption
<1>a. Capture(file) \in ImageRecord /\ Capture(file) # None
  BY CaptureFacts DEF IInv, TypeOK
<1>1. TypeOK'
  BY <1>a DEF IInv, TypeOK, Begin, InFlight, Bytes
<1>2. LockHeld'
  BY <1>a DEF IInv, TypeOK, LockHeld, Begin, InFlight
<1>3. Progress'
  BY <1>a DEF IInv, TypeOK, Progress, LockHeld, Records, RecordSound, Begin,
     InFlight, Bytes
<1>4. Records'
  BY <1>a DEF IInv, TypeOK, Records, RecordSound, Progress, Begin
<1>5. Verdict'
  BY <1>a DEF IInv, TypeOK, Verdict, LockHeld, Records, RecordSound, Begin
<1>6. RecordedBefore'
  BY <1>a DEF IInv, TypeOK, RecordedBefore, LockHeld, Begin, InFlight
<1>7. NothingLost'
  BY <1>a DEF IInv, TypeOK, NothingLost, Begin
<1>8. CommitHeld'
  BY <1>a DEF IInv, TypeOK, CommitHeld, Records, RecordSound, Progress, Begin
<1> QED BY <1>1, <1>2, <1>3, <1>4, <1>5, <1>6, <1>7, <1>8 DEF IInv

\* The earlier bytes go to the block store.
LEMMA StoreBeforeInductive ==
    ASSUME IInv, NEW op \in Ops, StoreBefore(op)
    PROVE  IInv'
<1> USE ConstantsAssumption
<1>a. /\ arg[op] \in Contents
      /\ captured[op] \in ImageRecord
      /\ captured[op].block_ref \in Bytes \cup {None}
  BY InFlightFacts DEF StoreBefore, InFlight
<1>1. TypeOK'
  BY <1>a DEF IInv, TypeOK, StoreBefore, history, InFlight, Bytes
<1>2. LockHeld'
  BY <1>a DEF IInv, TypeOK, LockHeld, StoreBefore, history, InFlight
<1>3. Progress'
  BY <1>a DEF IInv, TypeOK, Progress, LockHeld, Records, RecordSound,
     StoreBefore, history, InFlight
<1>4. Records'
  BY <1>a DEF IInv, TypeOK, Records, RecordSound, Progress, StoreBefore,
     history
<1>5. Verdict'
  BY <1>a DEF IInv, TypeOK, Verdict, LockHeld, Records, RecordSound,
     StoreBefore, history
<1>6. RecordedBefore'
  BY <1>a DEF IInv, TypeOK, RecordedBefore, LockHeld, StoreBefore, history,
     InFlight
<1>7. NothingLost'
  BY <1>a DEF IInv, TypeOK, NothingLost, StoreBefore, history
<1>8. CommitHeld'
  BY <1>a DEF IInv, TypeOK, CommitHeld, Records, RecordSound, Progress,
     StoreBefore, history
<1> QED BY <1>1, <1>2, <1>3, <1>4, <1>5, <1>6, <1>7, <1>8 DEF IInv

\* The new bytes go to the block store.
LEMMA StoreAfterInductive ==
    ASSUME IInv, NEW op \in Ops, StoreAfter(op)
    PROVE  IInv'
<1> USE ConstantsAssumption
<1>a. /\ arg[op] \in Contents
      /\ captured[op] \in ImageRecord
      /\ captured[op].block_ref \in Bytes \cup {None}
  BY InFlightFacts DEF StoreAfter, InFlight
<1>1. TypeOK'
  BY <1>a DEF IInv, TypeOK, StoreAfter, history, InFlight, Bytes
<1>2. LockHeld'
  BY <1>a DEF IInv, TypeOK, LockHeld, StoreAfter, history, InFlight
<1>3. Progress'
  BY <1>a DEF IInv, TypeOK, Progress, LockHeld, Records, RecordSound,
     StoreAfter, history, InFlight
<1>4. Records'
  BY <1>a DEF IInv, TypeOK, Records, RecordSound, Progress, StoreAfter,
     history
<1>5. Verdict'
  BY <1>a DEF IInv, TypeOK, Verdict, LockHeld, Records, RecordSound,
     StoreAfter, history
<1>6. RecordedBefore'
  BY <1>a DEF IInv, TypeOK, RecordedBefore, LockHeld, StoreAfter, history,
     InFlight
<1>7. NothingLost'
  BY <1>a DEF IInv, TypeOK, NothingLost, StoreAfter, history
<1>8. CommitHeld'
  BY <1>a DEF IInv, TypeOK, CommitHeld, Records, RecordSound, Progress,
     StoreAfter, history
<1> QED BY <1>1, <1>2, <1>3, <1>4, <1>5, <1>6, <1>7, <1>8 DEF IInv

\* The prepared record is published.
LEMMA PrepareInductive ==
    ASSUME IInv, NEW op \in Ops, Prepare(op)
    PROVE  IInv'
<1> USE ConstantsAssumption
<1>a. /\ arg[op] \in Contents
      /\ captured[op] \in ImageRecord
      /\ captured[op].block_ref \in Bytes \cup {None}
  BY InFlightFacts DEF Prepare, InFlight
<1> DEFINE after == ExpectedAfter(captured[op], arg[op])
           record == [before |-> captured[op], expected_after |-> after]
<1>b. after \in ImageRecord /\ after.block_ref = arg[op]
  BY <1>a, ExpectedFacts
<1>c. /\ record \in PreparedRecord /\ record # None
      /\ record.before = captured[op] /\ record.expected_after = after
  BY <1>a, <1>b DEF PreparedRecord
<1>d. prepared' = [prepared EXCEPT ![op] = record]
  BY DEF Prepare
<1> HIDE DEF after, record
<1>1. TypeOK'
  BY <1>a, <1>b, <1>c, <1>d DEF IInv, TypeOK, Prepare, InFlight, Bytes
<1>2. LockHeld'
  BY <1>a, <1>b, <1>c, <1>d DEF IInv, TypeOK, LockHeld, Prepare, InFlight
<1>3. Progress'
  BY <1>a, <1>b, <1>c, <1>d DEF IInv, TypeOK, Progress, LockHeld, Records,
     RecordSound, Prepare, InFlight
<1>4. Records'
  <2> SUFFICES ASSUME NEW o \in Ops PROVE RecordSound(o)'
    BY DEF Records
  <2>1. CASE o = op
    <3>1. committed[o] = None
      BY <2>1 DEF IInv, Records, RecordSound, Progress, Prepare
    <3>2. /\ prepared'[o] = record /\ pc'[o] = "prepared"
          /\ held'[o] = (file # None /\ file.bytes = arg[op])
      BY <1>d, <2>1 DEF IInv, TypeOK, Prepare
    <3>3. arg[op] \in blocks /\ captured[op].block_ref \in blocks \cup {None}
      BY DEF IInv, Progress, Prepare
    <3> QED BY <1>b, <1>c, <2>1, <3>1, <3>2, <3>3 DEF RecordSound, Prepare
  <2>2. CASE o # op
    <3>1. prepared'[o] = prepared[o] /\ pc'[o] = pc[o] /\ held'[o] = held[o]
      BY <1>d, <2>2 DEF IInv, TypeOK, Prepare
    <3> QED BY <3>1 DEF IInv, Records, RecordSound, Prepare
  <2> QED BY <2>1, <2>2
<1>5. Verdict'
  BY <1>a, <1>b, <1>c, <1>d DEF IInv, TypeOK, Verdict, LockHeld, Records,
     RecordSound, Prepare
<1>6. RecordedBefore'
  BY <1>a, <1>b, <1>c, <1>d DEF IInv, TypeOK, RecordedBefore, LockHeld,
     Prepare, InFlight
<1>7. NothingLost'
  BY <1>a, <1>b, <1>c, <1>d DEF IInv, TypeOK, NothingLost, Prepare
<1>8. CommitHeld'
  BY <1>a, <1>b, <1>c, <1>d DEF IInv, TypeOK, CommitHeld, Records,
     RecordSound, Progress, Prepare
<1> QED BY <1>1, <1>2, <1>3, <1>4, <1>5, <1>6, <1>7, <1>8 DEF IInv

\* A write is refused before the target is touched.
LEMMA RefuseInductive ==
    ASSUME IInv, NEW op \in Ops, Refuse(op)
    PROVE  IInv'
<1> USE ConstantsAssumption
<1>1. TypeOK'
  BY DEF IInv, TypeOK, Refuse, Release, InFlight, Bytes
<1>2. LockHeld'
  BY DEF IInv, TypeOK, LockHeld, Refuse, Release, InFlight
<1>3. Progress'
  BY DEF IInv, TypeOK, Progress, LockHeld, Records, RecordSound, Refuse,
     Release, InFlight
<1>4. Records'
  BY DEF IInv, TypeOK, Records, RecordSound, Progress, Refuse, Release
<1>5. Verdict'
  BY DEF IInv, TypeOK, Verdict, LockHeld, Records, RecordSound, Refuse,
     Release
<1>6. RecordedBefore'
  BY DEF IInv, TypeOK, RecordedBefore, LockHeld, Refuse, Release, InFlight
<1>7. NothingLost'
  BY DEF IInv, TypeOK, NothingLost, Refuse, Release
<1>8. CommitHeld'
  BY DEF IInv, TypeOK, CommitHeld, Records, RecordSound, Progress, Refuse,
     Release
<1> QED BY <1>1, <1>2, <1>3, <1>4, <1>5, <1>6, <1>7, <1>8 DEF IInv

\* What every step that changes the target keeps: its history variables are
\* typed, a record's bytes are counted when the target holds them, and no
\* commit loses its support.
LEMMA TargetKept ==
    ASSUME IInv, NEW S, Touched(S), Holding(file'),
           UNCHANGED <<arg, blocks, prepared, committed>>,
           \A o \in Ops : pc'[o] = "new" => pc[o] = "new"
    PROVE  /\ foreign' \in [Ops -> BOOLEAN] /\ held' \in [Ops -> BOOLEAN]
           /\ \A o \in Ops : held[o] => held'[o]
           /\ Records' /\ CommitHeld'
<1>1. foreign' \in [Ops -> BOOLEAN]
  BY TouchedType DEF IInv
<1>2. /\ held' \in [Ops -> BOOLEAN]
      /\ \A o \in Ops : held[o] => held'[o]
      /\ \A o \in Ops :
           (prepared[o] # None /\ file' # None /\ file'.bytes = arg[o]) => held'[o]
  BY HoldingFacts DEF IInv
<1>3. Records'
  BY <1>2 DEF IInv, Records, RecordSound
<1>4. CommitHeld'
  BY <1>2 DEF IInv, CommitHeld
<1> QED BY <1>1, <1>2, <1>3, <1>4

\* A write that stops part way, of the writer or of a recovery, keeps what
\* every step that changes the target keeps, and loses nothing.
LEMMA TearKept ==
    ASSUME IInv, NEW S, Tear(S), Writing \cup Putting # {},
           UNCHANGED <<arg, blocks, prepared, committed>>,
           \A o \in Ops : pc'[o] = "new" => pc[o] = "new"
    PROVE  /\ file' \in File
           /\ foreign' \in [Ops -> BOOLEAN] /\ held' \in [Ops -> BOOLEAN]
           /\ landed' \in [Ops -> {"no", "torn", "whole"}]
           /\ lost' \subseteq Bytes
           /\ \A o \in Ops : held[o] => held'[o]
           /\ Records' /\ CommitHeld' /\ NothingLost'
<1>1. file' \in File
  BY WrittenFacts DEF IInv, TypeOK, Tear, Bytes
<1>2. landed' \in [Ops -> {"no", "torn", "whole"}]
  BY DEF IInv, TypeOK, Tear
<1>3. lost' \subseteq Bytes /\ NothingLost'
  <2>1. Overwrite
    BY DEF Tear
  <2>2. CASE Writing # {}
    BY <2>1, <2>2, WriterKeeps DEF Writing
  <2>3. CASE Putting # {}
    <3>1. reader # None
      <4>1. PICK o \in Ops : reader = [step |-> "put", op |-> o]
        BY <2>3 DEF Putting
      <4>2. [step |-> "put", op |-> o] \in Judged
        BY DEF Judged
      <4> QED BY <4>1, <4>2, ConstantsAssumption
    <3>2. lost' = lost
      BY <2>1, <3>1, RestorerKeeps
    <3> QED BY <3>2 DEF IInv, TypeOK, NothingLost
  <2> QED BY <2>2, <2>3
<1>4. Touched(S) /\ Holding(file')
  BY DEF Tear
<1>5. /\ foreign' \in [Ops -> BOOLEAN] /\ held' \in [Ops -> BOOLEAN]
      /\ \A o \in Ops : held[o] => held'[o]
      /\ Records' /\ CommitHeld'
  BY <1>4, TargetKept
<1> QED BY <1>1, <1>2, <1>3, <1>5

\* While a write is under way no recovery is, and no other write is.
LEMMA OneHolder ==
    ASSUME IInv, NEW op \in Ops, pc[op] \in InFlight
    PROVE  /\ reader = None /\ lock = op
           /\ \A o \in Ops : pc[o] \in InFlight => o = op
BY ConstantsAssumption DEF IInv, LockHeld

\* While a recovery holds the lock no write is under way.
LEMMA NoWriter ==
    ASSUME IInv, reader # None \/ lock = None
    PROVE  \A o \in Ops : pc[o] \notin InFlight
BY ConstantsAssumption DEF IInv, LockHeld

\* The write lands whole.
LEMMA WriteInductive ==
    ASSUME IInv, NEW op \in Ops, Write(op)
    PROVE  IInv'
<1> USE ConstantsAssumption
<1>a. /\ arg[op] \in Contents
      /\ captured[op] \in ImageRecord
      /\ captured[op].block_ref \in Bytes \cup {None}
  BY InFlightFacts DEF Write, InFlight
<1>o. /\ reader = None /\ lock = op
      /\ \A o \in Ops : pc[o] \in InFlight => o = op
  BY OneHolder DEF Write, InFlight
<1>b. file' \in File /\ file' # None /\ file'.bytes = arg[op]
  BY <1>a, WrittenFacts DEF IInv, TypeOK, Write, Bytes
<1>c. /\ foreign' \in [Ops -> BOOLEAN] /\ held' \in [Ops -> BOOLEAN]
      /\ \A o \in Ops : held[o] => held'[o]
      /\ Records' /\ CommitHeld'
  BY TargetKept DEF IInv, TypeOK, Write
<1>d. NothingLost' /\ lost' \subseteq Bytes
  BY WriterKeeps DEF Write
<1>e. prepared[op] # None
  BY DEF IInv, Progress, Write
<1>1. TypeOK'
  BY <1>a, <1>b, <1>c, <1>o, <1>d DEF IInv, TypeOK, Write, InFlight, Bytes
<1>2. LockHeld'
  BY <1>a, <1>b, <1>c, <1>o, <1>d DEF IInv, TypeOK, LockHeld, Write, InFlight
<1>3. Progress'
  BY <1>b, <1>c, <1>e, <1>o, HoldingFacts
     DEF IInv, TypeOK, Progress, Write, InFlight
<1>4. Records'
  BY <1>c
<1>5. Verdict'
  BY <1>a, <1>b, <1>c, <1>o, <1>d DEF IInv, TypeOK, Verdict, LockHeld,
     Records, RecordSound, Write
<1>6. RecordedBefore'
  BY <1>a, <1>b, <1>c, <1>o, <1>d DEF IInv, TypeOK, RecordedBefore, LockHeld,
     Write, InFlight
<1>7. NothingLost'
  BY <1>d
<1>8. CommitHeld'
  BY <1>c
<1> QED BY <1>1, <1>2, <1>3, <1>4, <1>5, <1>6, <1>7, <1>8 DEF IInv

\* The write fails, before or after it truncated the target.
LEMMA WriteFailsInductive ==
    ASSUME IInv, NEW op \in Ops, WriteFails(op)
    PROVE  IInv'
<1> USE ConstantsAssumption
<1>o. /\ reader = None /\ lock = op
      /\ \A o \in Ops : pc[o] \in InFlight => o = op
  BY OneHolder DEF WriteFails, InFlight
<1>t. /\ file' \in File \cup {None}
      /\ foreign' \in [Ops -> BOOLEAN] /\ held' \in [Ops -> BOOLEAN]
      /\ landed' \in [Ops -> {"no", "torn", "whole"}]
      /\ lost' \subseteq Bytes
      /\ \A o \in Ops : held[o] => held'[o]
      /\ Records' /\ CommitHeld' /\ NothingLost'
  <2>1. CASE UNCHANGED <<file, landed, held, foreign, lost>>
    BY <2>1 DEF IInv, TypeOK, Records, RecordSound, CommitHeld, NothingLost,
           WriteFails, InFlight
  <2>2. CASE ~UNCHANGED <<file, landed, held, foreign, lost>>
    <3>1. Writing \cup Putting # {}
      BY <2>2 DEF WriteFails, Writing, Putting
    <3>2. /\ UNCHANGED <<arg, blocks, prepared, committed>>
          /\ \A o \in Ops : pc'[o] = "new" => pc[o] = "new"
      BY DEF IInv, TypeOK, WriteFails, InFlight
    <3>3. PICK S : Tear(S)
      BY <2>2 DEF WriteFails
    <3> QED BY <3>1, <3>2, <3>3, TearKept
  <2> QED BY <2>1, <2>2
<1>1. TypeOK'
  BY <1>o, <1>t DEF IInv, TypeOK, WriteFails, Release, InFlight, Bytes
<1>2. LockHeld'
  BY <1>o, <1>t DEF IInv, TypeOK, LockHeld, WriteFails, Release, InFlight
<1>3. Progress'
  BY <1>o, <1>t DEF IInv, TypeOK, Progress, LockHeld, Records, RecordSound,
     WriteFails, Release, InFlight
<1>4. Records'
  BY <1>t
<1>5. Verdict'
  BY <1>o, <1>t DEF IInv, TypeOK, Verdict, LockHeld, Records, RecordSound,
     WriteFails, Release
<1>6. RecordedBefore'
  BY <1>o, <1>t DEF IInv, TypeOK, RecordedBefore, LockHeld, WriteFails,
     Release, InFlight
<1>7. NothingLost'
  BY <1>t
<1>8. CommitHeld'
  BY <1>t
<1> QED BY <1>1, <1>2, <1>3, <1>4, <1>5, <1>6, <1>7, <1>8 DEF IInv

\* The write is committed.
LEMMA CommitInductive ==
    ASSUME IInv, NEW op \in Ops, Commit(op)
    PROVE  IInv'
<1> USE ConstantsAssumption
<1>o. /\ reader = None /\ lock = op
      /\ \A o \in Ops : pc[o] \in InFlight => o = op
  BY OneHolder DEF Commit, InFlight
<1>b. prepared[op] # None /\ held[op]
  BY DEF IInv, Progress, Commit
<1>c. /\ CommitImage(op) \in ImageRecord /\ CommitImage(op) # None
      /\ CommitImage(op).block_ref = arg[op]
  BY <1>b, CommitFacts DEF IInv, Records, RecordSound
<1>d. committed' \in [Ops -> ImageRecord \cup {None}]
  BY <1>c DEF IInv, TypeOK, Commit
<1>1. TypeOK'
  BY <1>d DEF IInv, TypeOK, Commit, Release, InFlight
<1>2. LockHeld'
  BY <1>o, <1>b, <1>c DEF IInv, TypeOK, LockHeld, Commit, Release, InFlight
<1>3. Progress'
  BY <1>o, <1>b, <1>c DEF IInv, TypeOK, Progress, LockHeld, Records,
     RecordSound, Commit, Release, InFlight
<1>4. Records'
  BY <1>o, <1>b, <1>c DEF IInv, TypeOK, Records, RecordSound, Progress,
     Commit, Release
<1>5. Verdict'
  BY <1>o, <1>b, <1>c DEF IInv, TypeOK, Verdict, LockHeld, Records,
     RecordSound, Commit, Release
<1>6. RecordedBefore'
  BY <1>o, <1>b, <1>c DEF IInv, TypeOK, RecordedBefore, LockHeld, Commit,
     Release, InFlight
<1>7. NothingLost'
  BY <1>o, <1>b, <1>c DEF IInv, TypeOK, NothingLost, Commit, Release
<1>8. CommitHeld'
  BY <1>o, <1>b, <1>c DEF IInv, TypeOK, CommitHeld, Records, RecordSound,
     Progress, Commit, Release
<1> QED BY <1>1, <1>2, <1>3, <1>4, <1>5, <1>6, <1>7, <1>8 DEF IInv

\* A recovery takes the lock and finds the write applied.
LEMMA JudgeInductive ==
    ASSUME IInv, NEW op \in Ops, NEW step \in {"settle", "put"},
           step = "put" /\ prepared[op].before.present
               => prepared[op].before.block_ref # None,
           Judge(step, op)
    PROVE  IInv'
<1> USE ConstantsAssumption
<1>b. file # None /\ file.bytes = arg[op] /\ held[op]
  BY AppliedFacts DEF IInv, Judge
<1>c. /\ [step |-> step, op |-> op] \in Judged
      /\ [step |-> step, op |-> op] # None
  BY DEF Judged
<1>d. reader'.op = op /\ reader'.step = step
  BY DEF Judge
<1>n. \A o \in Ops : pc[o] \notin InFlight
  BY NoWriter DEF Judge
<1>1. TypeOK'
  BY <1>b, <1>c, <1>d, <1>n DEF IInv, TypeOK, Judge, InFlight, Bytes
<1>2. LockHeld'
  BY <1>b, <1>c, <1>d, <1>n DEF IInv, TypeOK, LockHeld, Judge, InFlight
<1>3. Progress'
  BY <1>b, <1>c, <1>d, <1>n DEF IInv, TypeOK, Progress, LockHeld, Records,
     RecordSound, Judge, InFlight
<1>4. Records'
  BY <1>b, <1>c, <1>d, <1>n DEF IInv, TypeOK, Records, RecordSound, Progress,
     Judge
<1>5. Verdict'
  BY <1>b, <1>c, <1>d, <1>n DEF IInv, TypeOK, Verdict, LockHeld, Records,
     RecordSound, Judge
<1>6. RecordedBefore'
  BY <1>b, <1>c, <1>d, <1>n DEF IInv, TypeOK, RecordedBefore, LockHeld, Judge,
     InFlight
<1>7. NothingLost'
  BY <1>b, <1>c, <1>d, <1>n DEF IInv, TypeOK, NothingLost, Judge
<1>8. CommitHeld'
  BY <1>b, <1>c, <1>d, <1>n DEF IInv, TypeOK, CommitHeld, Records,
     RecordSound, Progress, Judge
<1> QED BY <1>1, <1>2, <1>3, <1>4, <1>5, <1>6, <1>7, <1>8 DEF IInv

\* A recovery commits a write that landed without a commit.
LEMMA SettleInductive ==
    ASSUME IInv, NEW op \in Ops, Settle(op)
    PROVE  IInv'
<1> USE ConstantsAssumption
<1>r. /\ reader # None /\ reader.op = op /\ lock = Reader
      /\ \A o \in Ops : pc[o] \notin InFlight
      /\ prepared[op] # None
  <2>1. [step |-> "settle", op |-> op] \in Judged
    BY DEF Judged
  <2>2. reader # None /\ reader.op = op
    BY <2>1 DEF Settle
  <2> QED BY <2>2, NoWriter DEF IInv, LockHeld, Verdict
<1>b. prepared[op] # None /\ held[op]
  BY <1>r DEF IInv, Verdict
<1>c. /\ CommitImage(op) \in ImageRecord /\ CommitImage(op) # None
      /\ CommitImage(op).block_ref = arg[op]
  BY <1>b, CommitFacts DEF IInv, Records, RecordSound
<1>d. committed' \in [Ops -> ImageRecord \cup {None}]
  BY <1>c DEF IInv, TypeOK, Settle
<1>1. TypeOK'
  BY <1>d DEF IInv, TypeOK, Settle, Release
<1>2. LockHeld'
  BY <1>r, <1>b, <1>c DEF IInv, TypeOK, LockHeld, Settle, Release, InFlight
<1>3. Progress'
  BY <1>r, <1>b, <1>c DEF IInv, TypeOK, Progress, LockHeld, Records,
     RecordSound, Settle, Release, InFlight
<1>4. Records'
  BY <1>r, <1>b, <1>c DEF IInv, TypeOK, Records, RecordSound, Progress,
     Settle, Release
<1>5. Verdict'
  BY <1>r, <1>b, <1>c DEF IInv, TypeOK, Verdict, LockHeld, Records,
     RecordSound, Settle, Release
<1>6. RecordedBefore'
  BY <1>r, <1>b, <1>c DEF IInv, TypeOK, RecordedBefore, LockHeld, Settle,
     Release, InFlight
<1>7. NothingLost'
  BY <1>r, <1>b, <1>c DEF IInv, TypeOK, NothingLost, Settle, Release
<1>8. CommitHeld'
  BY <1>r, <1>b, <1>c DEF IInv, TypeOK, CommitHeld, Records, RecordSound,
     Progress, Settle, Release
<1> QED BY <1>1, <1>2, <1>3, <1>4, <1>5, <1>6, <1>7, <1>8 DEF IInv

\* A restore puts the earlier bytes back.
LEMMA PutEarlierInductive ==
    ASSUME IInv, NEW op \in Ops, PutEarlier(op)
    PROVE  IInv'
<1> USE ConstantsAssumption
<1>r. /\ reader # None /\ reader.op = op /\ lock = Reader
      /\ \A o \in Ops : pc[o] \notin InFlight
      /\ prepared[op] # None
  <2>1. [step |-> "put", op |-> op] \in Judged
    BY DEF Judged
  <2>2. reader # None /\ reader.op = op
    BY <2>1 DEF PutEarlier
  <2> QED BY <2>2, NoWriter DEF IInv, LockHeld, Verdict
<1>b. file' \in File \cup {None}
  <2>1. CASE prepared[op].before.present
    <3>1. prepared[op].before.block_ref # None
      BY <1>r, <2>1 DEF IInv, Verdict, PutEarlier
    <3>2. prepared[op].before.block_ref \in Bytes
      BY <1>r, <3>1 DEF IInv, Records, RecordSound, TypeOK
    <3> QED BY <2>1, <3>2, WrittenFacts DEF IInv, TypeOK, PutEarlier
  <2>2. CASE ~prepared[op].before.present
    BY <2>2 DEF PutEarlier
  <2> QED BY <2>1, <2>2
<1>c. /\ foreign' \in [Ops -> BOOLEAN] /\ held' \in [Ops -> BOOLEAN]
      /\ \A o \in Ops : held[o] => held'[o]
      /\ Records' /\ CommitHeld'
  BY TargetKept DEF PutEarlier
<1>d. lost' = lost
  BY <1>r, RestorerKeeps DEF PutEarlier
<1>1. TypeOK'
  BY <1>r, <1>b, <1>c, <1>d DEF IInv, TypeOK, PutEarlier, Release, InFlight,
     Bytes
<1>2. LockHeld'
  BY <1>r, <1>b, <1>c, <1>d DEF IInv, TypeOK, LockHeld, PutEarlier, Release,
     InFlight
<1>3. Progress'
  BY <1>r, <1>b, <1>c, <1>d DEF IInv, TypeOK, Progress, LockHeld, Records,
     RecordSound, PutEarlier, Release, InFlight
<1>4. Records'
  BY <1>c
<1>5. Verdict'
  BY <1>r, <1>b, <1>c, <1>d DEF IInv, TypeOK, Verdict, LockHeld, Records,
     RecordSound, PutEarlier, Release
<1>6. RecordedBefore'
  BY <1>r, <1>b, <1>c, <1>d DEF IInv, TypeOK, RecordedBefore, LockHeld,
     PutEarlier, Release, InFlight
<1>7. NothingLost'
  BY <1>r, <1>b, <1>c, <1>d DEF IInv, TypeOK, NothingLost, PutEarlier, Release
<1>8. CommitHeld'
  BY <1>c
<1> QED BY <1>1, <1>2, <1>3, <1>4, <1>5, <1>6, <1>7, <1>8 DEF IInv

\* A restore fails, before or after it truncated the target.
LEMMA PutFailsInductive ==
    ASSUME IInv, NEW op \in Ops, PutFails(op)
    PROVE  IInv'
<1> USE ConstantsAssumption
<1>r. /\ reader # None /\ reader.op = op /\ lock = Reader
      /\ \A o \in Ops : pc[o] \notin InFlight
      /\ prepared[op] # None
  <2>1. [step |-> "put", op |-> op] \in Judged
    BY DEF Judged
  <2>2. reader # None /\ reader.op = op
    BY <2>1 DEF PutFails
  <2> QED BY <2>2, NoWriter DEF IInv, LockHeld, Verdict
<1>t. /\ file' \in File \cup {None}
      /\ foreign' \in [Ops -> BOOLEAN] /\ held' \in [Ops -> BOOLEAN]
      /\ landed' \in [Ops -> {"no", "torn", "whole"}]
      /\ lost' \subseteq Bytes
      /\ \A o \in Ops : held[o] => held'[o]
      /\ Records' /\ CommitHeld' /\ NothingLost'
  <2>1. CASE UNCHANGED <<file, landed, held, foreign, lost>>
    BY <2>1 DEF IInv, TypeOK, Records, RecordSound, CommitHeld, NothingLost,
           PutFails, InFlight
  <2>2. CASE ~UNCHANGED <<file, landed, held, foreign, lost>>
    <3>1. Writing \cup Putting # {}
      BY <2>2 DEF PutFails, Writing, Putting
    <3>2. /\ UNCHANGED <<arg, blocks, prepared, committed>>
          /\ \A o \in Ops : pc'[o] = "new" => pc[o] = "new"
      BY DEF IInv, TypeOK, PutFails, InFlight
    <3>3. PICK S : Tear(S)
      BY <2>2 DEF PutFails
    <3> QED BY <3>1, <3>2, <3>3, TearKept
  <2> QED BY <2>1, <2>2
<1>1. TypeOK'
  BY <1>r, <1>t DEF IInv, TypeOK, PutFails, Release, InFlight, Bytes
<1>2. LockHeld'
  BY <1>r, <1>t DEF IInv, TypeOK, LockHeld, PutFails, Release, InFlight
<1>3. Progress'
  BY <1>r, <1>t DEF IInv, TypeOK, Progress, LockHeld, Records, RecordSound,
     PutFails, Release, InFlight
<1>4. Records'
  BY <1>t
<1>5. Verdict'
  BY <1>r, <1>t DEF IInv, TypeOK, Verdict, LockHeld, Records, RecordSound,
     PutFails, Release
<1>6. RecordedBefore'
  BY <1>r, <1>t DEF IInv, TypeOK, RecordedBefore, LockHeld, PutFails, Release,
     InFlight
<1>7. NothingLost'
  BY <1>t
<1>8. CommitHeld'
  BY <1>t
<1> QED BY <1>1, <1>2, <1>3, <1>4, <1>5, <1>6, <1>7, <1>8 DEF IInv

\* The earlier bytes are copied beside the target.
LEMMA KeepEarlierInductive ==
    ASSUME IInv, NEW op \in Ops, KeepEarlier(op)
    PROVE  IInv'
<1> USE ConstantsAssumption
<1>b. prepared[op].before.block_ref \in Bytes
  BY DEF IInv, Records, RecordSound, TypeOK, KeepEarlier
<1>1. TypeOK'
  BY <1>b DEF IInv, TypeOK, KeepEarlier, history, InFlight, Bytes
<1>2. LockHeld'
  BY <1>b DEF IInv, TypeOK, LockHeld, KeepEarlier, history, InFlight
<1>3. Progress'
  BY <1>b DEF IInv, TypeOK, Progress, LockHeld, Records, RecordSound,
     KeepEarlier, history, InFlight
<1>4. Records'
  BY <1>b DEF IInv, TypeOK, Records, RecordSound, Progress, KeepEarlier,
     history
<1>5. Verdict'
  BY <1>b DEF IInv, TypeOK, Verdict, LockHeld, Records, RecordSound,
     KeepEarlier, history
<1>6. RecordedBefore'
  BY <1>b DEF IInv, TypeOK, RecordedBefore, LockHeld, KeepEarlier, history,
     InFlight
<1>7. NothingLost'
  BY <1>b DEF IInv, TypeOK, NothingLost, KeepEarlier, history
<1>8. CommitHeld'
  BY <1>b DEF IInv, TypeOK, CommitHeld, Records, RecordSound, Progress,
     KeepEarlier, history
<1> QED BY <1>1, <1>2, <1>3, <1>4, <1>5, <1>6, <1>7, <1>8 DEF IInv

\* Another program changes the target.
LEMMA ExternalInductive ==
    ASSUME IInv, NEW f \in ExternalFiles, External(f)
    PROVE  IInv'
<1> USE ConstantsAssumption
<1>r. reader # None => reader.op \in Ops
  BY DEF IInv, TypeOK, Judged
<1>b. file' \in File \cup {None} /\ exts' \in 0..MaxExt
  BY DEF IInv, TypeOK, External, ExternalFiles
<1>c. /\ foreign' \in [Ops -> BOOLEAN] /\ held' \in [Ops -> BOOLEAN]
      /\ \A o \in Ops : held[o] => held'[o]
      /\ Records' /\ CommitHeld'
  BY TargetKept DEF External
<1>n. lock = None => \A o \in Ops : pc[o] \notin InFlight
  BY NoWriter
<1>1. TypeOK'
  BY <1>b, <1>c, <1>n, <1>r DEF IInv, TypeOK, External, InFlight, Bytes
<1>2. LockHeld'
  BY <1>b, <1>c, <1>n, <1>r DEF IInv, TypeOK, LockHeld, External, InFlight
<1>3. Progress'
  BY <1>b, <1>c, <1>n, <1>r DEF IInv, TypeOK, Progress, LockHeld, Records,
     RecordSound, External, InFlight
<1>4. Records'
  BY <1>c
<1>5. Verdict'
  BY <1>b, <1>c, <1>n, <1>r DEF IInv, TypeOK, Verdict, LockHeld, Records,
     RecordSound, External
<1>6. RecordedBefore'
  BY <1>b, <1>c, <1>n, <1>r DEF IInv, TypeOK, RecordedBefore, LockHeld,
     External, InFlight
<1>7. NothingLost'
  BY <1>b, <1>c, <1>n, <1>r DEF IInv, TypeOK, NothingLost, External
<1>8. CommitHeld'
  BY <1>c
<1> QED BY <1>1, <1>2, <1>3, <1>4, <1>5, <1>6, <1>7, <1>8 DEF IInv

\* The process dies.
LEMMA CrashInductive ==
    ASSUME IInv, Crash
    PROVE  IInv'
<1> USE ConstantsAssumption
<1>t. /\ file' \in File \cup {None}
      /\ foreign' \in [Ops -> BOOLEAN] /\ held' \in [Ops -> BOOLEAN]
      /\ landed' \in [Ops -> {"no", "torn", "whole"}]
      /\ lost' \subseteq Bytes
      /\ \A o \in Ops : held[o] => held'[o]
      /\ Records' /\ CommitHeld' /\ NothingLost'
  <2>1. CASE UNCHANGED <<file, landed, held, foreign, lost>>
    BY <2>1 DEF IInv, TypeOK, Records, RecordSound, CommitHeld, NothingLost,
           Crash, InFlight
  <2>2. CASE ~UNCHANGED <<file, landed, held, foreign, lost>>
    <3>1. Writing \cup Putting # {}
      BY <2>2 DEF Crash, Writing, Putting
    <3>2. /\ UNCHANGED <<arg, blocks, prepared, committed>>
          /\ \A o \in Ops : pc'[o] = "new" => pc[o] = "new"
      BY DEF IInv, TypeOK, Crash, InFlight
    <3>3. PICK S : Tear(S)
      BY <2>2 DEF Crash
    <3> QED BY <3>1, <3>2, <3>3, TearKept
  <2> QED BY <2>1, <2>2
<1>c. crashes' \in 0..MaxCrash
  BY DEF IInv, TypeOK, Crash
<1>1. TypeOK'
  BY <1>t, <1>c DEF IInv, TypeOK, Crash, Release, InFlight, Bytes
<1>2. LockHeld'
  BY <1>t, <1>c DEF IInv, TypeOK, LockHeld, Crash, Release, InFlight
<1>3. Progress'
  BY <1>t, <1>c DEF IInv, TypeOK, Progress, LockHeld, Records, RecordSound,
     Crash, Release, InFlight
<1>4. Records'
  BY <1>t
<1>5. Verdict'
  BY <1>t, <1>c DEF IInv, TypeOK, Verdict, LockHeld, Records, RecordSound,
     Crash, Release
<1>6. RecordedBefore'
  BY <1>t, <1>c DEF IInv, TypeOK, RecordedBefore, LockHeld, Crash, Release,
     InFlight
<1>7. NothingLost'
  BY <1>t
<1>8. CommitHeld'
  BY <1>t
<1> QED BY <1>1, <1>2, <1>3, <1>4, <1>5, <1>6, <1>7, <1>8 DEF IInv

\* Nothing changes.
LEMMA StutterInductive ==
    ASSUME IInv, UNCHANGED vars
    PROVE  IInv'
<1> USE ConstantsAssumption
<1>1. TypeOK'
  BY DEF IInv, TypeOK, vars, InFlight, Bytes
<1>2. LockHeld'
  BY DEF IInv, TypeOK, LockHeld, vars, InFlight
<1>3. Progress'
  BY DEF IInv, TypeOK, Progress, LockHeld, Records, RecordSound, vars,
     InFlight
<1>4. Records'
  BY DEF IInv, TypeOK, Records, RecordSound, Progress, vars
<1>5. Verdict'
  BY DEF IInv, TypeOK, Verdict, LockHeld, Records, RecordSound, vars
<1>6. RecordedBefore'
  BY DEF IInv, TypeOK, RecordedBefore, LockHeld, vars, InFlight
<1>7. NothingLost'
  BY DEF IInv, TypeOK, NothingLost, vars
<1>8. CommitHeld'
  BY DEF IInv, TypeOK, CommitHeld, Records, RecordSound, Progress, vars
<1> QED BY <1>1, <1>2, <1>3, <1>4, <1>5, <1>6, <1>7, <1>8 DEF IInv

\* The invariant holds initially.
LEMMA InitInvariant == Init => IInv
<1> SUFFICES ASSUME Init PROVE IInv
  OBVIOUS
<1> USE ConstantsAssumption
<1>1. TypeOK
  <2>1. /\ file \in File \cup {None} /\ lock \in Ops \cup {None, Reader}
        /\ reader \in Judged \cup {None}
        /\ raced \in BOOLEAN /\ lost \subseteq Bytes /\ blocks \subseteq Bytes
    BY DEF Init
  <2>2. /\ pc \in [Ops -> InFlight \cup {"new", "refused", "failed", "done",
                                         "dead"}]
        /\ landed \in [Ops -> {"no", "torn", "whole"}]
        /\ held \in [Ops -> BOOLEAN] /\ foreign \in [Ops -> BOOLEAN]
    BY DEF Init
  <2>3. /\ arg \in [Ops -> Contents \cup {None}]
        /\ captured \in [Ops -> ImageRecord \cup {None}]
        /\ prepared \in [Ops -> PreparedRecord \cup {None}]
        /\ committed \in [Ops -> ImageRecord \cup {None}]
        /\ copies \in [Ops -> Bytes \cup {None}]
    BY DEF Init
  <2>4. MaxExt \in Nat /\ MaxCrash \in Nat
    OBVIOUS
  <2>5. exts \in 0..MaxExt /\ crashes \in 0..MaxCrash
    BY <2>4 DEF Init
  <2> QED BY <2>1, <2>2, <2>3, <2>5 DEF TypeOK
<1>2. LockHeld /\ Progress /\ Records /\ Verdict
  BY DEF Init, LockHeld, Progress, Records, RecordSound, Verdict, InFlight
<1>3. RecordedBefore /\ NothingLost /\ CommitHeld
  BY DEF Init, RecordedBefore, NothingLost, CommitHeld, InFlight
<1> QED BY <1>1, <1>2, <1>3 DEF IInv

\* Every step keeps the invariant.
LEMMA StepInvariant == IInv /\ [Next]_vars => IInv'
<1> SUFFICES ASSUME IInv, [Next]_vars PROVE IInv'
  OBVIOUS
<1>1. ASSUME NEW op \in Ops, NEW b \in Contents, Begin(op, b) PROVE IInv'
  BY <1>1, BeginInductive
<1>2. ASSUME NEW op \in Ops, WriterStep(op) PROVE IInv'
  BY <1>2, StoreBeforeInductive, StoreAfterInductive, PrepareInductive,
     RefuseInductive, WriteInductive, WriteFailsInductive, CommitInductive
     DEF WriterStep
<1>3. ASSUME NEW op \in Ops,
             JudgeUncommitted(op) \/ RestoreApplied(op) \/ KeepEarlier(op)
      PROVE  IInv'
  BY <1>3, JudgeInductive, KeepEarlierInductive
     DEF JudgeUncommitted, RestoreApplied
<1>4. ASSUME NEW op \in Ops, ReaderStep(op) PROVE IInv'
  BY <1>4, SettleInductive, PutEarlierInductive, PutFailsInductive DEF ReaderStep
<1>5. ASSUME NEW f \in ExternalFiles, External(f) PROVE IInv'
  BY <1>5, ExternalInductive
<1>6. CASE Crash
  BY <1>6, CrashInductive
<1>7. CASE UNCHANGED vars
  BY <1>7, StutterInductive
<1> QED BY <1>1, <1>2, <1>3, <1>4, <1>5, <1>6, <1>7 DEF Next

\* IInv is an invariant of the journal, whatever the number of writes, the
\* ceiling, and how often other programs and crashes interfere.
THEOREM Invariance == Spec => []IInv
BY InitInvariant, StepInvariant, PTL DEF Spec

\* No write, restore, failed write or crash overwrites bytes under the lock
\* that no record keeps, other than bytes over the backup ceiling.
THEOREM BytesKept == Spec => []NothingLost
<1>1. IInv => NothingLost
  BY DEF IInv
<1> QED BY <1>1, Invariance, PTL

\* What a write captured is what it is about to overwrite.
THEOREM CaptureCurrent == Spec => []RecordedBefore
<1>1. IInv => RecordedBefore
  BY DEF IInv
<1> QED BY <1>1, Invariance, PTL

\* A committed record, of the write or of a recovery, states something that
\* happened.
THEOREM CommitTrue == Spec => []CommitHeld
<1>1. IInv => CommitHeld
  BY DEF IInv
<1> QED BY <1>1, Invariance, PTL

-----------------------------------------------------------------------------
(* The verdict of a later recovery.  It is about records and bytes that are  *)
(* compared long after they were written, so it needs an invariant of its    *)
(* own: on which side of each write the target is, as long as nothing else   *)
(* touched it.  That invariant is inductive relative to IInv.                *)

\* What the target holds, as the records of one write tell it.
Side(op) ==
    /\ pc[op] \in {"new", "captured", "backed", "stored", "prepared"}
         => landed[op] = "no"
    /\ pc[op] = "wrote" => landed[op] = "whole"
    /\ pc[op] \in {"prepared", "wrote"} => committed[op] = None
    /\ (pc[op] \in {"captured", "backed", "stored", "prepared"} /\ ~foreign[op])
         => captured[op] = Capture(file)
    /\ (prepared[op] # None /\ ~foreign[op]) =>
         /\ prepared[op].expected_after
              = ExpectedAfter(prepared[op].before, arg[op])
         /\ landed[op] = "no" =>
              /\ prepared[op].before = Capture(file)
              /\ committed[op] # None =>
                   /\ file # None /\ file.bytes = arg[op]
                   /\ committed[op] = ImageOf(file, arg[op])
         /\ landed[op] = "whole" =>
              /\ file # None /\ file.bytes = arg[op]
              /\ ~MetadataChanged(Left(op), file)

\* A recovery that holds the lock still sees what it judged, unless something
\* else touched the target.
StillJudged ==
    (reader # None /\ ~foreign[reader.op]) =>
        file # None /\ file.bytes = arg[reader.op]

Sides == StillJudged /\ \A op \in Ops : Side(op)

\* The invariant of the verdict.
VInv == IInv /\ Sides

\* The records and the disk give the right verdict.
LEMMA VerdictFromSides == VInv => VerdictSound
<1> SUFFICES ASSUME VInv, NEW op \in Ops, prepared[op] # None, ~foreign[op]
             PROVE  /\ landed[op] = "whole" => Classify(op, file) = "Applied"
                    /\ landed[op] = "no" =>
                         Classify(op, file) =
                           IF file # None /\ file.bytes = arg[op] THEN "Applied"
                           ELSE IF prepared[op].before.present
                                   /\ prepared[op].before.block_ref = None
                                THEN "Unverified" ELSE "NotApplied"
  BY DEF VerdictSound
<1> USE ConstantsAssumption
<1>1. /\ Side(op) /\ RecordSound(op)
      /\ file \in File \cup {None} /\ arg[op] \in Contents \cup {None}
  BY DEF VInv, IInv, Sides, TypeOK, Records
<1>2. Left(op).block_ref = arg[op] /\ arg[op] # None
  BY <1>1 DEF RecordSound, Left, VInv, IInv, TypeOK
<1>3. CASE landed[op] = "whole"
  <2>1. /\ file # None /\ file.bytes = arg[op]
        /\ ~MetadataChanged(Left(op), file)
    BY <1>1, <1>3 DEF Side
  <2> QED BY <1>2, <1>3, <2>1 DEF Classify, Holds
<1>4. CASE landed[op] = "no"
  <2>1. prepared[op].before = Capture(file)
    BY <1>1, <1>4 DEF Side
  <2>2. CASE file = None
    <3>1. prepared[op].before.present = FALSE
      BY <2>1, <2>2 DEF Capture, AbsentImage
    <3> QED BY <1>4, <2>2, <3>1 DEF Classify
  <2>3. CASE file # None
    <3> DEFINE before == prepared[op].before
    <3>1. /\ before.present = TRUE /\ before.bytes = Size[file.bytes]
          /\ before.mode = file.mode /\ before.inode = file.inode
          /\ before.block_ref \in {None, file.bytes}
      BY <2>1, <2>3 DEF Capture, ImageOf
    <3>2. CASE file.bytes = arg[op]
      <4>1. Left(op).mode = file.mode /\ Left(op).inode = file.inode
        <5>1. CASE committed[op] # None
          BY <1>1, <1>4, <5>1 DEF Side, Left, ImageOf
        <5>2. CASE committed[op] = None
          BY <1>1, <3>1, <5>2 DEF Side, Left, ExpectedAfter
        <5> QED BY <5>1, <5>2
      <4>2. ~MetadataChanged(Left(op), file)
        BY <4>1 DEF MetadataChanged
      <4> QED BY <1>2, <1>4, <2>3, <3>2, <4>2 DEF Classify, Holds
    <3>3. CASE file.bytes # arg[op]
      <4>1. ~Holds(Left(op), file)
        BY <1>2, <3>3 DEF Holds
      <4>2. ~MetadataChanged(before, file)
        BY <3>1 DEF MetadataChanged
      <4>3. CASE before.block_ref = None
        <5>1. ~Holds(before, file)
          BY <4>3 DEF Holds
        <5> QED BY <1>4, <2>3, <3>1, <3>3, <4>1, <4>3, <5>1 DEF Classify
      <4>4. CASE before.block_ref # None
        <5>1. Holds(before, file)
          BY <3>1, <4>4 DEF Holds
        <5> QED BY <1>4, <2>3, <3>3, <4>1, <4>2, <4>4, <5>1 DEF Classify
      <4> QED BY <4>3, <4>4
    <3> QED BY <3>2, <3>3
  <2> QED BY <2>2, <2>3
<1> QED BY <1>3, <1>4

\* Nothing about a write or the target changes, or the write is over.
LEMMA SideKept ==
    ASSUME NEW o \in Ops, Side(o), file' = file, landed'[o] = landed[o],
           foreign'[o] = foreign[o], prepared'[o] = prepared[o],
           committed'[o] = committed[o], arg'[o] = arg[o],
           \/ pc'[o] = pc[o] /\ captured'[o] = captured[o]
           \/ pc'[o] \in {"refused", "failed", "done", "dead"}
    PROVE  Side(o)'
<1>1. Left(o)' = Left(o)
  BY DEF Left
<1> QED BY <1>1 DEF Side

\* Something else touched the target: the records of the write owe nothing.
LEMMA SideTouched ==
    ASSUME IInv, NEW o \in Ops, Side(o), NEW S, Touched(S), o \notin S,
           landed'[o] = landed[o], prepared'[o] = prepared[o],
           committed'[o] = committed[o],
           \/ pc'[o] = pc[o]
           \/ pc'[o] \in {"refused", "failed", "done", "dead"} /\ pc[o] # "new"
    PROVE  Side(o)'
<1>1. foreign'[o] <=> (foreign[o] \/ pc[o] # "new")
  BY DEF Touched
<1>2. pc[o] = "new" => prepared[o] = None
  BY DEF IInv, Records, RecordSound
<1> QED BY <1>1, <1>2 DEF Side

\* A write that is part way holds the lock, so no recovery does and no other
\* write is part way.
LEMMA Alone ==
    ASSUME IInv, NEW op \in Ops, pc[op] \in InFlight
    PROVE  /\ reader = None
           /\ \A o \in Ops \ {op} : pc[o] \notin InFlight
BY ConstantsAssumption DEF IInv, LockHeld

\* The steps of a write before it touches the target.
LEMMA BeginSides ==
    ASSUME VInv, NEW op \in Ops, NEW b \in Contents, Begin(op, b)
    PROVE  Sides'
<1>1. \A o \in Ops : Side(o)
  BY DEF VInv, Sides
<1>2. prepared[op] = None /\ committed[op] = None /\ reader = None
  BY ConstantsAssumption DEF VInv, IInv, Records, RecordSound, LockHeld, Begin
<1>3. ASSUME NEW o \in Ops, o # op PROVE Side(o)'
  BY <1>1, <1>3, SideKept DEF Begin, VInv, IInv, TypeOK
<1>4. Side(op)'
  <2>1. /\ pc'[op] = "captured" /\ captured'[op] = Capture(file)
        /\ prepared'[op] = None /\ landed'[op] = landed[op] /\ file' = file
    BY <1>2 DEF Begin, VInv, IInv, TypeOK
  <2>2. landed[op] = "no"
    BY <1>1 DEF Side, Begin
  <2> QED BY <2>1, <2>2 DEF Side
<1>5. StillJudged'
  BY <1>2 DEF StillJudged, Begin
<1> QED BY <1>3, <1>4, <1>5 DEF Sides

\* A block stored, or a write refused, leaves the target and its capture.
LEMMA StoreSides ==
    ASSUME VInv, NEW op \in Ops, StoreBefore(op) \/ StoreAfter(op) \/ Refuse(op)
    PROVE  Sides'
<1>1. \A o \in Ops : Side(o)
  BY DEF VInv, Sides
<1>2. /\ file' = file /\ captured' = captured /\ prepared' = prepared
      /\ committed' = committed /\ landed' = landed /\ foreign' = foreign
      /\ arg' = arg /\ reader' = reader
  BY DEF StoreBefore, StoreAfter, Refuse, history
<1>3. /\ pc[op] \in {"captured", "backed", "stored"}
      /\ pc'[op] \in {"backed", "stored", "refused"}
      /\ \A o \in Ops \ {op} : pc'[o] = pc[o]
  BY DEF StoreBefore, StoreAfter, Refuse, VInv, IInv, TypeOK
<1>4. ASSUME NEW o \in Ops, o # op PROVE Side(o)'
  BY <1>1, <1>2, <1>3, <1>4, SideKept
<1>5. Side(op)'
  <2>1. prepared'[op] = None
    BY <1>2, <1>3 DEF VInv, IInv, Progress
  <2> QED BY <1>1, <1>2, <1>3, <2>1 DEF Side
<1>6. StillJudged'
  BY <1>2 DEF StillJudged, VInv, Sides
<1> QED BY <1>4, <1>5, <1>6 DEF Sides

\* The record published says what the target still holds.
LEMMA PrepareSides ==
    ASSUME VInv, NEW op \in Ops, Prepare(op)
    PROVE  Sides'
<1>1. \A o \in Ops : Side(o)
  BY DEF VInv, Sides
<1>2. /\ file' = file /\ captured' = captured /\ committed' = committed
      /\ landed' = landed /\ foreign' = foreign /\ arg' = arg
      /\ reader' = reader /\ pc[op] = "stored" /\ pc'[op] = "prepared"
      /\ \A o \in Ops \ {op} : pc'[o] = pc[o] /\ prepared'[o] = prepared[o]
  BY DEF Prepare, VInv, IInv, TypeOK
<1>3. /\ prepared'[op].before = captured[op]
      /\ prepared'[op].expected_after = ExpectedAfter(captured[op], arg[op])
  BY DEF Prepare, VInv, IInv, TypeOK
<1>4. ASSUME NEW o \in Ops, o # op PROVE Side(o)'
  BY <1>1, <1>2, <1>4, SideKept
<1>5. Side(op)'
  <2>1. committed[op] = None
    BY <1>2 DEF VInv, IInv, Progress, Records, RecordSound
  <2>2. landed[op] = "no" /\ (~foreign[op] => captured[op] = Capture(file))
    BY <1>1, <1>2 DEF Side
  <2> QED BY <1>2, <1>3, <2>1, <2>2 DEF Side
<1>6. StillJudged'
  BY <1>2 DEF StillJudged, VInv, Sides
<1> QED BY <1>4, <1>5, <1>6 DEF Sides

\* The write lands: the file keeps the mode and the identity the capture
\* recorded, or is new and the record says nothing about them.
LEMMA WriteSides ==
    ASSUME VInv, NEW op \in Ops, Write(op)
    PROVE  Sides'
<1> USE ConstantsAssumption
<1>1. \A o \in Ops : Side(o)
  BY DEF VInv, Sides
<1>2. /\ prepared' = prepared /\ committed' = committed /\ arg' = arg
      /\ reader' = reader /\ pc[op] = "prepared" /\ pc'[op] = "wrote"
      /\ landed'[op] = "whole" /\ Touched({op})
      /\ file' \in Written(file, arg[op])
      /\ \A o \in Ops \ {op} : pc'[o] = pc[o] /\ landed'[o] = landed[o]
  BY DEF Write, VInv, IInv, TypeOK
<1>3. reader = None /\ arg[op] \in Contents /\ file \in File \cup {None}
  BY <1>2, Alone, InFlightFacts DEF VInv, IInv, TypeOK, InFlight
<1>4. ASSUME NEW o \in Ops, o # op PROVE Side(o)'
  BY <1>1, <1>2, <1>4, SideTouched DEF VInv
<1>5. Side(op)'
  <2>1. file' # None /\ file'.bytes = arg[op]
    BY <1>2, <1>3, WrittenFacts DEF Bytes
  <2>2. committed[op] = None /\ prepared[op] # None
    BY <1>1, <1>2 DEF Side, VInv, IInv, Progress
  <2>3. foreign'[op] <=> foreign[op]
    BY DEF Touched, Write
  <2>4. ASSUME ~foreign[op] PROVE ~MetadataChanged(Left(op)', file')
    <3>1. /\ prepared[op].before = Capture(file)
          /\ prepared[op].expected_after
               = ExpectedAfter(prepared[op].before, arg[op])
          /\ landed[op] = "no"
      BY <1>1, <1>2, <2>2, <2>4 DEF Side
    <3>2. Left(op)' = ExpectedAfter(Capture(file), arg[op])
      BY <1>2, <2>2, <3>1 DEF Left
    <3>3. CASE file = None
      BY <3>2, <3>3 DEF ExpectedAfter, Capture, AbsentImage, MetadataChanged
    <3>4. CASE file # None
      <4>1. file' = [file EXCEPT !.bytes = arg[op]]
        BY <1>2, <3>4 DEF Written
      <4>2. file'.mode = file.mode /\ file'.inode = file.inode
        BY <1>3, <3>4, <4>1 DEF File
      <4>3. Left(op)'.mode = file.mode /\ Left(op)'.inode = file.inode
        BY <3>2, <3>4 DEF ExpectedAfter, Capture, ImageOf
      <4> QED BY <4>2, <4>3 DEF MetadataChanged
    <3> QED BY <3>3, <3>4
  <2> QED BY <1>1, <1>2, <2>1, <2>2, <2>3, <2>4 DEF Side
<1>6. StillJudged'
  BY <1>2, <1>3 DEF StillJudged
<1> QED BY <1>4, <1>5, <1>6 DEF Sides

\* A failed write left the target alone, or tore it.
LEMMA WriteFailsSides ==
    ASSUME VInv, NEW op \in Ops, WriteFails(op)
    PROVE  Sides'
<1>1. \A o \in Ops : Side(o)
  BY DEF VInv, Sides
<1>2. /\ prepared' = prepared /\ committed' = committed /\ arg' = arg
      /\ captured' = captured /\ reader' = reader /\ pc[op] = "prepared"
      /\ pc'[op] = "failed" /\ \A o \in Ops \ {op} : pc'[o] = pc[o]
  BY DEF WriteFails, VInv, IInv, TypeOK
<1>3. reader = None
  BY <1>2, Alone DEF VInv, InFlight
<1>4. ASSUME UNCHANGED <<file, landed, held, foreign, lost>>, NEW o \in Ops
      PROVE  Side(o)'
  BY <1>1, <1>2, <1>4, SideKept
<1>5. ASSUME Tear({op})
      PROVE  \A o \in Ops : Side(o)'
  <2>1. /\ Touched({op}) /\ landed'[op] = "torn"
        /\ \A o \in Ops \ {op} : landed'[o] = landed[o]
    BY <1>5 DEF Tear
  <2>2. ASSUME NEW o \in Ops, o # op PROVE Side(o)'
    BY <1>1, <1>2, <2>1, <2>2, SideTouched DEF VInv
  <2>3. Side(op)'
    <3>1. foreign'[op] <=> foreign[op]
      BY <2>1 DEF Touched
    <3> QED BY <1>1, <1>2, <2>1, <3>1 DEF Side
  <2> QED BY <2>2, <2>3
<1>6. StillJudged'
  BY <1>2, <1>3 DEF StillJudged
<1> QED BY <1>2, <1>4, <1>5, <1>6 DEF Sides, WriteFails

\* A commit records the file the write left, by the write or by a recovery.
LEMMA CommitSides ==
    ASSUME VInv, NEW op \in Ops, Commit(op) \/ Settle(op)
    PROVE  Sides'
<1>1. \A o \in Ops : Side(o)
  BY DEF VInv, Sides
<1>2. /\ file' = file /\ prepared' = prepared /\ arg' = arg
      /\ captured' = captured /\ landed' = landed /\ foreign' = foreign
      /\ \A o \in Ops \ {op} : pc'[o] = pc[o] /\ committed'[o] = committed[o]
      /\ pc'[op] = pc[op] \/ pc'[op] = "done"
  BY DEF Commit, Settle, VInv, IInv, TypeOK
<1>3. committed'[op] = CommitImage(op) \/ committed'[op] = committed[op]
  BY DEF Commit, Settle, VInv, IInv, TypeOK
<1>4. ASSUME NEW o \in Ops, o # op PROVE Side(o)'
  BY <1>1, <1>2, <1>4, SideKept
<1>5. Side(op)'
  <2>1. CASE committed'[op] = committed[op]
    BY <1>1, <1>2, <2>1, SideKept
  <2>2. CASE committed'[op] = CommitImage(op)
    <3>1. prepared[op] # None /\ prepared[op].expected_after.block_ref = arg[op]
      <4>1. CASE Commit(op)
        BY <4>1 DEF Commit, VInv, IInv, Progress, Records, RecordSound
      <4>2. CASE Settle(op)
        <5>1. reader # None /\ reader.op = op
          BY <4>2, ConstantsAssumption DEF Settle, Judged
        <5> QED BY <5>1 DEF VInv, IInv, Verdict, Records, RecordSound
      <4> QED BY <4>1, <4>2
    <3>2. pc'[op] \notin InFlight
      <4>1. CASE Commit(op)
        BY <4>1 DEF Commit, VInv, IInv, TypeOK, InFlight
      <4>2. CASE Settle(op)
        BY <4>2, ConstantsAssumption
           DEF Settle, VInv, IInv, TypeOK, LockHeld, InFlight, Judged
      <4> QED BY <4>1, <4>2
    <3>3. ASSUME ~foreign[op] PROVE file # None /\ file.bytes = arg[op]
      <4>1. CASE Commit(op)
        BY <1>1, <3>1, <3>3, <4>1 DEF Commit, Side
      <4>2. CASE Settle(op)
        <5>1. reader # None /\ reader.op = op
          BY <4>2, ConstantsAssumption DEF Settle, Judged
        <5> QED BY <3>3, <5>1 DEF VInv, Sides, StillJudged
      <4> QED BY <4>1, <4>2
    <3>4. ASSUME ~foreign[op]
          PROVE  /\ committed'[op] = ImageOf(file, arg[op])
                 /\ Left(op)' = ImageOf(file, arg[op])
      <4>1. CommitImage(op) = ImageOf(file, arg[op])
        BY <3>1, <3>3, <3>4 DEF CommitImage
      <4>2. CommitImage(op) # None
        BY <3>1, CommitFacts DEF VInv, IInv
      <4> QED BY <2>2, <4>1, <4>2 DEF Left
    <3>5. ASSUME ~foreign[op] PROVE ~MetadataChanged(Left(op)', file)
      BY <3>4, <3>5 DEF ImageOf, MetadataChanged
    <3>6. pc'[op] \in {"new", "captured", "backed", "stored", "prepared"}
            => landed'[op] = "no"
      BY <1>1, <1>2 DEF Side
    <3> QED BY <1>1, <1>2, <3>1, <3>2, <3>3, <3>4, <3>5, <3>6
            DEF Side, InFlight
  <2> QED BY <1>3, <2>1, <2>2
<1>6. StillJudged'
  <2>1. CASE Settle(op)
    BY <2>1 DEF StillJudged, Settle
  <2>2. CASE Commit(op)
    BY <1>2, <2>2, Alone DEF StillJudged, Commit, VInv, InFlight
  <2> QED BY <2>1, <2>2
<1> QED BY <1>4, <1>5, <1>6 DEF Sides

\* A recovery takes the lock with a verdict of Applied.
LEMMA JudgeSides ==
    ASSUME VInv, NEW op \in Ops, NEW step \in {"settle", "put"}, Judge(step, op)
    PROVE  Sides'
<1>1. \A o \in Ops : Side(o)
  BY DEF VInv, Sides
<1>2. ASSUME NEW o \in Ops PROVE Side(o)'
  BY <1>1, SideKept DEF Judge
<1>3. StillJudged'
  <2>1. reader'.op = op /\ arg' = arg /\ file' = file
    BY DEF Judge
  <2>2. file # None /\ file.bytes = arg[op]
    BY AppliedFacts DEF VInv, IInv, Judge
  <2> QED BY <2>1, <2>2 DEF StillJudged
<1> QED BY <1>2, <1>3 DEF Sides

\* A copy beside the target, and a step that changes nothing.
LEMMA KeepEarlierSides ==
    ASSUME VInv, (\E op \in Ops : KeepEarlier(op)) \/ UNCHANGED vars
    PROVE  Sides'
<1>1. /\ file' = file /\ prepared' = prepared /\ arg' = arg /\ pc' = pc
      /\ captured' = captured /\ landed' = landed /\ foreign' = foreign
      /\ committed' = committed /\ reader' = reader
  BY DEF KeepEarlier, vars, history
<1>2. ASSUME NEW o \in Ops PROVE Side(o)'
  BY <1>1, SideKept DEF VInv, Sides
<1> QED BY <1>1, <1>2 DEF VInv, Sides, StillJudged

\* A restore that went through or failed is something else for every write.
LEMMA PutSides ==
    ASSUME VInv, NEW op \in Ops, PutEarlier(op) \/ PutFails(op)
    PROVE  Sides'
<1>1. \A o \in Ops : Side(o)
  BY DEF VInv, Sides
<1>2. /\ prepared' = prepared /\ arg' = arg /\ pc' = pc
      /\ captured' = captured /\ committed' = committed /\ reader' = None
  BY DEF PutEarlier, PutFails
<1>3. \/ file' = file /\ landed' = landed /\ foreign' = foreign
      \/ Touched({}) /\ \A o \in Ops : landed'[o] = landed[o]
  BY DEF PutEarlier, PutFails, Tear
<1>4. ASSUME NEW o \in Ops PROVE Side(o)'
  BY <1>1, <1>2, <1>3, SideKept, SideTouched DEF VInv
<1> QED BY <1>2, <1>4 DEF Sides, StillJudged

\* So is another program's change.
LEMMA ExternalSides ==
    ASSUME VInv, NEW f \in ExternalFiles, External(f)
    PROVE  Sides'
<1>1. /\ prepared' = prepared /\ arg' = arg /\ pc' = pc /\ landed' = landed
      /\ committed' = committed /\ reader' = reader /\ Touched({})
  BY DEF External
<1>2. ASSUME NEW o \in Ops PROVE Side(o)'
  BY <1>1, SideTouched DEF VInv, Sides
<1>3. StillJudged'
  <2>1. CASE reader = None
    BY <1>1, <2>1 DEF StillJudged
  <2>2. CASE reader # None
    <3>1. reader.op \in Ops
      BY <2>2 DEF VInv, IInv, TypeOK, Judged
    <3>2. pc[reader.op] # "new"
      BY <2>2, <3>1 DEF VInv, IInv, Verdict, Records, RecordSound
    <3>3. foreign'[reader.op]
      BY <1>1, <3>1, <3>2 DEF Touched
    <3> QED BY <1>1, <3>3 DEF StillJudged
  <2> QED BY <2>1, <2>2
<1> QED BY <1>2, <1>3 DEF Sides

\* A crash leaves every record, and at most tears the target of the write
\* under way.
LEMMA CrashSides ==
    ASSUME VInv, Crash
    PROVE  Sides'
<1>1. \A o \in Ops : Side(o)
  BY DEF VInv, Sides
<1>2. /\ prepared' = prepared /\ arg' = arg /\ committed' = committed
      /\ reader' = None
      /\ \A o \in Ops : pc'[o] = IF pc[o] \in InFlight THEN "dead" ELSE pc[o]
  BY DEF Crash
<1>3. ASSUME UNCHANGED <<file, landed, held, foreign, lost>>
      PROVE  \A o \in Ops : Side(o)'
  <2>1. ASSUME NEW o \in Ops PROVE Side(o)'
    <3>1. CASE pc[o] \in InFlight
      BY <1>1, <1>2, <1>3, <3>1, SideKept
    <3>2. CASE pc[o] \notin InFlight
      BY <1>1, <1>2, <1>3, <3>2 DEF Side, Left, InFlight
    <3> QED BY <3>1, <3>2
  <2> QED BY <2>1
<1>4. ASSUME Tear(Writing)
      PROVE  \A o \in Ops : Side(o)'
  <2>1. /\ Touched(Writing)
        /\ \A o \in Ops : landed'[o] = IF o \in Writing THEN "torn" ELSE landed[o]
    BY <1>4 DEF Tear
  <2>2. ASSUME NEW o \in Ops, o \notin Writing PROVE Side(o)'
    <3>1. pc[o] \in InFlight => pc[o] # "new"
      BY DEF InFlight
    <3> QED BY <1>1, <1>2, <2>1, <2>2, <3>1, SideTouched DEF VInv
  <2>3. ASSUME NEW o \in Writing PROVE Side(o)'
    <3>1. o \in Ops /\ pc'[o] = "dead" /\ landed'[o] = "torn"
      BY <1>2, <2>1 DEF Writing, InFlight
    <3>2. /\ prepared[o].expected_after
               = ExpectedAfter(prepared[o].before, arg[o]) \/ foreign[o]
          /\ foreign'[o] <=> foreign[o]
      BY <1>1, <2>1, <3>1 DEF Side, Touched, Writing, VInv, IInv, Progress
    <3> QED BY <1>2, <3>1, <3>2 DEF Side
  <2> QED BY <2>2, <2>3
<1>5. \A o \in Ops : Side(o)'
  BY <1>3, <1>4 DEF Crash
<1> QED BY <1>2, <1>5 DEF Sides, StillJudged

\* The verdict of recovery is right about every write nothing else followed,
\* after any number of writes, restores, failures and crashes.
THEOREM VerdictRight == Spec => []VerdictSound
<1>1. Init => Sides
  BY DEF Init, Sides, StillJudged, Side
<1>2. IInv /\ Sides /\ [Next]_vars => Sides'
  <2> SUFFICES ASSUME VInv, [Next]_vars PROVE Sides'
    BY DEF VInv
  <2>1. ASSUME NEW op \in Ops, NEW b \in Contents, Begin(op, b) PROVE Sides'
    BY <2>1, BeginSides
  <2>2. ASSUME NEW op \in Ops, WriterStep(op) PROVE Sides'
    BY <2>2, StoreSides, PrepareSides, WriteSides, WriteFailsSides, CommitSides
       DEF WriterStep
  <2>3. ASSUME NEW op \in Ops,
               JudgeUncommitted(op) \/ RestoreApplied(op) \/ KeepEarlier(op)
        PROVE  Sides'
    BY <2>3, JudgeSides, KeepEarlierSides DEF JudgeUncommitted, RestoreApplied
  <2>4. ASSUME NEW op \in Ops, ReaderStep(op) PROVE Sides'
    BY <2>4, CommitSides, PutSides DEF ReaderStep
  <2>5. ASSUME NEW f \in ExternalFiles, External(f) PROVE Sides'
    BY <2>5, ExternalSides
  <2>6. CASE Crash
    BY <2>6, CrashSides
  <2>7. CASE UNCHANGED vars
    BY <2>7, KeepEarlierSides
  <2> QED BY <2>1, <2>2, <2>3, <2>4, <2>5, <2>6, <2>7 DEF Next
<1>3. IInv /\ Sides => VerdictSound
  BY VerdictFromSides DEF VInv
<1> QED BY <1>1, <1>2, <1>3, Invariance, PTL DEF Spec

=============================================================================
