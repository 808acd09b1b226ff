--------------------------- MODULE FileTransaction ---------------------------
(***************************************************************************)
(* The write journal of houyicoder-core/src/snapshot/file_transaction.rs:  *)
(* every write of a file tool records both sides of itself before the      *)
(* target is touched, and a later recovery reads the records back, settles *)
(* the writes that landed without a commit and undoes one on request.      *)
(*                                                                         *)
(* One target path is modelled: the locks are per target, and two targets  *)
(* share no state.  Programs outside the process change the target without *)
(* taking the lock, between any two steps of a write or of a restore.      *)
(*                                                                         *)
(* Block reclaim and the durability of the target's own pages are not      *)
(* part of this module.                                                    *)
(***************************************************************************)
EXTENDS Naturals

CONSTANTS
    Ops,        \* the writes, named by operation_name
    Contents,   \* the byte strings writers put in the target
    Size,       \* the length of each byte string
    Ceiling,    \* backup_ceiling
    Torn,       \* what a write that stopped part way leaves
    Inodes,     \* what identifies a file on disk
    Modes,      \* file permissions
    NewMode,    \* the permissions a newly created file gets
    None,       \* the absent value of an Option
    Reader,     \* the recovery side, as a holder of the target's lock
    MaxExt,     \* bound: changes made by other programs
    MaxCrash    \* bound: crashes of the process

Bytes == Contents \cup {Torn}

File == [bytes : Bytes, inode : Inodes, mode : Modes]

ImageRecord == [present : BOOLEAN, block_ref : Bytes \cup {None},
                bytes : Nat \cup {None}, mode : Modes \cup {None},
                inode : Inodes \cup {None}]

PreparedRecord == [before : ImageRecord, expected_after : ImageRecord]

\* A step of a recovery that holds the lock, and the write it is about.
Judged == [step : {"settle", "put"}, op : Ops]

ASSUME ConstantsAssumption ==
    /\ Torn \notin Contents /\ Reader \notin Ops
    /\ None \notin Bytes \cup Inodes \cup Modes \cup Ops \cup {Reader} \cup Nat
    /\ None \notin File \cup ImageRecord \cup PreparedRecord \cup Judged
    /\ Size \in [Bytes -> Nat] /\ Ceiling \in Nat
    /\ NewMode \in Modes /\ Inodes # {}
    /\ MaxExt \in Nat /\ MaxCrash \in Nat

VARIABLES
    file,       \* the target on disk: None, or its bytes, identity and mode
    lock,       \* who holds target_lock(target), None when nobody does
    pc,         \* how far each write is
    arg,        \* the bytes each write was called with
    captured,   \* what each write found, held in memory
    blocks,     \* the content-addressed block store
    prepared,   \* each write's prepared.json, None before it is published
    committed,  \* each write's committed.json
    copies,     \* the copy kept beside the target, per write
    reader,     \* the recovery step that holds the lock
    exts, crashes,
    \* History, read by the properties only.
    landed,     \* what each write did to the target: "no", "torn", "whole"
    held,       \* the target held the write's bytes after it was prepared
    foreign,    \* something else touched the target after the write's capture
    raced,      \* another program touched the target since the lock was taken
    lost        \* bytes overwritten under the lock that no record keeps

vars == <<file, lock, pc, arg, captured, blocks, prepared, committed, copies,
          reader, exts, crashes, landed, held, foreign, raced, lost>>

history == <<landed, held, foreign, raced, lost>>

-----------------------------------------------------------------------------
(* Images and records. *)

AbsentImage == [present |-> FALSE, block_ref |-> None, bytes |-> None,
                mode |-> None, inode |-> None]

\* image_of: the record side of a file whose metadata was just read.
ImageOf(f, ref) == [present |-> TRUE, block_ref |-> ref,
                    bytes |-> Size[f.bytes], mode |-> f.mode, inode |-> f.inode]

\* Mutant: bytes that exactly fit the ceiling are not kept.
MutCapture(f) ==
    IF f = None THEN AbsentImage
    ELSE ImageOf(f, IF Size[f.bytes] >= Ceiling THEN None ELSE f.bytes)

\* capture and to_record: what the write found; bytes over the ceiling are
\* counted and not kept.
Capture(f) ==
    IF f = None THEN AbsentImage
    ELSE ImageOf(f, IF Size[f.bytes] > Ceiling THEN None ELSE f.bytes)

\* Mutant: the write is expected to reset the permissions.
MutExpectedAfter(before, b) == [present |-> TRUE, block_ref |-> b,
                                bytes |-> Size[b], mode |-> NewMode,
                                inode |-> before.inode]

\* The write truncates the file it found, so its mode and identity are the
\* captured ones, and unknown when it creates the file.
ExpectedAfter(before, b) == [present |-> TRUE, block_ref |-> b,
                             bytes |-> Size[b], mode |-> before.mode,
                             inode |-> before.inode]

\* sandbox.write_file: bytes written in place, or into a new file.
Written(f, b) ==
    IF f # None THEN {[f EXCEPT !.bytes = b]}
    ELSE {[bytes |-> b, inode |-> i, mode |-> NewMode] : i \in Inodes}

-----------------------------------------------------------------------------
(* Classification: which side of a write the target is on. *)

\* metadata_changed: an option the record leaves out says nothing.
MetadataChanged(image, f) ==
    \/ image.inode # None /\ image.inode # f.inode
    \/ image.mode # None /\ image.mode # f.mode

Holds(image, f) == image.block_ref # None /\ image.block_ref = f.bytes

\* The image the write left: the committed record's, or the expected one.
Left(op) == IF committed[op] # None THEN committed[op]
            ELSE prepared[op].expected_after

Classify(op, f) ==
    LET before == prepared[op].before
        left == Left(op)
    IN  CASE f = None -> IF before.present THEN "Conflict" ELSE "NotApplied"
          [] f # None /\ ~MetadataChanged(left, f) /\ Holds(left, f) -> "Applied"
          [] OTHER ->
               IF ~MetadataChanged(before, f) /\ Holds(before, f)
               THEN "NotApplied"
               ELSE IF /\ before.present
                       /\ before.block_ref = None
                       /\ before.bytes = Size[f.bytes]
                    THEN "Unverified"
                    ELSE "Conflict"

-----------------------------------------------------------------------------
(* History. *)

\* Some record on disk names a stored block with these bytes.
Kept(b) == \E o \in Ops :
    /\ prepared[o] # None
    /\ b \in blocks
    /\ b \in {prepared[o].before.block_ref, prepared[o].expected_after.block_ref}

\* Bytes a step under the lock overwrites, unless another program put them
\* there after the holder looked.
Overwrite ==
    lost' = IF file = None \/ raced \/ Kept(file.bytes) THEN lost
            ELSE lost \cup {file.bytes}

\* The target changed by someone other than the given writes.
Touched(except) ==
    foreign' = [o \in Ops |-> foreign[o] \/ (pc[o] # "new" /\ o \notin except)]

\* The prepared writes whose bytes the target now holds.
Holding(f) ==
    held' = [o \in Ops |-> held[o] \/ (/\ prepared[o] # None
                                       /\ f # None
                                       /\ f.bytes = arg[o])]

\* write_file stops after it truncated the target; only these writes count it
\* as their own doing.
Tear(except) ==
    /\ file' \in Written(file, Torn)
    /\ Overwrite
    /\ Holding(file')
    /\ Touched(except)
    /\ landed' = [o \in Ops |-> IF o \in except THEN "torn" ELSE landed[o]]

-----------------------------------------------------------------------------
(* FileTransaction::write *)

Release == lock' = None /\ raced' = FALSE


\* The lock is taken and the target read: nothing awaits in between.
Begin(op, b) ==
    /\ pc[op] = "new" /\ lock = None
    /\ lock' = op /\ raced' = FALSE
    /\ arg' = [arg EXCEPT ![op] = b]
    /\ captured' = [captured EXCEPT ![op] = Capture(file)]
    /\ pc' = [pc EXCEPT ![op] = "captured"]
    /\ UNCHANGED <<file, blocks, prepared, committed, copies, reader, exts,
                   crashes, landed, held, foreign, lost>>


\* The previous bytes, when they were kept, go to the block store first.
StoreBefore(op) ==
    /\ pc[op] = "captured"
    /\ blocks' = blocks \cup ({captured[op].block_ref} \ {None})
    /\ pc' = [pc EXCEPT ![op] = "backed"]
    /\ UNCHANGED <<file, lock, arg, captured, prepared, committed, copies,
                   reader, exts, crashes, history>>

StoreAfter(op) ==
    /\ pc[op] = "backed"
    /\ blocks' = blocks \cup {arg[op]}
    /\ pc' = [pc EXCEPT ![op] = "stored"]
    /\ UNCHANGED <<file, lock, arg, captured, prepared, committed, copies,
                   reader, exts, crashes, history>>

Prepare(op) ==
    /\ pc[op] = "stored"
    /\ prepared' = [prepared EXCEPT ![op] =
                      [before |-> captured[op],
                       expected_after |-> ExpectedAfter(captured[op], arg[op])]]
    /\ held' = [held EXCEPT ![op] = file # None /\ file.bytes = arg[op]]
    /\ pc' = [pc EXCEPT ![op] = "prepared"]
    /\ UNCHANGED <<file, lock, arg, captured, blocks, committed, copies, reader,
                   exts, crashes, landed, foreign, raced, lost>>

\* The target could not be read, a block could not be stored or the record
\* could not be published: the write is refused before the target is touched.
Refuse(op) ==
    /\ pc[op] \in {"captured", "backed", "stored"}
    /\ pc' = [pc EXCEPT ![op] = "refused"]
    /\ Release
    /\ UNCHANGED <<file, arg, captured, blocks, prepared, committed, copies,
                   reader, exts, crashes, landed, held, foreign, lost>>

Write(op) ==
    /\ pc[op] = "prepared"
    /\ file' \in Written(file, arg[op])
    /\ Overwrite
    /\ landed' = [landed EXCEPT ![op] = "whole"]
    /\ Holding(file')
    /\ Touched({op})
    /\ pc' = [pc EXCEPT ![op] = "wrote"]
    /\ UNCHANGED <<lock, arg, captured, blocks, prepared, committed, copies,
                   reader, exts, crashes, raced>>

\* write_file returns an error, before it opened the target or after it
\* truncated it.  The prepared record stays.
WriteFails(op) ==
    /\ pc[op] = "prepared"
    /\ \/ UNCHANGED <<file, landed, held, foreign, lost>>
       \/ Tear({op})
    /\ pc' = [pc EXCEPT ![op] = "failed"]
    /\ Release
    /\ UNCHANGED <<arg, captured, blocks, prepared, committed, copies, reader,
                   exts, crashes>>

\* The image a commit records: the file as it is now, or the expected one.
CommitImage(op) ==
    IF file # None THEN ImageOf(file, prepared[op].expected_after.block_ref)
    ELSE prepared[op].expected_after

\* A committed record that cannot be published does not fail the write.
Commit(op) ==
    /\ pc[op] = "wrote"
    /\ \/ committed' = [committed EXCEPT ![op] = CommitImage(op)]
       \/ UNCHANGED committed
    /\ pc' = [pc EXCEPT ![op] = "done"]
    /\ Release
    /\ UNCHANGED <<file, arg, captured, blocks, prepared, copies, reader, exts,
                   crashes, landed, held, foreign, lost>>

-----------------------------------------------------------------------------
(* FileTransaction::recover and restore.  A listing that settles nothing and *)
(* a restore that answers Unchanged or Unbacked change no state.             *)

\* The lock is taken and the target judged; the step it leads to comes later.
Judge(step, op) ==
    /\ lock = None
    /\ prepared[op] # None
    /\ Classify(op, file) = "Applied"
    /\ lock' = Reader /\ raced' = FALSE
    /\ reader' = [step |-> step, op |-> op]
    /\ UNCHANGED <<file, pc, arg, captured, blocks, prepared, committed, copies,
                   exts, crashes, landed, held, foreign, lost>>

\* Mutant: every write without a commit is settled, whatever the target holds.
MutJudgeUncommitted(op) ==
    /\ lock = None /\ prepared[op] # None /\ committed[op] = None
    /\ lock' = Reader /\ raced' = FALSE
    /\ reader' = [step |-> "settle", op |-> op]
    /\ UNCHANGED <<file, pc, arg, captured, blocks, prepared, committed, copies,
                   exts, crashes, landed, held, foreign, lost>>

JudgeUncommitted(op) == committed[op] = None /\ Judge("settle", op)

\* settle reads the target's metadata again; a record that cannot be
\* published is reported and nothing changes.
Settle(op) ==
    /\ reader = [step |-> "settle", op |-> op]
    /\ \/ committed' = [committed EXCEPT ![op] = CommitImage(op)]
       \/ UNCHANGED committed
    /\ reader' = None
    /\ Release
    /\ UNCHANGED <<file, pc, arg, captured, blocks, prepared, copies, exts,
                   crashes, landed, held, foreign, lost>>

\* A write that replaced bytes nobody kept is not undone.
RestoreApplied(op) ==
    /\ prepared[op] # None
    /\ prepared[op].before.present => prepared[op].before.block_ref # None
    /\ Judge("put", op)

\* The file is removed when the write created it; the write may also fail.
PutEarlier(op) ==
    LET before == prepared[op].before IN
    /\ reader = [step |-> "put", op |-> op]
    /\ IF before.present THEN file' \in Written(file, before.block_ref)
       ELSE file' = None
    /\ Overwrite
    /\ Holding(file')
    /\ Touched({})
    /\ reader' = None
    /\ Release
    /\ UNCHANGED <<pc, arg, captured, blocks, prepared, committed, copies, exts,
                   crashes, landed>>

PutFails(op) ==
    /\ reader = [step |-> "put", op |-> op]
    /\ \/ UNCHANGED <<file, landed, held, foreign, lost>>
       \/ prepared[op].before.present /\ Tear({})
    /\ reader' = None
    /\ Release
    /\ UNCHANGED <<pc, arg, captured, blocks, prepared, committed, copies, exts,
                   crashes>>

\* A later writer owns the target: the earlier bytes go beside it.
KeepEarlier(op) ==
    /\ lock = None
    /\ prepared[op] # None
    /\ Classify(op, file) = "Conflict"
    /\ prepared[op].before.block_ref # None
    /\ copies' = [copies EXCEPT ![op] = prepared[op].before.block_ref]
    /\ UNCHANGED <<file, lock, pc, arg, captured, blocks, prepared, committed,
                   reader, exts, crashes, history>>

-----------------------------------------------------------------------------
(* What the process does not control. *)

\* Another program saves in place or by rename, creates, removes, or changes
\* the permissions; a created file may get the identity of a removed one.  So
\* does a write of this process that has no session to record under.
ExternalFiles ==
    ({f \in File : f.bytes \in Contents} \cup {None}) \ {file}

External(f) ==
    /\ exts < MaxExt
    /\ exts' = exts + 1
    /\ file' = f
    /\ Holding(f)
    /\ Touched({})
    /\ raced' = (lock # None)
    /\ UNCHANGED <<lock, pc, arg, captured, blocks, prepared, committed, copies,
                   reader, crashes, landed, lost>>

InFlight == {"captured", "backed", "stored", "prepared", "wrote"}

\* The process dies.  A write_file under way may have truncated the target.
Writing == {op \in Ops : pc[op] = "prepared"}
Putting == {op \in Ops : /\ reader = [step |-> "put", op |-> op]
                         /\ prepared[op].before.present}

Crash ==
    /\ crashes < MaxCrash
    /\ crashes' = crashes + 1
    /\ \/ UNCHANGED <<file, landed, held, foreign, lost>>
       \/ Writing \cup Putting # {} /\ Tear(Writing)
    /\ pc' = [o \in Ops |-> IF pc[o] \in InFlight THEN "dead" ELSE pc[o]]
    /\ captured' = [o \in Ops |-> None]
    /\ reader' = None
    /\ Release
    /\ UNCHANGED <<arg, blocks, prepared, committed, copies, exts>>

-----------------------------------------------------------------------------
Init ==
    /\ file \in File \cup {None}
    /\ file # None => file.bytes # Torn
    /\ lock = None /\ reader = None
    /\ pc = [o \in Ops |-> "new"]
    /\ arg = [o \in Ops |-> None]
    /\ captured = [o \in Ops |-> None]
    /\ blocks = {}
    /\ prepared = [o \in Ops |-> None]
    /\ committed = [o \in Ops |-> None]
    /\ copies = [o \in Ops |-> None]
    /\ exts = 0 /\ crashes = 0
    /\ landed = [o \in Ops |-> "no"]
    /\ held = [o \in Ops |-> FALSE]
    /\ foreign = [o \in Ops |-> FALSE]
    /\ raced = FALSE /\ lost = {}

WriterStep(op) ==
    \/ StoreBefore(op) \/ StoreAfter(op) \/ Prepare(op) \/ Refuse(op)
    \/ Write(op) \/ WriteFails(op) \/ Commit(op)

ReaderStep(op) == Settle(op) \/ PutEarlier(op) \/ PutFails(op)

Next ==
    \/ \E op \in Ops :
         \/ \E b \in Contents : Begin(op, b)
         \/ WriterStep(op)
         \/ JudgeUncommitted(op) \/ RestoreApplied(op) \/ KeepEarlier(op)
         \/ ReaderStep(op)
    \/ \E f \in ExternalFiles : External(f)
    \/ Crash

Spec == Init /\ [][Next]_vars

-----------------------------------------------------------------------------
(* Properties. *)

\* Every variable holds a value of its type.
TypeOK ==
    /\ file \in File \cup {None}
    /\ lock \in Ops \cup {None, Reader}
    /\ pc \in [Ops -> InFlight \cup {"new", "refused", "failed", "done", "dead"}]
    /\ arg \in [Ops -> Contents \cup {None}]
    /\ captured \in [Ops -> ImageRecord \cup {None}]
    /\ blocks \subseteq Bytes
    /\ prepared \in [Ops -> PreparedRecord \cup {None}]
    /\ committed \in [Ops -> ImageRecord \cup {None}]
    /\ copies \in [Ops -> Bytes \cup {None}]
    /\ reader \in Judged \cup {None}
    /\ exts \in 0..MaxExt /\ crashes \in 0..MaxCrash
    /\ landed \in [Ops -> {"no", "torn", "whole"}]
    /\ held \in [Ops -> BOOLEAN]
    /\ foreign \in [Ops -> BOOLEAN]
    /\ raced \in BOOLEAN
    /\ lost \subseteq Bytes

\* "The previous bytes and the bytes about to land are both stored before the
\* target is touched": no write, restore, failed write or crash overwrites
\* bytes that no record keeps, other than bytes over the backup ceiling and
\* bytes another program put there under the writer.
NothingLost == \A b \in lost : Size[b] > Ceiling

\* "The second records what the first left rather than what both found": until
\* a write touches the target, what it captured is what the target holds,
\* unless a program that takes no lock changed it.
RecordedBefore ==
    \A op \in Ops :
        (pc[op] \in InFlight \ {"wrote"} /\ ~raced)
            => captured[op] = Capture(file)

\* A committed record, published by the write or by a recovery that settled
\* it, states something that happened: after the write was prepared the
\* target held its bytes.
CommitHeld == \A op \in Ops : committed[op] # None => held[op]

\* The verdict recovery derives from the records and the disk is right about a
\* write that nothing else followed: a write that landed reads as applied,
\* committed or not, and one that never touched the target reads as not
\* applied, or unverified when its earlier bytes were not kept (a write of the
\* bytes already there reads as applied).
VerdictSound ==
    \A op \in Ops :
        (prepared[op] # None /\ ~foreign[op]) =>
            /\ landed[op] = "whole" => Classify(op, file) = "Applied"
            /\ landed[op] = "no" =>
                 Classify(op, file) =
                     IF file # None /\ file.bytes = arg[op] THEN "Applied"
                     ELSE IF prepared[op].before.present
                             /\ prepared[op].before.block_ref = None
                          THEN "Unverified" ELSE "NotApplied"

\* Stated by write_recorded: a failed write means the target was not touched.
FailureLeavesTarget ==
    \A op \in Ops : pc[op] \in {"refused", "failed"} => landed[op] = "no"

\* Stated by WriteState: a conflict means something touched the target after
\* the write.
ConflictIsForeign ==
    \A op \in Ops :
        (prepared[op] # None /\ lock = None /\ ~foreign[op])
            => Classify(op, file) # "Conflict"
=============================================================================
