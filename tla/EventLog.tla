------------------------------ MODULE EventLog ------------------------------
(***************************************************************************)
(* The runtime log (append_log_for_instance and rotate_log in src/src/     *)
(* observability.rs, SecureDir::append_bounded, and the log command in     *)
(* daemon.rs): one current file and one archive.  Processes append records *)
(* under zc.log.lock and rotate when the file is full; any of them may     *)
(* fail or be killed between two steps.  A legacy program appends without  *)
(* the lock.  One command reads both files under the lock, another follows *)
(* the current file without it.                                            *)
(*                                                                         *)
(* A file is a sequence of pieces.  A record of zc is two: its head, and   *)
(* its number, the piece that ends with the newline; whoever reads without *)
(* the lock may see the first alone.  Records are numbered as they are     *)
(* accepted.  Sizes are counted in pieces.                                 *)
(***************************************************************************)
EXTENDS Integers, Sequences, FiniteSets

CONSTANTS
    LogWriters,  \* processes that append
    LogLimit,    \* pieces a file may hold (8 MiB)
    TailLines,   \* lines the follower asks for
    MaxRecords,  \* bound: records accepted
    MaxForeign,  \* bound: lines of other programs in a file
    MaxFiles     \* bound: files made before the last time the lock is taken

FOREIGN == 0   \* a line of a program that does not take the lock
WARNING == -1  \* the line log_retention_exceeded
HEAD == -3     \* a record without its newline
MISSING == <<-2>>
RecordSize == 2
READER == "reader"
FREE == "free"
NotRead == [whole |-> TRUE, log |-> <<>>]
NotFollowing == [inode |-> -1, content |-> -1, size |-> 0, printed |-> <<>>,
                 skipped |-> {}, misled |-> FALSE]
Idle == [at |-> "idle", additional |-> 0, offset |-> 0]

VARIABLES
    current, archive, \* the files; the current one may be missing
    inode, archiveInode, \* their inode numbers
    content,   \* number of the current content: another file, or bytes
               \* written over others, count as another content
    logLock,   \* holder of zc.log.lock
    step,      \* where each writer is
    recorded,   \* records accepted
    replaced,  \* the files append_bounded replaced
    snapshot,  \* what the reader has read
    follower   \* the file it knows, what it read of it, all it printed, what
               \* it skipped on its first poll, and whether the number it
               \* knew ever stood for another content than it had read

fileVars == <<current, archive, inode, archiveInode, content, recorded, replaced>>
eventLogVars == <<fileVars, logLock, step, snapshot, follower>>

LogInit ==
    /\ current = MISSING /\ archive = <<>>
    /\ inode = 0 /\ archiveInode = 0 /\ content = 0
    /\ logLock = FREE
    /\ step = [w \in LogWriters |-> Idle]
    /\ recorded = 0 /\ replaced = {}
    /\ snapshot = NotRead
    /\ follower = NotFollowing

Goto(w, label) == step' = [step EXCEPT ![w].at = label]

Release(w) == logLock' = FREE /\ step' = [step EXCEPT ![w] = Idle]

Pieces(file) == {file[i] : i \in DOMAIN file}

\* Where the lines of a file end, and the last of these places.
LineEnds(file) == {i \in DOMAIN file : file[i] # HEAD}
LastEnd(file) ==
    IF LineEnds(file) = {} THEN 0
    ELSE CHOOSE i \in LineEnds(file) : \A j \in LineEnds(file) : j <= i

\* A file is made beside those there are, with a number none of them has.  The
\* number of a file that is gone is free again: the one that matters is the one
\* the follower remembers.
NewFile(file) ==
    /\ current' = file
    /\ content' = content + 1
    /\ \/ inode' = content + 1
       \/ /\ follower.inode \notin {-1, archiveInode}
          /\ current # MISSING => follower.inode # inode
          /\ inode' = follower.inode

Records(file) == SelectSeq(file, LAMBDA r : r > 0)

\* dir.lock and validate: for a record (append_log_for_instance) or for none
\* (maintenance).  Who waits too long gives up.
LockLog(w, additional) ==
    /\ logLock = FREE /\ step[w] = Idle 
    /\ recorded < MaxRecords /\ content < MaxFiles
    /\ logLock' = w
    /\ step' = [step EXCEPT ![w] = [Idle EXCEPT !.at = "locked", !.additional = additional]]
    /\ UNCHANGED <<fileVars, snapshot, follower>>

\* What rotate_log decides from the length it reads.
Measured(w) ==
    CASE current = MISSING \/ Len(current) + step[w].additional <= LogLimit -> "rotated"
      [] Len(current) > LogLimit -> "exceeded"
      [] OTHER -> "full"

Measure(w) ==
    /\ step[w].at = "locked"
    /\ Goto(w, Measured(w))
    /\ UNCHANGED <<fileVars, logLock, snapshot, follower>>

\* A file that others filled beyond the limit is not archived.
Warn(w) ==
    /\ step[w].at = "exceeded"
    /\ NewFile(<<WARNING>>)
    /\ Goto(w, "full")
    /\ UNCHANGED <<archive, archiveInode, recorded, replaced, logLock, snapshot, follower>>

ArchiveCurrent(w) ==
    /\ step[w].at = "full"
    /\ archive' = current /\ archiveInode' = inode
    /\ current' = MISSING
    /\ Goto(w, "renamed")
    /\ UNCHANGED <<inode, content, recorded, replaced, logLock, snapshot, follower>>

\* atomic_write of an empty file, over one a legacy program may have made.
Recreate(w) ==
    /\ step[w].at = "renamed"
    /\ NewFile(<<>>)
    /\ Goto(w, "rotated")
    /\ UNCHANGED <<archive, archiveInode, recorded, replaced, logLock, snapshot, follower>>

\* append_bounded: a missing file is made, the end of one with room is looked
\* up, and a file that is full nevertheless is replaced by the record, in one
\* atomic step and without a warning.
OpenLog(w) ==
    /\ step[w].at = "rotated" /\ step[w].additional = RecordSize
    /\ CASE current = MISSING ->
                /\ NewFile(<<>>)
                /\ step' = [step EXCEPT ![w].at = "seeked", ![w].offset = 0]
                /\ UNCHANGED <<recorded, replaced, logLock>>
         [] Len(current) + RecordSize > LogLimit ->
                /\ recorded' = recorded + 1
                /\ NewFile(<<HEAD, recorded'>>)
                /\ replaced' = replaced \cup {current}
                /\ Release(w)
         [] OTHER ->
                /\ step' = [step EXCEPT ![w].at = "seeked", ![w].offset = Len(current)]
                /\ UNCHANGED <<current, inode, content, recorded, replaced, logLock>>
    /\ UNCHANGED <<archive, archiveInode, snapshot, follower>>

\* The file is not opened for appending: the record goes where the end was,
\* over what another program has written there since.
PutPiece(i, piece) ==
    IF i \in DOMAIN current
    THEN current' = [current EXCEPT ![i] = piece] /\ content' = content + 1
    ELSE current' = Append(current, piece) /\ UNCHANGED content

\* write_all, as a reader without the lock may see it: first a part of the
\* record, then the rest.
WriteHead(w) ==
    /\ step[w].at = "seeked"
    /\ PutPiece(step[w].offset + 1, HEAD)
    /\ Goto(w, "writing")
    /\ UNCHANGED <<archive, inode, archiveInode, recorded, replaced, logLock, snapshot, follower>>

WriteRest(w) ==
    /\ step[w].at = "writing"
    /\ recorded' = recorded + 1
    /\ PutPiece(step[w].offset + 2, recorded')
    /\ Release(w)
    /\ UNCHANGED <<archive, inode, archiveInode, replaced, snapshot, follower>>

\* Maintenance is over, or a step fails, or the process is killed: the lock is
\* given back at any point, in the middle of a record too.
WriterLeaves(w) ==
    /\ step[w] # Idle
    /\ Release(w)
    /\ UNCHANGED <<fileVars, snapshot, follower>>

\* The kernel does not let two writes to one file overlap.
LegacyAppend ==
    /\ \A w \in LogWriters : step[w].at # "writing"
    /\ IF current = MISSING THEN content < MaxFiles /\ NewFile(<<FOREIGN>>)
       ELSE /\ Len(SelectSeq(current, LAMBDA piece : piece = FOREIGN)) < MaxForeign
            /\ current' = Append(current, FOREIGN) /\ UNCHANGED <<inode, content>>
    /\ UNCHANGED <<archive, archiveInode, recorded, replaced, logLock, step, snapshot, follower>>

ReaderLock == logLock = FREE /\ logLock' = READER

\* read_with_metadata refuses a file over the limit.
InBounds(file) == Len(file) <= LogLimit

ReadArchive ==
    /\ follower = NotFollowing  \* bound: one kind of reader at a time
    /\ snapshot.whole /\ InBounds(archive)
    /\ ReaderLock
    /\ snapshot' = [whole |-> FALSE, log |-> archive]
    /\ UNCHANGED <<fileVars, step, follower>>

ReadCurrent ==
    /\ ~snapshot.whole /\ InBounds(current)
    /\ snapshot' = [whole |-> TRUE,
                    log |-> IF current = MISSING THEN snapshot.log ELSE snapshot.log \o current]
    /\ logLock' = IF logLock = READER THEN FREE ELSE logLock
    /\ UNCHANGED <<fileVars, step, follower>>

ReadRefused ==
    /\ ~snapshot.whole /\ ~InBounds(current)
    /\ snapshot' = NotRead
    /\ logLock' = IF logLock = READER THEN FREE ELSE logLock
    /\ UNCHANGED <<fileVars, step, follower>>

\* A poll that is not the first starts where the last one ended if the file has
\* the number it had then and has not shrunk; the first prints the tail.
\* Mutant of Start: only a file that shrank is taken for a new one.
StartBySize(end) ==
    CASE follower.inode # -1 /\ follower.size <= end -> follower.size
      [] OTHER -> 0

Start(end) ==
    CASE follower.inode = inode /\ follower.size <= end -> follower.size
      [] follower.inode = -1 ->
            CHOOSE start \in {0} \cup LineEnds(current) :
                LET lines == {i \in LineEnds(current) : i > start}
                IN IF start = 0 THEN Cardinality(lines) <= TailLines
                   ELSE Cardinality(lines) = TailLines
      [] OTHER -> 0

\* The records that pieces from..to hold whole.
Printed(from, to) ==
    LET part == SubSeq(current, from, to)
    IN Records(IF part # <<>> /\ part[1] > 0 THEN Tail(part) ELSE part)

\* A poll of `log -f`.  A record without its newline is left for the next one.
Follow ==
    /\ snapshot = NotRead
    /\ current # MISSING /\ InBounds(current)
    /\ LET end == LastEnd(current)
           start == Start(end)
       IN follower' =
            [inode |-> inode, content |-> content, size |-> end,
             printed |-> follower.printed \o Printed(start + 1, end),
             skipped |-> IF follower.inode = -1 THEN Pieces(SubSeq(current, 1, start))
                         ELSE follower.skipped,
             misled |-> follower.misled \/ (follower.inode = inode /\ follower.content # content)]
    /\ UNCHANGED <<fileVars, logLock, step, snapshot>>

LogNext ==
    \/ \E w \in LogWriters :
        \/ \E additional \in {0, RecordSize} : LockLog(w, additional)
        \/ Measure(w) \/ Warn(w) \/ ArchiveCurrent(w) \/ Recreate(w)
        \/ OpenLog(w) \/ WriteHead(w) \/ WriteRest(w) \/ WriterLeaves(w)
    \/ LegacyAppend \/ ReadArchive \/ ReadCurrent \/ ReadRefused \/ Follow

LogSpec == LogInit /\ [][LogNext]_eventLogVars
-----------------------------------------------------------------------------
(* Properties. *)

\* The pieces lost where append_bounded replaced a file.
LostPieces == UNION {Pieces(file) : file \in replaced}

\* The records of a log follow one another, unless a warning stands between
\* them or the records between them were dropped with a replaced file, or the
\* warning was.
Unbroken(log) ==
    \A i, j \in DOMAIN log :
        (i < j /\ log[i] > 0 /\ log[j] > 0 /\ \A k \in i + 1 .. j - 1 : log[k] \in {FOREIGN, HEAD}) =>
            /\ log[i] < log[j]
            /\ \/ log[i] + 1 .. log[j] - 1 \subseteq LostPieces
               \/ WARNING \in LostPieces

\* However writers fail between the steps of a rotation or of an append, what
\* is kept is the end of what was accepted, in its order.  A record is missing
\* from it in two cases, both the work of a program that writes without the
\* lock: rotate_log found the file over its limit, and a warning stands where
\* it was; or append_bounded found a file full that rotate_log had measured to
\* have room, and replaced it without a warning.
GapsAreForeign ==
    LET log == archive \o (IF current = MISSING THEN <<>> ELSE current)
        kept == Records(log)
    IN /\ Unbroken(log)
       /\ \/ IF kept = <<>> THEN recorded = 0 \/ Len(log) + RecordSize > LogLimit
             ELSE kept[Len(kept)] = recorded
          \/ WARNING \in Pieces(log)
       /\ \A file \in replaced : FOREIGN \in Pieces(file)

\* What `log --no-follow` prints is such a log too: it never sees a rotation
\* half done.
SnapshotIsWhole ==
    snapshot.whole => Unbroken(snapshot.log)

\* `log -f` prints records in order, none twice and each whole, although it
\* reads while they are written and the file is replaced by others of any size.
\* Of the file it polled last it has printed every record up to where it stopped
\* (or left it out of the first tail).  Two things mislead it: a new file with
\* the inode number of the one it polled before, and an append that wrote over
\* the line of another program.  The records of a file that was archived or
\* replaced since the last poll are not printed.
FollowerPrintsAll ==
    LET printed == follower.printed
    IN follower.misled \/
        /\ \A i, j \in DOMAIN printed : i < j => printed[i] < printed[j]
        /\ (follower.content = content /\ current # MISSING) =>
            /\ follower.size <= Len(current)
            /\ \A i \in 1 .. follower.size : current[i] > 0 =>
                    current[i] \in follower.skipped \cup Pieces(printed)

\* What the log keeps and its readers print of it: nothing out of order, nothing
\* in part, and gaps only where a program that ignores the lock made them or,
\* for `log -f`, where a file came and went between two polls.
LogIsComplete == GapsAreForeign /\ SnapshotIsWhole /\ FollowerPrintsAll
=============================================================================
