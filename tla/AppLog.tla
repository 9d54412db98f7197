------------------------------- MODULE AppLog -------------------------------
(***************************************************************************)
(* The file of the application log (internal/logging/file.go): lines are   *)
(* appended, a full file becomes the only backup, and every call to the    *)
(* file system may fail.  Nothing keeps two instances of the application,  *)
(* or two outputs of one configuration, from writing to the same file:     *)
(* each writer has its own handle, its own idea of the size and its own    *)
(* lock, and their steps interleave.  An instance may end at any point.    *)
(*                                                                         *)
(* A line is its number and its length.  A file is its lines, its size in  *)
(* bytes, how many of them came in after a rotation that failed, and how   *)
(* many of the others each writer put there; a part of a line whose write  *)
(* failed adds to the size only.                                           *)
(***************************************************************************)
EXTENDS Naturals, Sequences

CONSTANTS
    Writers,  \* the file outputs of the running instances
    Lengths,  \* lengths of lines
    MaxSize,  \* fileMaxSize
    MaxLines, \* bound: lines that are logged
    MaxFailures, \* bound: calls to the file system that fail
    None      \* no file

Files == [lines : Seq(Nat), bytes : Nat, extra : Nat, by : [Writers -> Nat]]
NoLines == [lines |-> <<>>, bytes |-> 0, extra |-> 0, by |-> [w \in Writers |-> 0]]

ASSUME LogAssumption ==
    /\ MaxSize \in Nat /\ MaxLines \in Nat /\ MaxFailures \in Nat
    /\ Lengths \subseteq Nat \ {0}
    /\ None \notin Files

VARIABLES
    file,   \* the log, or None
    backup, \* the backup, or None
    writer, \* writer[w]: what it is doing, where its handle leads, its size and line
    logged, \* how many lines were accepted; they are numbered
    shared, \* two writers ran at the same time
    failures \* how many calls to the file system failed

logVars == <<file, backup, writer, logged, shared, failures>>

Off == [pc |-> "off", at |-> "nowhere", size |-> 0, line |-> 0, failed |-> FALSE]

Bytes(f) == IF f = None THEN 0 ELSE f.bytes

LogInit ==
    /\ file = None /\ backup = None
    /\ writer = [w \in Writers |-> Off]
    /\ logged = 0
    /\ shared = FALSE
    /\ failures = 0

Goto(w, pc) == writer' = [writer EXCEPT ![w].pc = pc]

\* Write returns.
Done(x) == [x EXCEPT !.pc = "idle", !.line = 0, !.failed = FALSE]
Refuse(w) == writer' = [writer EXCEPT ![w] = Done(@)]

\* A call to the file system works, or fails.
Works == UNCHANGED failures
Fails == failures < MaxFailures /\ failures' = failures + 1

-----------------------------------------------------------------------------
\* Mutant of SizeAtOpen: the counter starts at zero, whatever is there.
SizeUnknown == 0

\* open asks for the size of what it appends to.
SizeAtOpen == Bytes(file)

\* Mutant of OpenedFile: the file is opened without O_APPEND and truncated.
TruncatedFile == NoLines

\* O_CREATE|O_APPEND.
OpenedFile == IF file = None THEN NoLines ELSE file

\* open succeeds.
Opened(w, pc) ==
    /\ file' = OpenedFile
    /\ writer' = [writer EXCEPT ![w].pc = pc, ![w].at = "file", ![w].size = SizeAtOpen]

\* open fails, which may be when the file has been created.
OpenFails == Fails /\ file' \in {file, OpenedFile}

\* An instance starts, Setup opens the output.  If that fails the instance runs
\* without the log.
Start(w) ==
    /\ writer[w].pc = "off" /\ logged < MaxLines
    /\ Opened(w, "idle") /\ Works
    /\ shared' = (shared \/ \E v \in Writers \ {w} : writer[v].pc # "off")
    /\ UNCHANGED <<backup, logged>>

\* Close, at the end of main; a line that comes later opens the file again.
Close(w) ==
    /\ writer[w].pc = "idle" /\ writer[w].at # "nowhere"
    /\ writer' = [writer EXCEPT ![w].at = "nowhere", ![w].size = 0]
    /\ UNCHANGED <<file, backup, logged, shared, failures>>

\* The instance ends, or dies between two steps of a rotation.
Exit(w) ==
    /\ writer[w].pc # "off"
    /\ writer' = [writer EXCEPT ![w] = Off]
    /\ UNCHANGED <<file, backup, logged, shared, failures>>

-----------------------------------------------------------------------------
\* Write.  The lock is the writer's own, so a writer has one line at a time.
Full(w, len) == writer[w].size + len > MaxSize

Write(w, len) ==
    /\ writer[w].pc = "idle" /\ logged < MaxLines
    /\ writer' = [writer EXCEPT ![w].line = len,
                                ![w].pc = IF writer[w].at = "nowhere" THEN "open"
                                          ELSE IF Full(w, len) THEN "close" ELSE "append"]
    /\ UNCHANGED <<file, backup, logged, shared, failures>>

\* The file is opened for the line, or the line is refused.
OpenForLine(w) ==
    /\ writer[w].pc = "open"
    /\ \/ Works /\ Opened(w, IF SizeAtOpen + writer[w].line > MaxSize THEN "close" ELSE "append")
       \/ OpenFails /\ Refuse(w)
    /\ UNCHANGED <<backup, logged, shared>>

\* rotate: the handle is given up, also when closing it fails.
CloseFull(w) ==
    /\ writer[w].pc = "close"
    /\ \E pc \in {"remove", "again"} :
          /\ writer' = [writer EXCEPT ![w].at = "nowhere", ![w].size = 0, ![w].pc = pc]
          /\ IF pc = "remove" THEN Works ELSE Fails
    /\ UNCHANGED <<file, backup, logged, shared>>

\* The handles that lead to one place lead to another; a file without a name
\* goes when its last handle does.
Moved(at, from, to) == IF at = from THEN to ELSE at

\* os.Remove of the backup, whose result is not looked at.
RemoveBackup(w) ==
    /\ writer[w].pc = "remove"
    /\ \/ /\ Works
          /\ backup' = None
          /\ writer' = [v \in Writers |->
                [writer[v] EXCEPT !.at = Moved(@, "backup", "unlinked"),
                                  !.pc = IF v = w THEN "rename" ELSE @]]
       \/ Fails /\ Goto(w, "rename") /\ UNCHANGED backup
    /\ UNCHANGED <<file, logged, shared>>

\* os.Rename; that there is nothing to rename is no failure.
RenameFile(w) ==
    /\ writer[w].pc = "rename"
    /\ \/ /\ file # None /\ Works
          /\ file' = None /\ backup' = file
          /\ writer' = [v \in Writers |->
                [writer[v] EXCEPT !.at = Moved(Moved(@, "backup", "unlinked"), "file", "backup"),
                                  !.pc = IF v = w THEN "fresh" ELSE @]]
       \/ file = None /\ Works /\ Goto(w, "fresh") /\ UNCHANGED <<file, backup>>
       \/ Fails /\ Goto(w, "again") /\ UNCHANGED <<file, backup>>
    /\ UNCHANGED <<logged, shared>>

\* open at the end of rotate.
OpenFresh(w) ==
    /\ writer[w].pc = "fresh"
    /\ \/ Works /\ Opened(w, "append")
       \/ OpenFails /\ Goto(w, "again")
    /\ UNCHANGED <<backup, logged, shared>>

\* After a rotation that failed the line goes into the file as it is, or is
\* refused.
OpenAgain(w) ==
    /\ writer[w].pc = "again"
    /\ \/ /\ Works
          /\ file' = OpenedFile
          /\ writer' = [writer EXCEPT ![w].pc = "append", ![w].at = "file", ![w].size = SizeAtOpen,
                                      ![w].failed = TRUE]
       \/ OpenFails /\ Refuse(w)
    /\ UNCHANGED <<backup, logged, shared>>

\* What writer w adds to a file: bytes, and lines.
Added(w, f, lines, len) ==
    [lines |-> f.lines \o lines, bytes |-> f.bytes + len,
     extra |-> IF writer[w].failed THEN f.extra + len ELSE f.extra,
     by |-> [f.by EXCEPT ![w] = IF writer[w].failed THEN @ ELSE @ + len]]

\* The bytes go where the handle leads.
Put(w, lines, len) ==
    /\ file' = IF writer[w].at = "file" THEN Added(w, file, lines, len) ELSE file
    /\ backup' = IF writer[w].at = "backup" THEN Added(w, backup, lines, len) ELSE backup
    /\ writer' = [writer EXCEPT ![w] = [Done(writer[w]) EXCEPT !.size = @ + len]]

AppendLine(w) ==
    /\ writer[w].pc = "append" /\ logged < MaxLines
    /\ logged' = logged + 1
    /\ Put(w, <<logged'>>, writer[w].line)
    /\ Works /\ UNCHANGED shared

\* The disk is full: a part of the line was written, or nothing.
AppendFails(w) ==
    /\ writer[w].pc = "append"
    /\ Fails
    /\ \/ \E len \in 1..(writer[w].line - 1) : Put(w, <<>>, len)
       \/ Refuse(w) /\ UNCHANGED <<file, backup>>
    /\ UNCHANGED <<logged, shared>>

WriterStep(w) ==
    \/ Start(w) \/ Close(w) \/ Exit(w)
    \/ \E len \in Lengths : Write(w, len)
    \/ OpenForLine(w) \/ CloseFull(w) \/ RemoveBackup(w) \/ RenameFile(w)
    \/ OpenFresh(w) \/ OpenAgain(w) \/ AppendLine(w) \/ AppendFails(w)

LogNext == \E w \in Writers : WriterStep(w)

LogSpec == LogInit /\ [][LogNext]_logVars

-----------------------------------------------------------------------------
Lines(f) == IF f = None THEN <<>> ELSE f.lines
OnDisk == Lines(backup) \o Lines(file)

\* With one writer at a time the newest lines are on the disk, in order and
\* without a gap, and at least a file's worth of them less one line, whatever
\* failed and wherever an instance ended (rotate keeps one backup).
NewestKept ==
    ~shared =>
        LET lost == logged - Len(OnDisk) IN
        /\ \A i \in 1..Len(OnDisk) : OnDisk[i] = lost + i
        /\ lost # 0 => \E len \in Lengths : Bytes(backup) + Bytes(file) + len > MaxSize

\* What fits a file: the limit, or one line that is longer.
Fits(bytes) == bytes <= MaxSize \/ \E len \in Lengths : bytes <= len

\* A file outgrows the limit only by the lines of rotations that failed.
\* Writers that share the log know nothing of each other's lines: each fills
\* the file once, and no more (Write).
DiskBounded ==
    \A f \in {file, backup} \ {None} :
        /\ \A w \in Writers : Fits(f.by[w])
        /\ ~shared => \E bytes \in 0..f.bytes : Fits(bytes) /\ f.bytes = bytes + f.extra
=============================================================================
