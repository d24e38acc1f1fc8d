---------------------------- MODULE LogRotation ----------------------------
(***************************************************************************)
(* The log file the processes of an application share (logger.cpp,         *)
(* FileTarget): every process writes and follows it under a shared flock,  *)
(* one of them rotates it under the exclusive one, and compresses the file *)
(* moved away with no lock held.  Any process may die between two steps,   *)
(* and logrotate may move the file.                                        *)
(*                                                                         *)
(* `lg.names' is the directory: what inode each name is; a file is the set *)
(* of the lines in it, its size their number.  A failure that the code     *)
(* passes over, that of the open() in follow_path(), is there if `Unseen'. *)
(***************************************************************************)
EXTENDS Naturals, FiniteSets

CONSTANTS Writer,
          Inodes,        \* numbers of files, reused once nothing holds them
          MaxSize,       \* log.max_size, in lines
          MaxBackups,    \* log.keep
          MaxLines,      \* bound: lines written
          MaxMishaps,    \* bound: deaths, failed opens and compressions, files moved
          Unseen         \* whether open() may fail in follow_path()

NoFile == 0

ASSUME LogConstants ==
    /\ Inodes # {} /\ NoFile \notin Inodes
    /\ MaxSize \in Nat /\ MaxBackups \in Nat \ {0}
    /\ MaxLines \in Nat /\ MaxMishaps \in Nat /\ Unseen \in BOOLEAN

VARIABLE lg

Log == <<"log", 0>>
Backup(i, ext) == <<ext, i>>
Staged(n) == <<"staged", n>>
StagedGz(n) == <<"staged.gz", n>>
Moved == <<"moved", 0>>

Kinds == {"plain", "gz"}
Names == {Log, Moved} \cup {Backup(i, e) : i \in 1..MaxBackups, e \in Kinds}
         \cup {Staged(n) : n \in Inodes} \cup {StagedGz(n) : n \in Inodes}

NamedFiles(x) == {x.names[n] : n \in Names} \ {NoFile}
Unused(x) == Inodes \ (NamedFiles(x) \cup {x.fd[p] : p \in Writer})
UnusedInode(x) == CHOOSE n \in Unused(x) : TRUE

\* The lines that are somewhere in the directory.
Kept(x) == UNION {x.lines[n] : n \in NamedFiles(x)}

Fault(x) == [x EXCEPT !.faults = @ + 1]
MayFail(x) == x.faults < MaxMishaps

\* rename(): what had the new name is gone with it.
Rename(x, from, to) ==
    IF x.names[from] = NoFile THEN x
    ELSE [x EXCEPT !.names[to] = x.names[from], !.names[from] = NoFile]

Unlink(x, n) == [x EXCEPT !.names[n] = NoFile]

\* open(O_CREAT) of the path.
Creates(x) ==
    IF x.names[Log] # NoFile THEN x
    ELSE LET n == UnusedInode(x)
         IN  [x EXCEPT !.names[Log] = n, !.lines[n] = {}]

\* try_open_file(): the size is the file's.
Opens(x, p) ==
    LET u == Creates(x)
    IN  [u EXCEPT !.fd[p] = u.names[Log], !.size[p] = Cardinality(u.lines[u.names[Log]])]

----------------------------------------------------------------------------
(* flock(): shared by many or held by one.                                 *)

MayShare(p) == \A q \in Writer \ {p} : lg.lock[q] # "ex"
MayExclude(p) == \A q \in Writer \ {p} : lg.lock[q] = "none"

At(p, pc) == lg.pc[p] = pc
Goes(x, p, pc) == [x EXCEPT !.pc[p] = pc]
Locks(x, p, l) == [x EXCEPT !.lock[p] = l]
Stages(x, p, n) == [x EXCEPT !.staged[p] = n]
Closes(x, p) == [x EXCEPT !.fd[p] = NoFile]
Drops(x, some) == [x EXCEPT !.dropped = @ \cup some]

\* follow_path(): to open the file that is open already comes to the same.  When
\* open() fails the process goes on with what it has.
Follows(x, p) ==
    {Opens(x, p)} \cup {u \in {Fault(x)} : Unseen /\ MayFail(x) /\ x.names[Log] # x.fd[p]}

Full(x, p) == x.size[p] >= MaxSize

\* write(): the shared lock, the file followed; full, the lock is converted, which
\* gives it up first.
BeginsWrite(p) ==
    /\ At(p, "idle") /\ lg.next <= MaxLines /\ MayShare(p)
    /\ \E u \in Follows(lg, p) :
           lg' = IF Full(u, p) THEN Goes(u, p, "converts")
                 ELSE Goes(Locks(u, p, "sh"), p, "writes")

\* Mutant: the file is not followed again once the lock is had.
ExcludesBlindly(p) ==
    /\ At(p, "converts") /\ MayExclude(p)
    /\ lg' = Goes(Locks(lg, p, "ex"), p, IF Full(lg, p) THEN "rotates" ELSE "writes")

\* The exclusive lock: another process may have rotated the file meanwhile.
Excludes(p) ==
    /\ At(p, "converts") /\ MayExclude(p)
    /\ \E u \in Follows(lg, p) :
           lg' = Goes(Locks(u, p, "ex"), p, IF Full(u, p) THEN "rotates" ELSE "writes")

\* shift_backups(): the oldest goes, the others move up.
Shifted(x, e) ==
    [x EXCEPT !.names = [n \in Names |->
        IF n[1] # e THEN x.names[n]
        ELSE IF n[2] = 1 THEN NoFile ELSE x.names[Backup(n[2] - 1, e)]]]

Shift(x, e) == Drops(Shifted(x, e), Kept(x) \ Kept(Shifted(x, e)))

\* rotate(): the file is moved away, unless logrotate has done so, ...
Rotates(p) ==
    LET there == lg.names[Log] # NoFile
        x == IF lg.compress THEN lg ELSE Shift(lg, "plain")
    IN  /\ At(p, "rotates")
        /\ \/ ~there /\ lg' = Goes(x, p, "writes")
           \/ /\ there /\ lg.compress
              /\ lg' = Goes(Stages(Rename(x, Log, Staged(lg.fd[p])), p, lg.fd[p]), p, "opens")
           \/ /\ there /\ ~lg.compress
              /\ lg' = Goes(Rename(x, Log, Backup(1, "plain")), p, "opens")

\* ... and a new one opened, or the old one put back.
OpensNew(p, ok) ==
    LET old == IF lg.compress THEN Staged(lg.fd[p]) ELSE Backup(1, "plain")
    IN  /\ At(p, "opens")
        /\ \/ ok /\ lg' = Goes(Opens(lg, p), p, "writes")
           \/ /\ ~ok /\ MayFail(lg)
              /\ lg' = Goes(Stages(Rename(Fault(lg), old, Log), p, NoFile), p, "writes")

Adds(x, p) ==
    [x EXCEPT !.lines[x.fd[p]] = @ \cup {x.next}, !.next = @ + 1, !.size[p] = @ + 1]

Writes(p) ==
    /\ At(p, "writes")
    /\ lg' = Goes(Locks(Adds(lg, p), p, "none"), p,
                  IF lg.staged[p] # NoFile THEN "compresses" ELSE "idle")

\* finish_rotation(): the copy is made with no lock held; ...
Copies(x, from, to) ==
    LET n == UnusedInode(x) IN [x EXCEPT !.names[to] = n, !.lines[n] = x.lines[x.names[from]]]

Compresses(p, ok) ==
    LET s == lg.staged[p]
        there == lg.names[Staged(s)] # NoFile
    IN  /\ At(p, "compresses")
        /\ \/ ok /\ there /\ lg' = Goes(Copies(lg, Staged(s), StagedGz(s)), p, "finishes")
           \/ ~ok /\ there /\ MayFail(lg) /\ lg' = Goes(Fault(lg), p, "gives up")
           \/ ~ok /\ ~there /\ lg' = Goes(lg, p, "gives up")

\* ... it takes its place in the chain under the lock, or the file itself does,
\* over what the name held.
FinishesRotation(p) ==
    LET s == lg.staged[p]
        u == Shift(lg, "gz")
        v == IF At(p, "finishes")
             THEN Unlink(Rename(u, StagedGz(s), Backup(1, "gz")), Staged(s))
             ELSE Rename(Drops(Unlink(u, StagedGz(s)), lg.lines[lg.names[Backup(1, "plain")]]),
                         Staged(s), Backup(1, "plain"))
    IN  /\ At(p, "finishes") \/ At(p, "gives up")
        /\ MayExclude(p)
        /\ lg' = Goes(Stages(v, p, NoFile), p, "idle")

----------------------------------------------------------------------------
\* SIGUSR1: reopen().
Reopens(p) ==
    /\ At(p, "idle")
    /\ lg' = Opens(Closes(lg, p), p)

\* logrotate moves the file.
MovedAway ==
    /\ MayFail(lg) /\ lg.names[Log] # NoFile /\ lg.names[Moved] = NoFile
    /\ lg' = Rename(Fault(lg), Log, Moved)

\* A process dies; its locks and descriptors go with it, and a new one starts.
WriterDies(p) ==
    /\ MayFail(lg) /\ lg.pc[p] # "idle"
    /\ lg' = Opens(Goes(Locks(Stages(Closes(Fault(lg), p), p, NoFile), p, "none"), p, "idle"), p)

----------------------------------------------------------------------------
FirstFile == CHOOSE n \in Inodes : TRUE

NewLog(z) ==
    [ names |-> [n \in Names |-> IF n = Log THEN FirstFile ELSE NoFile],
      lines |-> [n \in Inodes \cup {NoFile} |-> {}],
      fd |-> [p \in Writer |-> FirstFile], size |-> [p \in Writer |-> 0],
      lock |-> [p \in Writer |-> "none"], pc |-> [p \in Writer |-> "idle"],
      staged |-> [p \in Writer |-> NoFile],
      next |-> 1, dropped |-> {}, faults |-> 0, compress |-> z ]

RotationInit == \E z \in BOOLEAN : lg = NewLog(z)

\* Inodes is a bound too: one is free for the next file.
RotationNext ==
    /\ Unused(lg) # {}
    /\ \/ \E p \in Writer : \/ BeginsWrite(p) \/ Excludes(p) \/ Rotates(p) \/ Writes(p)
                          \/ FinishesRotation(p) \/ Reopens(p) \/ WriterDies(p)
       \/ \E p \in Writer, ok \in BOOLEAN : OpensNew(p, ok) \/ Compresses(p, ok)
       \/ MovedAway

RotationSpec == RotationInit /\ [][RotationNext]_lg

----------------------------------------------------------------------------
(* Properties.                                                             *)

\* No line is lost to a rotation: every line a process wrote is in the log, in a
\* backup, in a file still to be compressed, or went with the oldest backup, with
\* any number of processes writing, rotating, compressing and dying ("no process
\* writes into a file that is being rotated, and one rotation yields one backup").
NoLineLost == 1..(lg.next - 1) \subseteq Kept(lg) \cup lg.dropped
=============================================================================
