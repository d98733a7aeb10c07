--------------------------- MODULE CompactionRace ---------------------------
(***************************************************************************)
(* Two runs of zr-log-compact, jobs A and B, started on the same target    *)
(* snapshot path while the peer's log moves.  Each job is the LogCompact   *)
(* model of the tool; they share the target file, the peer and the         *)
(* directory of the target, in which each job's SnapshotFile creates its   *)
(* temporary file (createTempName(targetFile), lines 123, 136, 141).       *)
(*                                                                         *)
(* What the composition adds is what the jobs do to each other's files:    *)
(* the rename of line 153 fails when the job's temporary file is gone,     *)
(* and cleanupTempFiles(targetFile) at line 154 removes every temporary    *)
(* file of the target, the other job's included.                           *)
(***************************************************************************)
EXTENDS Integers, Sequences

CONSTANTS MaxLog, MaxTerm, SegSize, Options

\* The bounds of the peer's log, as each job's LogCompact model assumes them.
ASSUME RaceAssumption ==
    /\ MaxLog \in Nat \ {0} /\ MaxTerm \in Nat \ {0} /\ SegSize \in Nat \ {0}

VARIABLES
    pcA, optA, exitA, lastIndexA, lastTermA, fedA, tempA, printedA,
    pcB, optB, exitB, lastIndexB, lastTermB, fedB, tempB, printedB,
    target, log, commit, pruneIndex, term,
    dir          \* the jobs whose temporary file is in the target's directory

aVars == <<pcA, optA, exitA, lastIndexA, lastTermA, fedA, tempA, printedA>>
bVars == <<pcB, optB, exitB, lastIndexB, lastTermB, fedB, tempB, printedB>>
raftVars == <<log, commit, pruneIndex, term>>
vars == <<aVars, bVars, target, raftVars, dir>>

A == INSTANCE LogCompact WITH pc <- pcA, opt <- optA, exitCode <- exitA,
        lastIndex <- lastIndexA, lastTerm <- lastTermA, fed <- fedA,
        temp <- tempA, printed <- printedA

B == INSTANCE LogCompact WITH pc <- pcB, opt <- optB, exitCode <- exitB,
        lastIndex <- lastIndexB, lastTerm <- lastTermB, fed <- fedB,
        temp <- tempB, printed <- printedB

NoFile == A!NoFile

Init == A!Init /\ B!Init /\ dir = {}

\* new SnapshotFile(createTempName(targetFile), ...) creates job j's file.
Creates(j, temp) == dir' = IF temp = NoFile /\ temp' # NoFile
                           THEN dir \cup {j} ELSE dir

(***************************************************************************)
(* tempSnapshot.replace(targetFile) renames the job's temporary file onto  *)
(* the target.  When the file is no longer there the rename rejects with   *)
(* ENOENT, which reaches the final catch: exit 1.                          *)
(***************************************************************************)
Rename(j, replace) ==
    /\ j \in dir
    /\ replace
    /\ dir' = dir \ {j}

RenameFails(j, pc, exit, frame) ==
    /\ pc = "replace"
    /\ j \notin dir
    /\ exit
    /\ UNCHANGED <<frame, target, raftVars, dir>>

\* cleanupTempFiles(targetFile) removes every temporary file of the target.
CleanupTempFiles(cleanup) == cleanup /\ dir' = {}

\* A step of job A; job B's state is left alone.
StepA ==
    /\ UNCHANGED bVars
    /\ \/ /\ \/ A!Start \/ A!PeerAnswers \/ A!PeerFails \/ A!FeedEntry
             \/ A!FeedDone \/ A!ListPruneFiles \/ A!Finish
          /\ UNCHANGED dir
       \/ (A!TermLookup \/ A!WriteSnapshot) /\ Creates("A", tempA)
       \/ Rename("A", A!Replace)
       \/ RenameFails("A", pcA, A!Exit(1),
                      <<optA, lastIndexA, lastTermA, fedA, tempA, printedA>>)
       \/ CleanupTempFiles(A!Cleanup)

\* A step of job B; job A's state is left alone.
StepB ==
    /\ UNCHANGED aVars
    /\ \/ /\ \/ B!Start \/ B!PeerAnswers \/ B!PeerFails \/ B!FeedEntry
             \/ B!FeedDone \/ B!ListPruneFiles \/ B!Finish
          /\ UNCHANGED dir
       \/ (B!TermLookup \/ B!WriteSnapshot) /\ Creates("B", tempB)
       \/ Rename("B", B!Replace)
       \/ RenameFails("B", pcB, B!Exit(1),
                      <<optB, lastIndexB, lastTermB, fedB, tempB, printedB>>)
       \/ CleanupTempFiles(B!Cleanup)

\* The peer: A's peer steps, which leave both jobs and the directory alone.
PeerStep == A!Peer /\ UNCHANGED <<bVars, dir>>

Next == StepA \/ StepB \/ PeerStep

Spec == Init /\ [][Next]_vars

-----------------------------------------------------------------------------
(***************************************************************************)
(* Whichever job renames last, the target holds the committed log up to    *)
(* its index: the failed renames and the removed temporary files of two    *)
(* overlapping runs never put anything else at the target (lines 99-103,   *)
(* 111-154).                                                               *)
(***************************************************************************)
SnapshotOfCommittedLog == A!SnapshotOfCommittedLog

(***************************************************************************)
(* A job's temporary snapshot stays in the directory from its creation to  *)
(* its own rename: the spec makes snapshot temp files exclusive per        *)
(* compaction job (spec.md 162).  About cleanupTempFiles at line 154.      *)
(***************************************************************************)
TempFilesExclusive ==
    /\ pcA = "replace" => "A" \in dir
    /\ pcB = "replace" => "B" \in dir

(***************************************************************************)
(* Every log file either job listed for pruning is covered by the snapshot *)
(* at the target, so deleting the listed files loses nothing.  About the   *)
(* rename of line 153, which replaces whatever snapshot is there, and the  *)
(* listing of lines 156-158 against the job's own index.                   *)
(***************************************************************************)
PrunedFilesCovered ==
    \A f \in printedA \cup printedB :
        target # NoFile /\ A!LastOfFile(f) =< target.index
=============================================================================
