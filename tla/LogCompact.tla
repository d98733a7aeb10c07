------------------------------ MODULE LogCompact ------------------------------
(***************************************************************************)
(* The log compaction tool bin/zr-log-compact.js (src/bin) run against the *)
(* log directory of a live Raft peer.  The tool checks its options, finds  *)
(* the compaction index (given with -i, or min(commitIndex, pruneIndex)    *)
(* asked of the leader), looks up the term of that entry, feeds the log up *)
(* to it into the state machine, writes a temporary snapshot, renames it   *)
(* onto the target, removes stale temporaries and lists the log files that *)
(* the snapshot makes obsolete.  Meanwhile the peer appends entries,       *)
(* commits them, and a new leader may cut off its uncommitted suffix.      *)
(*                                                                         *)
(* An entry is identified by its index and its term (Raft's log matching), *)
(* so a log is the sequence of the terms of its entries and a snapshot     *)
(* records the terms of the entries it was fed.                            *)
(***************************************************************************)
EXTENDS Integers, Sequences

CONSTANTS
    MaxLog,     \* bound on the length of the peer's log
    MaxTerm,    \* bound on the term
    SegSize,    \* entries per log file
    Options     \* the command lines and configurations the tool is run with

ASSUME LogAssumption ==
    /\ MaxLog \in Nat \ {0} /\ MaxTerm \in Nat \ {0} /\ SegSize \in Nat \ {0}

VARIABLES
    pc,          \* the step of the tool's promise chain
    opt,         \* the options of this run
    exitCode,    \* the process exit status, Running until it exits
    lastIndex,   \* the compaction index
    lastTerm,    \* fileLog.termAt(lastIndex)
    fed,         \* terms of the entries fed to the state machine so far
    temp,        \* the temporary snapshot file
    target,      \* the snapshot file at the target path
    printed,     \* the log files listed for pruning
    log,         \* the peer's log: the term of each entry
    commit,      \* the cluster's commit index
    pruneIndex,  \* the leader's prune index
    term         \* the current term

toolVars == <<pc, opt, exitCode, lastIndex, lastTerm, fed, temp, target, printed>>
raftVars == <<log, commit, pruneIndex, term>>
vars == <<toolVars, raftVars>>

Running == -1
NoIndex == -1
NoFile == [index |-> NoIndex, term |-> 0, data |-> <<>>]
Steps == {"start", "asking", "ready", "feed", "snapshot", "replace",
          "cleanup", "prune", "close", "exited"}

\* What the state machine can make a snapshot from (lines 122, 135, 139).
SnapshotKinds == {"readStream", "createStream", "serialize", "none"}

MinOf(a, b) == IF a =< b THEN a ELSE b

-----------------------------------------------------------------------------
(***************************************************************************)
(* An option that may be absent is a sequence of at most one value: -z,    *)
(* the compressionLevel of the configured state machine options, and -i    *)
(* (absent also when not a number or negative).  A level that is not a     *)
(* number (NaN) is written -1: both fail the same check.                   *)
(***************************************************************************)
Given(x) == x # <<>>

(***************************************************************************)
(* mergeSmOptions: the compressionLevel is -z when given, else that of the *)
(* configured options, else Z_BEST_COMPRESSION (9); anything but a number  *)
(* in 0..9 exits with 7.  Unless -U is given and the configured options    *)
(* set no unzipSnapshot, `options.compressionLevel` is read from the       *)
(* configured options themselves, which throws when there are none.        *)
(***************************************************************************)
ZipLevel(o) ==
    IF Given(o.zip) THEN o.zip[1]
    ELSE IF o.smOpts /\ Given(o.smLevel) THEN o.smLevel[1] ELSE 9

ZipValid(o) == ZipLevel(o) \in 0..9

MergeThrows(o) == o.unzip /\ ~o.smOpts

\* An explicit -i is used when isFinite(opts.index) && opts.index >= 0.
HasIndex(o) == Given(o.index)

(***************************************************************************)
(* The checks of the readConfig callback, in the order the code makes      *)
(* them; each one ends the process.  An exception (the TypeError of        *)
(* mergeSmOptions) reaches the final catch and exits with 1.               *)
(***************************************************************************)
StartExit(o) ==
    CASE ~o.root                      -> 8
      [] ~o.target                    -> 2
      [] ~o.sm                        -> 3
      [] ~HasIndex(o) /\ ~o.peer      -> 4
      [] ~ZipValid(o)                 -> 7
      [] MergeThrows(o)               -> 1
      [] OTHER                        -> Running

\* fileLog.termAt: the term of an entry of the log, undefined otherwise.
TermAt(i) == IF i \in 1..Len(log) THEN log[i] ELSE 0

\* The log file holding index i: files are named by their first index, so
\* their names sort as their numbers do.
FileOf(i) == (i - 1) \div SegSize
LogFiles == {FileOf(i) : i \in 1..Len(log)}
LastOfFile(f) == (f + 1) * SegSize

-----------------------------------------------------------------------------
Init ==
    /\ pc = "start"
    /\ opt \in Options
    /\ exitCode = Running
    /\ lastIndex = NoIndex
    /\ lastTerm = 0
    /\ fed = <<>>
    /\ temp = NoFile
    /\ target = NoFile
    /\ printed = {}
    /\ log = <<>>
    /\ commit = 0
    /\ pruneIndex = 0
    /\ term = 1

\* process.exit(status): the tool stops where it is.
Exit(status) ==
    /\ pc' = "exited"
    /\ exitCode' = status

(***************************************************************************)
(* The readConfig callback up to the creation of the state machine: the    *)
(* option checks, then either the explicit index or a requestLogInfo sent  *)
(* to the peer.                                                            *)
(***************************************************************************)
Start ==
    /\ pc = "start"
    /\ IF StartExit(opt) # Running
       THEN Exit(StartExit(opt)) /\ UNCHANGED lastIndex
       ELSE /\ pc' = IF HasIndex(opt) THEN "ready" ELSE "asking"
            /\ lastIndex' = IF HasIndex(opt) THEN opt.index[1] ELSE NoIndex
            /\ UNCHANGED exitCode
    /\ UNCHANGED <<opt, lastTerm, fed, temp, target, printed, raftVars>>

\* Mutant: the compaction index is the leader's last log index.
AskedIndexLast == Len(log)

\* Mutant: the compaction index is the leader's commit index alone.
AskedIndexCommit == commit

\* The leader's answer: Math.min(commitIndex, pruneIndex).
AskedIndex == MinOf(commit, pruneIndex)

\* The leader answers requestLogInfo.
PeerAnswers ==
    /\ pc = "asking"
    /\ pc' = "ready"
    /\ lastIndex' = AskedIndex
    /\ UNCHANGED <<opt, exitCode, lastTerm, fed, temp, target, printed,
                   raftVars>>

\* requestLogInfo rejects (no answer within 5 s): the final catch.
PeerFails ==
    /\ pc = "asking"
    /\ Exit(1)
    /\ UNCHANGED <<opt, lastIndex, lastTerm, fed, temp, target, printed,
                   raftVars>>

(***************************************************************************)
(* The log, the index and the target directory are ready: look up the term *)
(* of the entry at lastIndex (exit 5 when there is none); a state machine  *)
(* with a snapshotReadStream gets its temporary snapshot file now.         *)
(***************************************************************************)
TermLookup ==
    /\ pc = "ready"
    /\ IF TermAt(lastIndex) = 0
       THEN Exit(5) /\ UNCHANGED <<lastTerm, temp>>
       ELSE /\ pc' = "feed"
            /\ lastTerm' = TermAt(lastIndex)
            /\ temp' = IF opt.kind = "readStream"
                       THEN [index |-> lastIndex, term |-> TermAt(lastIndex),
                             data |-> <<>>]
                       ELSE temp
            /\ UNCHANGED exitCode
    /\ UNCHANGED <<opt, lastIndex, fed, target, printed, raftVars>>

\* feedStateMachine applies the next entry of the log.
FeedEntry ==
    /\ pc = "feed"
    /\ Len(fed) < lastIndex
    /\ Len(fed) < Len(log)
    /\ fed' = Append(fed, log[Len(fed) + 1])
    /\ UNCHANGED <<pc, opt, exitCode, lastIndex, lastTerm, temp, target,
                   printed, raftVars>>

(***************************************************************************)
(* feedStateMachine resolves with the state machine's lastApplied: the     *)
(* compaction goes on when it is lastIndex, and the assert throws (exit 1) *)
(* when the log ended before it.                                           *)
(***************************************************************************)
FeedDone ==
    /\ pc = "feed"
    /\ Len(fed) = lastIndex \/ Len(fed) >= Len(log)
    /\ IF Len(fed) = lastIndex
       THEN pc' = "snapshot" /\ UNCHANGED exitCode
       ELSE Exit(1)
    /\ UNCHANGED <<opt, lastIndex, lastTerm, fed, temp, target, printed,
                   raftVars>>

(***************************************************************************)
(* The snapshot data is complete: from the snapshotReadStream fed along,   *)
(* from createSnapshotReadStream or from serialize; a state machine with   *)
(* none of them exits with 6.  The state machine is closed with it.        *)
(***************************************************************************)
WriteSnapshot ==
    /\ pc = "snapshot"
    /\ IF temp = NoFile /\ opt.kind \notin {"createStream", "serialize"}
       THEN Exit(6) /\ UNCHANGED temp
       ELSE /\ pc' = "replace"
            /\ temp' = [index |-> lastIndex, term |-> lastTerm, data |-> fed]
            /\ UNCHANGED exitCode
    /\ UNCHANGED <<opt, lastIndex, lastTerm, fed, target, printed, raftVars>>

\* tempSnapshot.replace(targetFile): the rename onto the target.
Replace ==
    /\ pc = "replace"
    /\ pc' = "cleanup"
    /\ target' = temp
    /\ temp' = NoFile
    /\ UNCHANGED <<opt, exitCode, lastIndex, lastTerm, fed, printed, raftVars>>

\* cleanupTempFiles and tempSnapshot.close().
Cleanup ==
    /\ pc = "cleanup"
    /\ pc' = "prune"
    /\ UNCHANGED <<opt, exitCode, lastIndex, lastTerm, fed, temp, target,
                   printed, raftVars>>

\* Mutant: the file holding lastIndex is listed as well.
PrunableUpTo(f, last) == f =< last

\* listPruneFiles keeps the files whose name sorts before lastName.
Prunable(f, last) == f < last

(***************************************************************************)
(* listPruneFiles (unless -N): find the file holding lastIndex and print   *)
(* every log file whose name sorts before it; nothing when no file holds   *)
(* it.                                                                     *)
(***************************************************************************)
ListPruneFiles ==
    /\ pc = "prune"
    /\ pc' = "close"
    /\ printed' = IF opt.prune /\ lastIndex \in 1..Len(log)
                  THEN {f \in LogFiles : Prunable(f, FileOf(lastIndex))}
                  ELSE printed
    /\ UNCHANGED <<opt, exitCode, lastIndex, lastTerm, fed, temp, target,
                   raftVars>>

\* fileLog.close(); the process ends with status 0.
Finish ==
    /\ pc = "close"
    /\ Exit(0)
    /\ UNCHANGED <<opt, lastIndex, lastTerm, fed, temp, target, printed,
                   raftVars>>

Tool ==
    \/ Start \/ PeerAnswers \/ PeerFails \/ TermLookup \/ FeedEntry
    \/ FeedDone \/ WriteSnapshot \/ Replace \/ Cleanup \/ ListPruneFiles
    \/ Finish

-----------------------------------------------------------------------------
(***************************************************************************)
(* The peer (lib/server, not under src/): the leader appends entries of    *)
(* its term and commits them, and a new leader may truncate the            *)
(* uncommitted suffix; the prune index never passes the commit index.     *)
(***************************************************************************)
AppendEntry ==
    /\ Len(log) < MaxLog
    /\ log' = Append(log, term)
    /\ UNCHANGED <<toolVars, commit, pruneIndex, term>>

CommitEntries ==
    /\ \E c \in (commit + 1)..Len(log) : commit' = c
    /\ UNCHANGED <<toolVars, log, pruneIndex, term>>

NewLeader ==
    /\ term < MaxTerm
    /\ term' = term + 1
    /\ \E k \in commit..Len(log) : log' = SubSeq(log, 1, k)
    /\ UNCHANGED <<toolVars, commit, pruneIndex>>

AdvancePrune ==
    /\ \E p \in (pruneIndex + 1)..commit : pruneIndex' = p
    /\ UNCHANGED <<toolVars, log, commit, term>>

Peer == AppendEntry \/ CommitEntries \/ NewLeader \/ AdvancePrune

Next == Tool \/ Peer

Spec == Init /\ [][Next]_vars

-----------------------------------------------------------------------------
(***************************************************************************)
(* The snapshot the tool installs holds the committed log up to its index, *)
(* and its header carries the term of the entry at that index, however the *)
(* peer's log moves while the tool reads it.  About the compaction index   *)
(* (lines 91-103) and the reads of termAt and feedStateMachine racing the  *)
(* peer's appends and truncations.                                         *)
(***************************************************************************)
SnapshotOfCommittedLog ==
    target # NoFile =>
        /\ target.index =< commit
        /\ target.data = SubSeq(log, 1, target.index)
        /\ target.term = log[target.index]

(***************************************************************************)
(* Every log file listed for pruning holds only entries the installed      *)
(* snapshot covers, so deleting them loses nothing.  About the name        *)
(* comparison of listPruneFiles.                                           *)
(***************************************************************************)
PrunedFilesCovered ==
    \A f \in printed : target # NoFile /\ LastOfFile(f) =< target.index

(***************************************************************************)
(* The tool implements its promise (module Compaction): with the promise   *)
(* chain, the temporary file and the fed state machine hidden, a run is    *)
(* one installation of the snapshot of a committed prefix within the       *)
(* prune index the leader reported, then one listing of files it covers,   *)
(* and the peer's steps are Raft steps.  About the chain of lines 111-159  *)
(* as a whole: the index asked at line 100, the term looked up at 115, the *)
(* feed at 128 and the rename at 153 happen at different times, and the    *)
(* installation must still be that of one committed snapshot.              *)
(***************************************************************************)
Abstract == INSTANCE Compaction

CompactionRefined == Abstract!Spec
=============================================================================
