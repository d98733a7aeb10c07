------------------------ MODULE CompactionRaceProofs ------------------------
(***************************************************************************)
(* Proof that two overlapping runs of zr-log-compact on one target path    *)
(* still only ever install a snapshot of the committed log, for every log  *)
(* size, term bound and segment size.  Each job keeps the invariant of a   *)
(* single run that does not speak of the other job's rename (JobInv of     *)
(* LogCompactProofs); the target is shared, and whichever job renames onto *)
(* it puts there a temporary snapshot that is a committed prefix.          *)
(***************************************************************************)
EXTENDS CompactionRace, SequenceTheorems, TLAPS

PA == INSTANCE LogCompactProofs WITH pc <- pcA, opt <- optA,
        exitCode <- exitA, lastIndex <- lastIndexA, lastTerm <- lastTermA,
        fed <- fedA, temp <- tempA, printed <- printedA

PB == INSTANCE LogCompactProofs WITH pc <- pcB, opt <- optB,
        exitCode <- exitB, lastIndex <- lastIndexB, lastTerm <- lastTermB,
        fed <- fedB, temp <- tempB, printed <- printedB

\* Both jobs take their compaction index from the peer.
PeerIndexOnly == PA!PeerIndexOnly

(***************************************************************************)
(* The inductive invariant: both jobs' single-run invariants without the   *)
(* parts about their own rename being the last one.                        *)
(***************************************************************************)
RaceInv == PA!JobInv /\ PB!JobInv

\* The constants of both instances satisfy LogCompact's assumption.
LEMMA AssumeA == PA!LogAssumption
BY RaceAssumption

LEMMA AssumeB == PB!LogAssumption
BY RaceAssumption

\* Both jobs start with nothing chosen, nothing fed and no file anywhere.
LEMMA RaceInit == Init => RaceInv
<1>1. A!Init => PA!JobInv
  <2>1. A!Init => PA!IInv
    <3>1. PA!Init => PA!IInv
      BY PA!InitIInv, AssumeA
    <3>2. A!Init => PA!Init
      BY DEF A!Init, PA!Init, A!Running, PA!Running, A!NoIndex, PA!NoIndex,
             A!NoFile, PA!NoFile
    <3> QED BY <3>1, <3>2
  <2> QED BY <2>1 DEF PA!IInv, PA!JobInv, PA!TargetInv
<1>2. B!Init => PB!JobInv
  <2>1. B!Init => PB!IInv
    <3>1. PB!Init => PB!IInv
      BY PB!InitIInv, AssumeB
    <3>2. B!Init => PB!Init
      BY DEF B!Init, PB!Init, B!Running, PB!Running, B!NoIndex, PB!NoIndex,
             B!NoFile, PB!NoFile
    <3> QED BY <3>1, <3>2
  <2> QED BY <2>1 DEF PB!IInv, PB!JobInv, PB!TargetInv
<1> QED BY <1>1, <1>2 DEF Init, RaceInv

(***************************************************************************)
(* Job A's actions are those of the LogCompact model of one job.           *)
(***************************************************************************)
LEMMA ToolA ==
    ASSUME \/ A!Start \/ A!PeerAnswers \/ A!PeerFails \/ A!TermLookup
           \/ A!FeedEntry \/ A!FeedDone \/ A!WriteSnapshot \/ A!Replace
           \/ A!Cleanup \/ A!ListPruneFiles \/ A!Finish
    PROVE  PA!Tool
<1>1. A!Start => PA!Start
  BY DEF A!Start, PA!Start, A!Exit, PA!Exit, A!StartExit, PA!StartExit,
         A!HasIndex, PA!HasIndex, A!Given, PA!Given, A!ZipValid, PA!ZipValid,
         A!ZipLevel, PA!ZipLevel, A!MergeThrows, PA!MergeThrows, A!Running,
         PA!Running, A!NoIndex, PA!NoIndex, A!raftVars, PA!raftVars
<1>2. A!PeerAnswers => PA!PeerAnswers
  BY DEF A!PeerAnswers, PA!PeerAnswers, A!AskedIndex, PA!AskedIndex, A!MinOf,
         PA!MinOf, A!raftVars, PA!raftVars
<1>3. A!PeerFails => PA!PeerFails
  BY DEF A!PeerFails, PA!PeerFails, A!Exit, PA!Exit, A!raftVars, PA!raftVars
<1>4. A!TermLookup => PA!TermLookup
  BY DEF A!TermLookup, PA!TermLookup, A!TermAt, PA!TermAt, A!Exit, PA!Exit,
         A!raftVars, PA!raftVars
<1>5. A!FeedEntry => PA!FeedEntry
  BY DEF A!FeedEntry, PA!FeedEntry, A!raftVars, PA!raftVars
<1>6. A!FeedDone => PA!FeedDone
  BY DEF A!FeedDone, PA!FeedDone, A!Exit, PA!Exit, A!raftVars, PA!raftVars
<1>7. A!WriteSnapshot => PA!WriteSnapshot
  BY DEF A!WriteSnapshot, PA!WriteSnapshot, A!Exit, PA!Exit, A!NoFile,
         PA!NoFile, A!NoIndex, PA!NoIndex, A!raftVars, PA!raftVars
<1>8. A!Replace => PA!Replace
  BY DEF A!Replace, PA!Replace, A!NoFile, PA!NoFile, A!NoIndex, PA!NoIndex,
         A!raftVars, PA!raftVars
<1>9. A!Cleanup => PA!Cleanup
  BY DEF A!Cleanup, PA!Cleanup, A!raftVars, PA!raftVars
<1>10. A!ListPruneFiles => PA!ListPruneFiles
  BY DEF A!ListPruneFiles, PA!ListPruneFiles, A!Prunable, PA!Prunable,
         A!LogFiles, PA!LogFiles, A!FileOf, PA!FileOf, A!raftVars, PA!raftVars
<1>11. A!Finish => PA!Finish
  BY DEF A!Finish, PA!Finish, A!Exit, PA!Exit, A!raftVars, PA!raftVars
<1> QED BY <1>1, <1>2, <1>3, <1>4, <1>5, <1>6, <1>7, <1>8, <1>9, <1>10,
           <1>11 DEF PA!Tool

\* The target is shared: what job A's invariant says of it, job B's says.
LEMMA TargetAB ==
    ASSUME PA!JobInv'
    PROVE  target' \in PB!File /\ PB!TargetCommitted'
BY DEF PA!JobInv, PA!TypeInv, PA!TargetCommitted, PB!TargetCommitted, PA!File,
       PB!File, PA!NoFile, PB!NoFile, PA!NoIndex, PB!NoIndex, PA!Matches,
       PB!Matches

\* A step of job A leaves job B's invariant, whatever it renamed.
LEMMA FrameB ==
    ASSUME PB!JobInv, PA!JobInv', UNCHANGED <<bVars, raftVars>>
    PROVE  PB!JobInv'
<1>1. target' \in PB!File /\ PB!TargetCommitted'
  BY TargetAB
<1>2. UNCHANGED <<pcB, optB, lastIndexB, lastTermB, fedB, tempB, printedB,
                  PB!raftVars>>
  BY DEF bVars, raftVars, PB!raftVars
<1> QED BY <1>1, <1>2, PB!JobFrame, AssumeB

(***************************************************************************)
(* Job B's actions are those of the LogCompact model of one job.           *)
(***************************************************************************)
LEMMA ToolB ==
    ASSUME \/ B!Start \/ B!PeerAnswers \/ B!PeerFails \/ B!TermLookup
           \/ B!FeedEntry \/ B!FeedDone \/ B!WriteSnapshot \/ B!Replace
           \/ B!Cleanup \/ B!ListPruneFiles \/ B!Finish
    PROVE  PB!Tool
<1>1. B!Start => PB!Start
  BY DEF B!Start, PB!Start, B!Exit, PB!Exit, B!StartExit, PB!StartExit,
         B!HasIndex, PB!HasIndex, B!Given, PB!Given, B!ZipValid, PB!ZipValid,
         B!ZipLevel, PB!ZipLevel, B!MergeThrows, PB!MergeThrows, B!Running,
         PB!Running, B!NoIndex, PB!NoIndex, B!raftVars, PB!raftVars
<1>2. B!PeerAnswers => PB!PeerAnswers
  BY DEF B!PeerAnswers, PB!PeerAnswers, B!AskedIndex, PB!AskedIndex, B!MinOf,
         PB!MinOf, B!raftVars, PB!raftVars
<1>3. B!PeerFails => PB!PeerFails
  BY DEF B!PeerFails, PB!PeerFails, B!Exit, PB!Exit, B!raftVars, PB!raftVars
<1>4. B!TermLookup => PB!TermLookup
  BY DEF B!TermLookup, PB!TermLookup, B!TermAt, PB!TermAt, B!Exit, PB!Exit,
         B!raftVars, PB!raftVars
<1>5. B!FeedEntry => PB!FeedEntry
  BY DEF B!FeedEntry, PB!FeedEntry, B!raftVars, PB!raftVars
<1>6. B!FeedDone => PB!FeedDone
  BY DEF B!FeedDone, PB!FeedDone, B!Exit, PB!Exit, B!raftVars, PB!raftVars
<1>7. B!WriteSnapshot => PB!WriteSnapshot
  BY DEF B!WriteSnapshot, PB!WriteSnapshot, B!Exit, PB!Exit, B!NoFile,
         PB!NoFile, B!NoIndex, PB!NoIndex, B!raftVars, PB!raftVars
<1>8. B!Replace => PB!Replace
  BY DEF B!Replace, PB!Replace, B!NoFile, PB!NoFile, B!NoIndex, PB!NoIndex,
         B!raftVars, PB!raftVars
<1>9. B!Cleanup => PB!Cleanup
  BY DEF B!Cleanup, PB!Cleanup, B!raftVars, PB!raftVars
<1>10. B!ListPruneFiles => PB!ListPruneFiles
  BY DEF B!ListPruneFiles, PB!ListPruneFiles, B!Prunable, PB!Prunable,
         B!LogFiles, PB!LogFiles, B!FileOf, PB!FileOf, B!raftVars, PB!raftVars
<1>11. B!Finish => PB!Finish
  BY DEF B!Finish, PB!Finish, B!Exit, PB!Exit, B!raftVars, PB!raftVars
<1> QED BY <1>1, <1>2, <1>3, <1>4, <1>5, <1>6, <1>7, <1>8, <1>9, <1>10,
           <1>11 DEF PB!Tool

\* The target is shared: what job B's invariant says of it, job A's says.
LEMMA TargetBA ==
    ASSUME PB!JobInv'
    PROVE  target' \in PA!File /\ PA!TargetCommitted'
BY DEF PB!JobInv, PB!TypeInv, PB!TargetCommitted, PA!TargetCommitted, PB!File,
       PA!File, PB!NoFile, PA!NoFile, PB!NoIndex, PA!NoIndex, PB!Matches,
       PA!Matches

\* A step of job B leaves job A's invariant, whatever it renamed.
LEMMA FrameA ==
    ASSUME PA!JobInv, PB!JobInv', UNCHANGED <<aVars, raftVars>>
    PROVE  PA!JobInv'
<1>1. target' \in PA!File /\ PA!TargetCommitted'
  BY TargetBA
<1>2. UNCHANGED <<pcA, optA, lastIndexA, lastTermA, fedA, tempA, printedA,
                  PA!raftVars>>
  BY DEF aVars, raftVars, PA!raftVars
<1> QED BY <1>1, <1>2, PA!JobFrame, AssumeA

(***************************************************************************)
(* A step of job A keeps its invariant and leaves the peer alone: its      *)
(* LogCompact steps, and the rename that fails once job B's cleanup has    *)
(* removed its temporary file.                                             *)
(***************************************************************************)
LEMMA StepAJob ==
    ASSUME PeerIndexOnly, PA!JobInv, StepA
    PROVE  PA!JobInv' /\ UNCHANGED <<bVars, raftVars>>
<1>0. UNCHANGED bVars
  BY DEF StepA
<1>1. ASSUME PA!Tool PROVE PA!JobInv' /\ UNCHANGED raftVars
  <2>1. PA!PeerIndexOnly
    BY DEF PeerIndexOnly, PA!PeerIndexOnly, PA!PeerIndexOnly
  <2>2. PA!JobInv'
    BY <1>1, <2>1, PA!JobToolStep, AssumeA
  <2>3. UNCHANGED PA!raftVars
    BY <1>1, PA!ToolKeepsRaft, AssumeA
  <2> QED BY <2>2, <2>3 DEF raftVars, PA!raftVars
<1>2. CASE /\ \/ A!Start \/ A!PeerAnswers \/ A!PeerFails \/ A!FeedEntry
                \/ A!FeedDone \/ A!ListPruneFiles \/ A!Finish
           /\ UNCHANGED dir
  BY <1>0, <1>1, <1>2, ToolA
<1>3. CASE (A!TermLookup \/ A!WriteSnapshot) /\ Creates("A", tempA)
  BY <1>0, <1>1, <1>3, ToolA
<1>4. CASE Rename("A", A!Replace)
  BY <1>0, <1>1, <1>4, ToolA DEF Rename
<1>5. CASE CleanupTempFiles(A!Cleanup)
  BY <1>0, <1>1, <1>5, ToolA DEF CleanupTempFiles
<1>6. CASE RenameFails("A", pcA, A!Exit(1),
                       <<optA, lastIndexA, lastTermA, fedA, tempA, printedA>>)
  <2>1. /\ pcA = "replace" /\ pcA' = "exited"
        /\ UNCHANGED <<optA, lastIndexA, lastTermA, fedA, tempA, target,
                       printedA, PA!raftVars>>
    BY <1>6 DEF RenameFails, A!Exit, raftVars, PA!raftVars
  <2>2. PA!JobInv'
    BY <2>1, PA!JobRenameFails, AssumeA
  <2> QED BY <1>0, <2>1, <2>2 DEF raftVars, PA!raftVars
<1> QED BY <1>2, <1>3, <1>4, <1>5, <1>6 DEF StepA

(***************************************************************************)
(* A step of job B keeps its invariant and leaves the peer alone: its      *)
(* LogCompact steps, and the rename that fails once job A's cleanup has    *)
(* removed its temporary file.                                             *)
(***************************************************************************)
LEMMA StepBJob ==
    ASSUME PeerIndexOnly, PB!JobInv, StepB
    PROVE  PB!JobInv' /\ UNCHANGED <<aVars, raftVars>>
<1>0. UNCHANGED aVars
  BY DEF StepB
<1>1. ASSUME PB!Tool PROVE PB!JobInv' /\ UNCHANGED raftVars
  <2>1. PB!PeerIndexOnly
    BY DEF PeerIndexOnly, PA!PeerIndexOnly, PB!PeerIndexOnly, PA!HasIndex,
           PB!HasIndex, PA!Given, PB!Given
  <2>2. PB!JobInv'
    BY <1>1, <2>1, PB!JobToolStep, AssumeB
  <2>3. UNCHANGED PB!raftVars
    BY <1>1, PB!ToolKeepsRaft, AssumeB
  <2> QED BY <2>2, <2>3 DEF raftVars, PB!raftVars
<1>2. CASE /\ \/ B!Start \/ B!PeerAnswers \/ B!PeerFails \/ B!FeedEntry
                \/ B!FeedDone \/ B!ListPruneFiles \/ B!Finish
           /\ UNCHANGED dir
  BY <1>0, <1>1, <1>2, ToolB
<1>3. CASE (B!TermLookup \/ B!WriteSnapshot) /\ Creates("B", tempB)
  BY <1>0, <1>1, <1>3, ToolB
<1>4. CASE Rename("B", B!Replace)
  BY <1>0, <1>1, <1>4, ToolB DEF Rename
<1>5. CASE CleanupTempFiles(B!Cleanup)
  BY <1>0, <1>1, <1>5, ToolB DEF CleanupTempFiles
<1>6. CASE RenameFails("B", pcB, B!Exit(1),
                       <<optB, lastIndexB, lastTermB, fedB, tempB, printedB>>)
  <2>1. /\ pcB = "replace" /\ pcB' = "exited"
        /\ UNCHANGED <<optB, lastIndexB, lastTermB, fedB, tempB, target,
                       printedB, PB!raftVars>>
    BY <1>6 DEF RenameFails, B!Exit, raftVars, PB!raftVars
  <2>2. PB!JobInv'
    BY <2>1, PB!JobRenameFails, AssumeB
  <2> QED BY <1>0, <2>1, <2>2 DEF raftVars, PB!raftVars
<1> QED BY <1>2, <1>3, <1>4, <1>5, <1>6 DEF StepB

\* The peer's steps are those of the LogCompact model of the peer.
LEMMA PeerA == A!Peer => PA!Peer
BY DEF A!Peer, PA!Peer, A!AppendEntry, PA!AppendEntry, A!CommitEntries,
       PA!CommitEntries, A!NewLeader, PA!NewLeader, A!AdvancePrune,
       PA!AdvancePrune, A!toolVars, PA!toolVars

(***************************************************************************)
(* Every step of either job and of the peer keeps both jobs' invariants.   *)
(***************************************************************************)
LEMMA RaceNext ==
    ASSUME PeerIndexOnly, RaceInv, [Next]_vars
    PROVE  RaceInv'
<1>0. PA!JobInv /\ PB!JobInv
  BY DEF RaceInv
<1>1. CASE StepA
  BY <1>0, <1>1, StepAJob, FrameB DEF RaceInv
<1>2. CASE StepB
  BY <1>0, <1>2, StepBJob, FrameA DEF RaceInv
<1>3. CASE PeerStep
  <2>1. PA!Peer /\ UNCHANGED <<bVars, dir>>
    BY <1>3, PeerA DEF PeerStep
  <2>2. PA!TypeInv
    BY <1>0 DEF PA!JobInv
  <2>3. /\ log' \in Seq(Nat)
        /\ commit \in Nat /\ commit' \in Nat
        /\ commit =< commit' /\ commit' =< Len(log')
        /\ \A i \in 1..commit : log'[i] = log[i]
        /\ pruneIndex' \in 0..commit' /\ term' \in Nat
        /\ UNCHANGED PA!toolVars
    BY <2>1, <2>2, PA!PeerKeepsCommitted, AssumeA
  <2>4. PA!JobInv'
    BY <1>0, <2>3, PA!JobRaftStep, AssumeA
  <2>5. UNCHANGED PB!toolVars
    BY <2>1, <2>3 DEF bVars, PA!toolVars, PB!toolVars
  <2>6. PB!JobInv'
    BY <1>0, <2>3, <2>5, PB!JobRaftStep, AssumeB
  <2> QED BY <2>4, <2>6 DEF RaceInv
<1>4. CASE UNCHANGED vars
  <2>1. UNCHANGED <<aVars, bVars, target, raftVars>>
    BY <1>4 DEF vars
  <2>2. target' \in PA!File /\ PA!TargetCommitted'
    BY <1>0, <2>1 DEF raftVars, PA!JobInv, PA!TypeInv, PA!TargetCommitted,
                      PA!Matches
  <2>3. PA!JobInv'
    BY <1>0, <2>1, <2>2, PA!JobFrame, AssumeA DEF aVars, raftVars, PA!raftVars
  <2>4. PB!JobInv'
    BY <1>0, <2>1, <2>3, FrameB
  <2> QED BY <2>3, <2>4 DEF RaceInv
<1> QED BY <1>1, <1>2, <1>3, <1>4 DEF Next

\* The invariant gives the property: the target is a committed prefix.
LEMMA RaceSnapshot == RaceInv => SnapshotOfCommittedLog
<1>1. RaceInv => PA!SnapshotOfCommittedLog
  BY PA!CommittedSnapshot, AssumeA DEF RaceInv, PA!JobInv
<1>2. PA!SnapshotOfCommittedLog => A!SnapshotOfCommittedLog
  BY DEF PA!SnapshotOfCommittedLog, A!SnapshotOfCommittedLog, PA!NoFile,
         A!NoFile, PA!NoIndex, A!NoIndex
<1> QED BY <1>1, <1>2 DEF SnapshotOfCommittedLog

(***************************************************************************)
(* Two runs of zr-log-compact on one target, each taking its index from    *)
(* the peer, only ever leave at the target the committed log up to the     *)
(* snapshot's index with the term of its last entry: whichever renames     *)
(* last (line 153), and however cleanupTempFiles (line 154) makes the      *)
(* other's rename fail, and whatever the peer does meanwhile.              *)
(***************************************************************************)
THEOREM RaceSnapshotThm ==
    ASSUME PeerIndexOnly
    PROVE  Spec => []SnapshotOfCommittedLog
<1>1. Init => RaceInv
  BY RaceInit
<1>2. RaceInv /\ [Next]_vars => RaceInv'
  BY RaceNext
<1>3. RaceInv => SnapshotOfCommittedLog
  BY RaceSnapshot
<1> QED BY <1>1, <1>2, <1>3, PTL DEF Spec
=============================================================================
