-------------------------- MODULE LogCompactProofs --------------------------
(***************************************************************************)
(* Proofs that zr-log-compact, with the compaction index asked of a peer,  *)
(* installs a snapshot of the committed log and lists for pruning only log *)
(* files that snapshot covers, for every log size, term bound and segment  *)
(* size, however the peer's log moves while the tool reads it.             *)
(***************************************************************************)
EXTENDS LogCompact, SequenceTheorems, TLAPS

\* Every command line the tool is run with leaves out -i, so the compaction
\* index comes from the peer's requestLogInfo answer (lines 99-103).
PeerIndexOnly == \A o \in Options : ~HasIndex(o)

\* The snapshot files: the header index and term, and the entries' terms.
File == [index : Int, term : Nat, data : Seq(Nat)]

\* s holds the first n entries of the peer's log.
Matches(s, n) == Len(s) = n /\ \A i \in 1..n : s[i] = log[i]

\* The steps at which the compaction index is known, and those at which the
\* term of its entry has been looked up and the state machine is fed.
Chosen == {"ready", "feed", "snapshot", "replace", "cleanup", "prune", "close"}
Termed == {"feed", "snapshot", "replace"}

\* The types of the variables.
TypeInv ==
    /\ log \in Seq(Nat) /\ commit \in 0..Len(log) /\ pruneIndex \in 0..commit
    /\ term \in Nat /\ opt \in Options /\ pc \in Steps
    /\ lastIndex \in Int /\ lastTerm \in Nat /\ fed \in Seq(Nat)
    /\ temp \in File /\ target \in File /\ printed \subseteq Nat

\* Once chosen, the compaction index is committed; once its term is looked
\* up, that term and every entry fed are those of the log's prefix.
FedInv ==
    /\ pc \in {"start", "asking", "ready"} => fed = <<>>
    /\ pc \in Chosen => lastIndex \in 0..commit
    /\ pc \in Termed => /\ lastIndex \in 1..commit
                        /\ lastTerm = log[lastIndex]
                        /\ Len(fed) =< lastIndex
                        /\ \A i \in 1..Len(fed) : fed[i] = log[i]
    /\ pc = "snapshot" => Len(fed) = lastIndex

\* The temporary snapshot exists from the term lookup on, at the compaction
\* index and with its term, and holds the fed prefix before the rename.
TempInv ==
    /\ temp # NoFile => /\ pc \in {"feed", "snapshot", "replace", "exited"}
                        /\ temp.index = lastIndex
                        /\ lastIndex \in 1..commit
                        /\ temp.term = log[lastIndex]
    /\ pc = "replace" => temp # NoFile /\ Matches(temp.data, lastIndex)

\* The installed snapshot is the committed prefix up to its index, and it is
\* in place, at the compaction index, from the rename on.
TargetCommitted ==
    target # NoFile => /\ target.index \in 1..commit
                       /\ target.term = log[target.index]
                       /\ Matches(target.data, target.index)

TargetInv ==
    /\ TargetCommitted
    /\ pc \in {"cleanup", "prune", "close"} =>
          target # NoFile /\ target.index = lastIndex

\* Nothing is listed before the prune step, and what is listed ends within
\* the installed snapshot.
PruneInv ==
    /\ pc \in {"start", "asking", "ready", "feed", "snapshot", "replace",
               "cleanup", "prune"} => printed = {}
    /\ \A f \in printed : target # NoFile /\ LastOfFile(f) =< target.index

\* The compaction index is within the prune index the leader reported, and
\* no snapshot is at the target before the rename.
InstallInv ==
    /\ pc \in Chosen => lastIndex =< pruneIndex
    /\ pc \in {"start", "asking", "ready", "feed", "snapshot", "replace"} =>
          target = NoFile

(***************************************************************************)
(* The inductive invariant.  SnapshotOfCommittedLog speaks of the target   *)
(* only; it holds because the index the tool chose is committed, Raft      *)
(* never truncates a committed entry, and everything the tool copied from  *)
(* the log (the term of the entry at the index, the entries fed, the       *)
(* temporary snapshot) is the log's committed prefix at every step before  *)
(* the rename.  PruneInv and the second conjunct of TargetInv carry        *)
(* PrunedFilesCovered: the target is in place, at the compaction index,    *)
(* before the prune listing.  InstallInv carries the refinement of the     *)
(* abstract Compaction spec: the rename installs into an empty target a    *)
(* snapshot within the prune index.                                        *)
(***************************************************************************)
IInv == TypeInv /\ FedInv /\ TempInv /\ TargetInv /\ PruneInv /\ InstallInv

(***************************************************************************)
(* What a job keeps of it when another job may rename onto the same        *)
(* target: the target holds some committed prefix, not its own.            *)
(***************************************************************************)
JobInv == TypeInv /\ FedInv /\ TempInv /\ TargetCommitted

\* The peer's steps keep the committed prefix of its log: appends add past
\* the end, commits only grow, and a new leader cuts only past the commit.
LEMMA PeerKeepsCommitted ==
    ASSUME TypeInv, Peer
    PROVE  /\ log' \in Seq(Nat)
           /\ commit \in Nat /\ commit' \in Nat
           /\ commit =< commit' /\ commit' =< Len(log')
           /\ \A i \in 1..commit : log'[i] = log[i]
           /\ pruneIndex' \in 0..commit' /\ term' \in Nat
           /\ pruneIndex =< pruneIndex'
           /\ UNCHANGED toolVars
<1> USE DEF IInv, TypeInv
<1>1. CASE AppendEntry
  <2>1. term \in Nat /\ log \in Seq(Nat)
    OBVIOUS
  <2> QED BY <1>1, <2>1, AppendProperties DEF AppendEntry
<1>2. CASE CommitEntries
  BY <1>2 DEF CommitEntries
<1>3. CASE NewLeader
  <2>1. PICK k \in commit..Len(log) : log' = SubSeq(log, 1, k)
    BY <1>3 DEF NewLeader
  <2>2. /\ log' \in Seq(Nat) /\ Len(log') = k
        /\ \A i \in 1..k : log'[i] = log[i]
    BY <2>1, SubSeqProperties
  <2> QED BY <1>3, <2>1, <2>2 DEF NewLeader
<1>4. CASE AdvancePrune
  BY <1>4 DEF AdvancePrune
<1> QED BY <1>1, <1>2, <1>3, <1>4 DEF Peer

\* A log file listed before the file of index li ends before li
\* (listPruneFiles' name comparison, with files named by their first index).
LEMMA PrunedFileEnds ==
    ASSUME NEW li \in Nat \ {0}, NEW f \in Int, f < FileOf(li)
    PROVE  LastOfFile(f) =< li
<1>1. SegSize \in Nat \ {0}
  BY LogAssumption
<1> DEFINE q == (li - 1) \div SegSize
<1>2. q * SegSize =< li - 1 /\ q \in Nat
  BY <1>1 DEF q
<1>3. f + 1 =< q
  BY <1>1, <1>2 DEF FileOf, q
<1>4. (f + 1) * SegSize =< q * SegSize
  BY <1>1, <1>2, <1>3
<1> QED BY <1>1, <1>2, <1>4 DEF LastOfFile, q

\* Log files are numbered from 0.
LEMMA FileOfNat ==
    ASSUME NEW i \in Nat \ {0}
    PROVE  FileOf(i) \in Nat
<1>1. SegSize \in Nat \ {0}
  BY LogAssumption
<1> QED BY <1>1 DEF FileOf

\* The initial state satisfies the inductive invariant.
LEMMA InitIInv == Init => IInv
BY EmptySeq DEF Init, IInv, TypeInv, FedInv, TempInv, TargetInv, TargetCommitted, PruneInv, InstallInv,
          Steps, File, NoFile, Running, NoIndex, Chosen, Termed
\* Every step of the tool and of the peer preserves it.
LEMMA NextIInv ==
    ASSUME PeerIndexOnly, IInv, [Next]_vars
    PROVE  IInv'
<1> USE DEF IInv, TypeInv
<1>1. CASE Start
  <2>1. ~HasIndex(opt)
    BY DEF PeerIndexOnly
  <2>2. /\ pc = "start" /\ pc' \in {"exited", "asking"} /\ lastIndex' \in Int
        /\ UNCHANGED <<opt, lastTerm, fed, temp, target, printed, raftVars>>
    BY <1>1, <2>1 DEF Start, Exit, NoIndex
  <2>3. temp = NoFile /\ printed = {}
    BY <2>2 DEF FedInv, TempInv, TargetInv, TargetCommitted, PruneInv, Chosen, Termed, Steps, Matches, NoFile, File
  <2>11. TypeInv'
    BY <2>2, <2>3 DEF raftVars, TypeInv, Chosen, Termed, Steps, Matches, NoFile, File
  <2>12. FedInv'
    BY <2>2, <2>3 DEF raftVars, FedInv, Chosen, Termed, Steps, Matches, NoFile, File
  <2>13. TempInv'
    BY <2>2, <2>3 DEF raftVars, TempInv, Chosen, Termed, Steps, Matches, NoFile, File
  <2>14. TargetInv'
    BY <2>2, <2>3 DEF raftVars, TargetInv, TargetCommitted, Chosen, Termed, Steps, Matches, NoFile, File
  <2>15. PruneInv'
    BY <2>2, <2>3 DEF raftVars, PruneInv, Chosen, Termed, Steps, Matches, NoFile, File
  <2>16. InstallInv'
    BY <2>2 DEF InstallInv, Chosen, raftVars
  <2> QED BY <2>11, <2>12, <2>13, <2>14, <2>15, <2>16
<1>2. CASE PeerAnswers
  <2>1. /\ pc = "asking" /\ pc' = "ready" /\ lastIndex' \in 0..commit
        /\ UNCHANGED <<opt, lastTerm, fed, temp, target, printed, raftVars>>
    BY <1>2 DEF PeerAnswers, AskedIndex, MinOf
  <2>11. TypeInv'
    BY <2>1 DEF raftVars, TypeInv, Chosen, Termed, Steps, Matches, NoFile, File
  <2>12. FedInv'
    BY <2>1 DEF raftVars, FedInv, Chosen, Termed, Steps, Matches, NoFile, File
  <2>13. TempInv'
    BY <2>1 DEF raftVars, TempInv, Chosen, Termed, Steps, Matches, NoFile, File
  <2>14. TargetInv'
    BY <2>1 DEF raftVars, TargetInv, TargetCommitted, Chosen, Termed, Steps, Matches, NoFile, File
  <2>15. PruneInv'
    BY <2>1 DEF raftVars, PruneInv, Chosen, Termed, Steps, Matches, NoFile, File
  <2>16. InstallInv'
    BY <1>2, <2>1 DEF PeerAnswers, AskedIndex, MinOf, InstallInv, Chosen, raftVars
  <2> QED BY <2>11, <2>12, <2>13, <2>14, <2>15, <2>16
<1>3. CASE PeerFails
  <2>1. /\ pc = "asking" /\ pc' = "exited"
        /\ UNCHANGED <<opt, lastIndex, lastTerm, fed, temp, target, printed, raftVars>>
    BY <1>3 DEF PeerFails, Exit
  <2>11. TypeInv'
    BY <2>1 DEF raftVars, TypeInv, Chosen, Termed, Steps, Matches, NoFile, File
  <2>12. FedInv'
    BY <2>1 DEF raftVars, FedInv, Chosen, Termed, Steps, Matches, NoFile, File
  <2>13. TempInv'
    BY <2>1 DEF raftVars, TempInv, Chosen, Termed, Steps, Matches, NoFile, File
  <2>14. TargetInv'
    BY <2>1 DEF raftVars, TargetInv, TargetCommitted, Chosen, Termed, Steps, Matches, NoFile, File
  <2>15. PruneInv'
    BY <2>1 DEF raftVars, PruneInv, Chosen, Termed, Steps, Matches, NoFile, File
  <2>16. InstallInv'
    BY <2>1 DEF InstallInv, Chosen, raftVars
  <2> QED BY <2>11, <2>12, <2>13, <2>14, <2>15, <2>16
<1>4. CASE TermLookup
  <2>1. pc = "ready" /\ temp = NoFile /\ fed = <<>> /\ lastIndex \in 0..commit
    BY <1>4 DEF TermLookup, FedInv, TempInv, TargetInv, TargetCommitted, PruneInv, Chosen, Termed, Steps, Matches, NoFile, File
  <2>2. CASE TermAt(lastIndex) = 0
    <3>1. /\ pc' = "exited"
          /\ UNCHANGED <<opt, lastIndex, lastTerm, fed, temp, target, printed, raftVars>>
      BY <1>4, <2>2 DEF TermLookup, Exit
    <3> QED BY <2>1, <3>1 DEF raftVars, FedInv, TempInv, TargetInv, TargetCommitted, PruneInv, InstallInv, Chosen, Termed, Steps, Matches, NoFile, File
  <2>3. CASE TermAt(lastIndex) # 0
    <3>1. lastIndex \in 1..commit /\ TermAt(lastIndex) = log[lastIndex]
      BY <1>4, <2>1, <2>3 DEF TermLookup, TermAt
    <3>2. /\ pc' = "feed" /\ lastTerm' = log[lastIndex]
          /\ temp' \in {temp, [index |-> lastIndex, term |-> log[lastIndex], data |-> <<>>]}
          /\ UNCHANGED <<opt, lastIndex, fed, target, printed, raftVars>>
      BY <1>4, <2>3, <3>1 DEF TermLookup
    <3>3. log[lastIndex] \in Nat /\ <<>> \in Seq(Nat)
      BY <3>1, EmptySeq
    <3>4. temp' \in File
      <4>1. [index |-> lastIndex, term |-> log[lastIndex], data |-> <<>>] \in File
        BY <3>3 DEF File
      <4> QED BY <3>2, <4>1
    <3>11. TypeInv'
      BY <3>2, <3>3, <3>4 DEF raftVars, TypeInv, Steps
    <3>12. FedInv'
      BY <2>1, <3>1, <3>2 DEF raftVars, FedInv, Chosen, Termed, Steps, Matches, NoFile, File
    <3>13. TempInv'
      BY <2>1, <3>1, <3>2 DEF raftVars, TempInv, Chosen, Termed, Steps, Matches, NoFile, File
    <3>14. TargetInv'
      BY <3>2 DEF raftVars, TargetInv, TargetCommitted, Chosen, Termed, Steps, Matches, NoFile, File
    <3>15. PruneInv'
      BY <2>1, <3>2 DEF raftVars, PruneInv, Chosen, Termed, Steps, Matches, NoFile, File
    <3>16. InstallInv'
      BY <2>1, <3>2 DEF InstallInv, Chosen, raftVars
    <3> QED BY <3>11, <3>12, <3>13, <3>14, <3>15, <3>16
  <2> QED BY <2>2, <2>3
<1>5. CASE FeedEntry
  <2>1. /\ pc = "feed" /\ Len(fed) < lastIndex /\ Len(fed) < Len(log)
        /\ fed' = Append(fed, log[Len(fed) + 1])
        /\ UNCHANGED <<pc, opt, lastIndex, lastTerm, temp, target, printed, raftVars>>
    BY <1>5 DEF FeedEntry
  <2>2. log[Len(fed) + 1] \in Nat
    BY <2>1 DEF FedInv, Termed
  <2>3. /\ fed' \in Seq(Nat) /\ Len(fed') = Len(fed) + 1
        /\ \A i \in 1..Len(fed) : fed'[i] = fed[i]
        /\ fed'[Len(fed) + 1] = log[Len(fed) + 1]
    BY <2>1, <2>2, AppendProperties
  <2>11. TypeInv'
    BY <2>1, <2>3 DEF raftVars, TypeInv, Chosen, Termed, Steps, Matches, NoFile, File
  <2>4. \A i \in 1..Len(fed') : fed'[i] = log[i]
    BY <2>1, <2>3 DEF FedInv, Termed
  <2>5. Len(fed') =< lastIndex
    BY <2>1, <2>3
  <2>12. FedInv'
    BY <2>1, <2>3, <2>4, <2>5 DEF raftVars, FedInv, Chosen, Termed, Steps, Matches, NoFile, File
  <2>13. TempInv'
    BY <2>1, <2>3 DEF raftVars, TempInv, Chosen, Termed, Steps, Matches, NoFile, File
  <2>14. TargetInv'
    BY <2>1, <2>3 DEF raftVars, TargetInv, TargetCommitted, Chosen, Termed, Steps, Matches, NoFile, File
  <2>15. PruneInv'
    BY <2>1, <2>3 DEF raftVars, PruneInv, Chosen, Termed, Steps, Matches, NoFile, File
  <2>16. InstallInv'
    BY <2>1 DEF InstallInv, Chosen, raftVars
  <2> QED BY <2>11, <2>12, <2>13, <2>14, <2>15, <2>16
<1>6. CASE FeedDone
  <2>1. /\ pc = "feed" /\ pc' \in {"snapshot", "exited"}
        /\ pc' = "snapshot" => Len(fed) = lastIndex
        /\ UNCHANGED <<opt, lastIndex, lastTerm, fed, temp, target, printed, raftVars>>
    BY <1>6 DEF FeedDone, Exit
  <2>11. TypeInv'
    BY <2>1 DEF raftVars, TypeInv, Chosen, Termed, Steps, Matches, NoFile, File
  <2>12. FedInv'
    BY <2>1 DEF raftVars, FedInv, Chosen, Termed, Steps, Matches, NoFile, File
  <2>13. TempInv'
    BY <2>1 DEF raftVars, TempInv, Chosen, Termed, Steps, Matches, NoFile, File
  <2>14. TargetInv'
    BY <2>1 DEF raftVars, TargetInv, TargetCommitted, Chosen, Termed, Steps, Matches, NoFile, File
  <2>15. PruneInv'
    BY <2>1 DEF raftVars, PruneInv, Chosen, Termed, Steps, Matches, NoFile, File
  <2>16. InstallInv'
    BY <2>1 DEF InstallInv, Chosen, raftVars
  <2> QED BY <2>11, <2>12, <2>13, <2>14, <2>15, <2>16
<1>7. CASE WriteSnapshot
  <2>1. pc = "snapshot" /\ Len(fed) = lastIndex /\ printed = {}
    BY <1>7 DEF WriteSnapshot, FedInv, TempInv, TargetInv, TargetCommitted, PruneInv, Chosen, Termed, Steps, Matches, NoFile, File
  <2>2. CASE temp = NoFile /\ opt.kind \notin {"createStream", "serialize"}
    <3>1. /\ pc' = "exited"
          /\ UNCHANGED <<opt, lastIndex, lastTerm, fed, temp, target, printed, raftVars>>
      BY <1>7, <2>2 DEF WriteSnapshot, Exit
    <3> QED BY <2>1, <3>1 DEF raftVars, FedInv, TempInv, TargetInv, TargetCommitted, PruneInv, InstallInv, Chosen, Termed, Steps, Matches, NoFile, File
  <2>3. CASE ~(temp = NoFile /\ opt.kind \notin {"createStream", "serialize"})
    <3>1. /\ pc' = "replace"
          /\ temp' = [index |-> lastIndex, term |-> lastTerm, data |-> fed]
          /\ UNCHANGED <<opt, lastIndex, lastTerm, fed, target, printed, raftVars>>
      BY <1>7, <2>3 DEF WriteSnapshot
    <3>2. /\ lastIndex \in 1..commit /\ lastTerm = log[lastIndex]
          /\ \A i \in 1..Len(fed) : fed[i] = log[i]
      BY <2>1 DEF FedInv, Termed
    <3>11. TypeInv'
      BY <3>1 DEF raftVars, TypeInv, Chosen, Termed, Steps, Matches, NoFile, File
    <3>12. FedInv'
      BY <2>1, <3>1 DEF raftVars, FedInv, Chosen, Termed, Steps, Matches, NoFile, File
    <3>13. TempInv'
      BY <2>1, <3>1, <3>2 DEF raftVars, TempInv, Chosen, Termed, Steps, Matches, NoFile, File
    <3>14. TargetInv'
      BY <3>1 DEF raftVars, TargetInv, TargetCommitted, Chosen, Termed, Steps, Matches, NoFile, File
    <3>15. PruneInv'
      BY <2>1, <3>1 DEF raftVars, PruneInv, Chosen, Termed, Steps, Matches, NoFile, File
    <3>16. InstallInv'
      BY <2>1, <3>1 DEF InstallInv, Chosen, raftVars
    <3> QED BY <3>11, <3>12, <3>13, <3>14, <3>15, <3>16
  <2> QED BY <2>2, <2>3
<1>8. CASE Replace
  <2>1. /\ pc = "replace" /\ pc' = "cleanup" /\ target' = temp /\ temp' = NoFile
        /\ UNCHANGED <<opt, lastIndex, lastTerm, fed, printed, raftVars>>
    BY <1>8 DEF Replace
  <2>2. /\ temp # NoFile /\ temp.index = lastIndex /\ lastIndex \in 1..commit
        /\ temp.term = log[lastIndex] /\ Matches(temp.data, lastIndex)
    BY <2>1 DEF TempInv
  <2>11. TypeInv'
    BY <2>1, EmptySeq DEF raftVars, TypeInv, NoIndex, Chosen, Termed, Steps, Matches, NoFile, File
  <2>12. FedInv'
    BY <2>1 DEF raftVars, FedInv, Chosen, Termed, Steps, Matches, NoFile, File
  <2>13. TempInv'
    BY <2>1 DEF raftVars, TempInv, Chosen, Termed, Steps, Matches, NoFile, File
  <2>14. TargetInv'
    BY <2>1, <2>2 DEF raftVars, TargetInv, TargetCommitted, Chosen, Termed, Steps, Matches, NoFile, File
  <2>15. PruneInv'
    BY <2>1, <2>2 DEF raftVars, PruneInv, Chosen, Termed, Steps, Matches, NoFile, File
  <2>16. InstallInv'
    BY <2>1 DEF InstallInv, Chosen, raftVars
  <2> QED BY <2>11, <2>12, <2>13, <2>14, <2>15, <2>16
<1>9. CASE Cleanup
  <2>1. /\ pc = "cleanup" /\ pc' = "prune"
        /\ UNCHANGED <<opt, lastIndex, lastTerm, fed, temp, target, printed, raftVars>>
    BY <1>9 DEF Cleanup
  <2>11. TypeInv'
    BY <2>1 DEF raftVars, TypeInv, Chosen, Termed, Steps, Matches, NoFile, File
  <2>12. FedInv'
    BY <2>1 DEF raftVars, FedInv, Chosen, Termed, Steps, Matches, NoFile, File
  <2>13. TempInv'
    BY <2>1 DEF raftVars, TempInv, Chosen, Termed, Steps, Matches, NoFile, File
  <2>14. TargetInv'
    BY <2>1 DEF raftVars, TargetInv, TargetCommitted, Chosen, Termed, Steps, Matches, NoFile, File
  <2>15. PruneInv'
    BY <2>1 DEF raftVars, PruneInv, Chosen, Termed, Steps, Matches, NoFile, File
  <2>16. InstallInv'
    BY <2>1 DEF InstallInv, Chosen, raftVars
  <2> QED BY <2>11, <2>12, <2>13, <2>14, <2>15, <2>16
<1>10. CASE ListPruneFiles
  <2>1. /\ pc = "prune" /\ pc' = "close"
        /\ target # NoFile /\ target.index = lastIndex /\ lastIndex \in Nat \ {0}
        /\ UNCHANGED <<opt, lastIndex, lastTerm, fed, temp, target, raftVars>>
    BY <1>10 DEF ListPruneFiles, FedInv, TempInv, TargetInv, TargetCommitted, PruneInv, Chosen, Termed, Steps, Matches, NoFile, File
  <2>2. printed' \subseteq Nat /\ \A f \in printed' : LastOfFile(f) =< lastIndex
    <3>1. CASE opt.prune /\ lastIndex \in 1..Len(log)
      <4>1. printed' = {f \in LogFiles : f < FileOf(lastIndex)}
        BY <1>10, <3>1 DEF ListPruneFiles, Prunable
      <4>2. \A i \in 1..Len(log) : FileOf(i) \in Nat
        BY FileOfNat
      <4>3. printed' \subseteq Nat
        BY <4>1, <4>2 DEF LogFiles
      <4>4. ASSUME NEW f \in printed' PROVE LastOfFile(f) =< lastIndex
        <5>1. f \in Int /\ f < FileOf(lastIndex)
          BY <4>1, <4>3
        <5> QED BY <2>1, <5>1, PrunedFileEnds
      <4> QED BY <4>3, <4>4
    <3>2. CASE ~(opt.prune /\ lastIndex \in 1..Len(log))
      <4>1. printed' = printed /\ printed = {}
        BY <1>10, <3>2 DEF ListPruneFiles, PruneInv
      <4> QED BY <4>1
    <3> QED BY <3>1, <3>2
  <2>11. TypeInv'
    BY <2>1, <2>2 DEF raftVars, TypeInv, Chosen, Termed, Steps, Matches, NoFile, File
  <2>12. FedInv'
    BY <2>1, <2>2 DEF raftVars, FedInv, Chosen, Termed, Steps, Matches, NoFile, File
  <2>13. TempInv'
    BY <2>1, <2>2 DEF raftVars, TempInv, Chosen, Termed, Steps, Matches, NoFile, File
  <2>14. TargetInv'
    BY <2>1, <2>2 DEF raftVars, TargetInv, TargetCommitted, Chosen, Termed, Steps, Matches, NoFile, File
  <2>15. PruneInv'
    BY <2>1, <2>2 DEF raftVars, PruneInv, Chosen, Termed, Steps, Matches, NoFile, File
  <2>16. InstallInv'
    BY <2>1 DEF InstallInv, Chosen, raftVars
  <2> QED BY <2>11, <2>12, <2>13, <2>14, <2>15, <2>16
<1>11. CASE Finish
  <2>1. /\ pc = "close" /\ pc' = "exited"
        /\ UNCHANGED <<opt, lastIndex, lastTerm, fed, temp, target, printed, raftVars>>
    BY <1>11 DEF Finish, Exit
  <2>11. TypeInv'
    BY <2>1 DEF raftVars, TypeInv, Chosen, Termed, Steps, Matches, NoFile, File
  <2>12. FedInv'
    BY <2>1 DEF raftVars, FedInv, Chosen, Termed, Steps, Matches, NoFile, File
  <2>13. TempInv'
    BY <2>1 DEF raftVars, TempInv, Chosen, Termed, Steps, Matches, NoFile, File
  <2>14. TargetInv'
    BY <2>1 DEF raftVars, TargetInv, TargetCommitted, Chosen, Termed, Steps, Matches, NoFile, File
  <2>15. PruneInv'
    BY <2>1 DEF raftVars, PruneInv, Chosen, Termed, Steps, Matches, NoFile, File
  <2>16. InstallInv'
    BY <2>1 DEF InstallInv, Chosen, raftVars
  <2> QED BY <2>11, <2>12, <2>13, <2>14, <2>15, <2>16
<1>12. CASE Peer
  <2>1. /\ log' \in Seq(Nat)
        /\ commit \in Nat /\ commit' \in Nat
        /\ commit =< commit' /\ commit' =< Len(log')
        /\ \A i \in 1..commit : log'[i] = log[i]
        /\ pruneIndex' \in 0..commit' /\ term' \in Nat
        /\ pruneIndex =< pruneIndex'
        /\ UNCHANGED toolVars
    BY <1>12, PeerKeepsCommitted
  <2>2. UNCHANGED <<pc, opt, exitCode, lastIndex, lastTerm, fed, temp, target, printed>>
    BY <2>1 DEF toolVars
  <2>11. TypeInv'
    BY <2>1, <2>2 DEF TypeInv, Chosen, Termed, Steps, Matches, NoFile, File
  <2>12. FedInv'
    <3>1. pc \in Chosen => lastIndex \in 0..commit'
      BY <2>1, <2>2 DEF FedInv
    <3>2. pc \in Termed => /\ lastIndex \in 1..commit'
                           /\ lastTerm = log'[lastIndex]
      <4>1. pc \in Termed => lastIndex \in 1..commit /\ lastTerm = log[lastIndex]
        BY DEF FedInv
      <4> QED BY <2>1, <4>1
    <3>3. pc \in Termed => \A i \in 1..Len(fed) : fed[i] = log'[i]
      BY <2>1, <2>2 DEF FedInv
    <3> QED BY <2>2, <3>1, <3>2, <3>3 DEF FedInv
  <2>13. TempInv'
    <3>1. temp # NoFile => /\ lastIndex \in 1..commit'
                          /\ temp.term = log'[lastIndex]
      <4>1. temp # NoFile => lastIndex \in 1..commit /\ temp.term = log[lastIndex]
        BY DEF TempInv
      <4> QED BY <2>1, <4>1
    <3>2. pc = "replace" => Matches(temp.data, lastIndex)'
      <4>1. pc = "replace" => /\ lastIndex \in 1..commit
                              /\ Len(temp.data) = lastIndex
                              /\ \A i \in 1..lastIndex : temp.data[i] = log[i]
        BY DEF TempInv, Matches
      <4> QED BY <2>1, <2>2, <4>1 DEF Matches
    <3> QED BY <2>2, <3>1, <3>2 DEF TempInv
  <2>14. TargetInv'
    <3>1. target # NoFile => /\ target.index \in 1..commit'
                            /\ target.term = log'[target.index]
      BY <2>1, <2>2 DEF TargetInv, TargetCommitted
    <3>2. target # NoFile => Matches(target.data, target.index)'
      BY <2>1, <2>2 DEF TargetInv, TargetCommitted, Matches
    <3> QED BY <2>2, <3>1, <3>2 DEF TargetInv, TargetCommitted
  <2>15. PruneInv'
    BY <2>2 DEF PruneInv
  <2>16. InstallInv'
    BY <2>1, <2>2 DEF InstallInv
  <2> QED BY <2>11, <2>12, <2>13, <2>14, <2>15, <2>16
<1>13. CASE UNCHANGED vars
  <2>1. UNCHANGED <<pc, opt, exitCode, lastIndex, lastTerm, fed, temp, target,
                    printed, log, commit, pruneIndex, term>>
    BY <1>13 DEF vars, toolVars, raftVars
  <2>11. TypeInv'
    BY <2>1 DEF TypeInv, Chosen, Termed, Steps, Matches, NoFile, File
  <2>12. FedInv'
    BY <2>1 DEF FedInv, Chosen, Termed, Steps, Matches, NoFile, File
  <2>13. TempInv'
    BY <2>1 DEF TempInv, Chosen, Termed, Steps, Matches, NoFile, File
  <2>14. TargetInv'
    BY <2>1 DEF TargetInv, TargetCommitted, Chosen, Termed, Steps, Matches, NoFile, File
  <2>15. PruneInv'
    BY <2>1 DEF PruneInv, Chosen, Termed, Steps, Matches, NoFile, File
  <2>16. InstallInv'
    BY <2>1 DEF InstallInv, Chosen, raftVars
  <2> QED BY <2>11, <2>12, <2>13, <2>14, <2>15, <2>16
<1> QED BY <1>1, <1>2, <1>3, <1>4, <1>5, <1>6, <1>7, <1>8, <1>9, <1>10,
           <1>11, <1>12, <1>13 DEF Next, Tool
\* A committed snapshot at the target is the log's SubSeq up to its index.
LEMMA CommittedSnapshot == TypeInv /\ TargetCommitted => SnapshotOfCommittedLog
<1> SUFFICES ASSUME TypeInv, TargetCommitted, target # NoFile
             PROVE  /\ target.index =< commit
                    /\ target.data = SubSeq(log, 1, target.index)
                    /\ target.term = log[target.index]
  BY DEF SnapshotOfCommittedLog
<1>1. /\ target.index \in 1..commit /\ target.term = log[target.index]
      /\ Matches(target.data, target.index)
      /\ log \in Seq(Nat) /\ commit \in 0..Len(log) /\ target.data \in Seq(Nat)
  BY DEF TypeInv, TargetCommitted, File
<1>2. \A i \in 1..target.index : log[i] \in Nat
  BY <1>1
<1>3. /\ SubSeq(log, 1, target.index) \in Seq(Nat)
      /\ Len(SubSeq(log, 1, target.index)) = target.index
      /\ \A i \in 1..target.index : SubSeq(log, 1, target.index)[i] = log[i]
  BY <1>1, <1>2, SubSeqProperties
<1>4. /\ Len(target.data) = target.index
      /\ \A i \in 1..target.index : target.data[i] = log[i]
  BY <1>1 DEF Matches
<1>5. target.data = SubSeq(log, 1, target.index)
  BY <1>1, <1>3, <1>4, SeqEqual
<1> QED BY <1>1, <1>5

\* The installed snapshot of the invariant is the log's SubSeq up to its index.
LEMMA IInvSnapshot == IInv => SnapshotOfCommittedLog
BY CommittedSnapshot DEF IInv, TargetInv

\* The files listed for pruning are those of the invariant.
LEMMA IInvPruned == IInv => PrunedFilesCovered
BY DEF IInv, PruneInv, PrunedFilesCovered

\* Under a peer-derived index the inductive invariant always holds.
LEMMA AlwaysIInv ==
    ASSUME PeerIndexOnly
    PROVE  Spec => []IInv
<1>1. IInv /\ [Next]_vars => IInv'
  BY NextIInv
<1> QED BY InitIInv, <1>1, PTL DEF Spec

(***************************************************************************)
(* When zr-log-compact takes its compaction index from a peer, the         *)
(* snapshot it installs at the target is always the committed log up to    *)
(* that index with the term of its last entry, whatever the peer appends,  *)
(* commits or truncates meanwhile (lines 99-103, 111-130, 153).            *)
(***************************************************************************)
THEOREM SnapshotCommittedThm ==
    ASSUME PeerIndexOnly
    PROVE  Spec => []SnapshotOfCommittedLog
BY AlwaysIInv, IInvSnapshot, PTL

(***************************************************************************)
(* Every log file listPruneFiles prints (lines 156-158, 211-223) ends at   *)
(* or before the index of the installed snapshot, so deleting it loses no  *)
(* entry the snapshot does not hold.                                       *)
(***************************************************************************)
THEOREM PrunedCoveredThm ==
    ASSUME PeerIndexOnly
    PROVE  Spec => []PrunedFilesCovered
BY AlwaysIInv, IInvPruned, PTL

-----------------------------------------------------------------------------
(***************************************************************************)
(* One job among others on the same target.  JobInv is kept by every step  *)
(* of the job, by the peer, and by any step of another job that leaves    *)
(* this job alone and puts a committed snapshot at the target.             *)
(***************************************************************************)
LEMMA JobToolStep ==
    ASSUME PeerIndexOnly, JobInv, Tool
    PROVE  JobInv'
<1> USE DEF JobInv
<1>1. CASE Start
  <2>1. ~HasIndex(opt)
    BY DEF PeerIndexOnly, TypeInv
  <2>2. /\ pc = "start" /\ fed = <<>> /\ temp = NoFile
        /\ UNCHANGED <<opt, lastTerm, fed, temp, target, printed, raftVars>>
    BY <1>1 DEF Start, FedInv, TempInv
  <2>3. CASE StartExit(opt) # Running
    <3>1. pc' = "exited" /\ exitCode' = StartExit(opt) /\ UNCHANGED lastIndex
      BY <1>1, <2>3 DEF Start, Exit
    <3> QED BY <2>2, <3>1 DEF TypeInv, FedInv, TempInv, TargetCommitted,
                              Chosen, Termed, Steps, Matches, raftVars
  <2>4. CASE StartExit(opt) = Running
    <3>1. pc' = "asking" /\ lastIndex' = NoIndex
      BY <1>1, <2>1, <2>4 DEF Start
    <3>2. NoIndex \in Int
      BY DEF NoIndex
    <3> QED BY <2>2, <3>1, <3>2 DEF TypeInv, FedInv, TempInv, TargetCommitted,
                                    Chosen, Termed, Steps, Matches, raftVars
  <2> QED BY <2>3, <2>4
<1>2. CASE PeerAnswers
  BY <1>2 DEF PeerAnswers, AskedIndex, MinOf, TypeInv, FedInv, TempInv,
              TargetCommitted, Chosen, Termed, Steps, Matches, NoFile, File,
              raftVars
<1>3. CASE PeerFails
  BY <1>3 DEF PeerFails, Exit, TypeInv, FedInv, TempInv, TargetCommitted,
              Chosen, Termed, Steps, Matches, NoFile, File, raftVars
<1>4. CASE TermLookup
  <2>1. pc = "ready" /\ temp = NoFile /\ fed = <<>> /\ lastIndex \in 0..commit
    BY <1>4 DEF TermLookup, TypeInv, FedInv, TempInv, TargetCommitted,
                Chosen, Termed, Steps, Matches, NoFile, File, raftVars
  <2>2. CASE TermAt(lastIndex) = 0
    BY <1>4, <2>1, <2>2 DEF TermLookup, Exit, TypeInv, FedInv, TempInv,
                            TargetCommitted, Chosen, Termed, Steps, Matches,
                            NoFile, File, raftVars
  <2>3. CASE TermAt(lastIndex) # 0
    <3>1. lastIndex \in 1..commit /\ TermAt(lastIndex) = log[lastIndex]
      BY <1>4, <2>1, <2>3 DEF TermLookup, TermAt, TypeInv
    <3>2. /\ pc' = "feed" /\ lastTerm' = log[lastIndex]
          /\ temp' \in {temp, [index |-> lastIndex, term |-> log[lastIndex], data |-> <<>>]}
          /\ UNCHANGED <<opt, lastIndex, fed, target, printed, raftVars>>
      BY <1>4, <2>3, <3>1 DEF TermLookup
    <3>3. log[lastIndex] \in Nat /\ <<>> \in Seq(Nat)
      BY <3>1, EmptySeq DEF TypeInv
    <3>4. temp' \in File
      <4>1. [index |-> lastIndex, term |-> log[lastIndex], data |-> <<>>] \in File
        BY <3>1, <3>3 DEF File
      <4> QED BY <3>2, <4>1 DEF TypeInv
    <3>11. TypeInv'
      BY <3>2, <3>3, <3>4 DEF raftVars, TypeInv, Steps
    <3>12. FedInv'
      BY <2>1, <3>1, <3>2 DEF raftVars, FedInv, Chosen, Termed
    <3>13. TempInv'
      BY <2>1, <3>1, <3>2 DEF raftVars, TempInv, NoFile
    <3>14. TargetCommitted'
      BY <3>2 DEF raftVars, TargetCommitted, Matches
    <3> QED BY <3>11, <3>12, <3>13, <3>14
  <2> QED BY <2>2, <2>3
<1>5. CASE FeedEntry
  <2>1. /\ pc = "feed" /\ Len(fed) < lastIndex /\ Len(fed) < Len(log)
        /\ fed' = Append(fed, log[Len(fed) + 1])
        /\ UNCHANGED <<pc, opt, lastIndex, lastTerm, temp, target, printed, raftVars>>
    BY <1>5 DEF FeedEntry
  <2>2. log[Len(fed) + 1] \in Nat
    BY <2>1 DEF TypeInv, FedInv, Termed
  <2>3. /\ fed' \in Seq(Nat) /\ Len(fed') = Len(fed) + 1
        /\ \A i \in 1..Len(fed) : fed'[i] = fed[i]
        /\ fed'[Len(fed) + 1] = log[Len(fed) + 1]
    BY <2>1, <2>2, AppendProperties DEF TypeInv
  <2>11. TypeInv'
    BY <2>1, <2>3 DEF raftVars, TypeInv
  <2>4. \A i \in 1..Len(fed') : fed'[i] = log[i]
    BY <2>1, <2>3 DEF TypeInv, FedInv, Termed
  <2>12. FedInv'
    BY <2>1, <2>3, <2>4 DEF raftVars, FedInv, Chosen, Termed
  <2>13. TempInv'
    BY <2>1 DEF raftVars, TempInv, Matches
  <2>14. TargetCommitted'
    BY <2>1 DEF raftVars, TargetCommitted, Matches
  <2> QED BY <2>11, <2>12, <2>13, <2>14
<1>6. CASE FeedDone
  BY <1>6 DEF FeedDone, Exit, TypeInv, FedInv, TempInv, TargetCommitted,
              Chosen, Termed, Steps, Matches, NoFile, File, raftVars
<1>7. CASE WriteSnapshot
  <2>1. pc = "snapshot" /\ Len(fed) = lastIndex
    BY <1>7 DEF WriteSnapshot, FedInv
  <2>2. CASE temp = NoFile /\ opt.kind \notin {"createStream", "serialize"}
    BY <1>7, <2>1, <2>2 DEF WriteSnapshot, Exit, TypeInv, FedInv, TempInv,
                            TargetCommitted, Chosen, Termed, Steps, Matches,
                            NoFile, File, raftVars
  <2>3. CASE ~(temp = NoFile /\ opt.kind \notin {"createStream", "serialize"})
    <3>1. /\ pc' = "replace"
          /\ temp' = [index |-> lastIndex, term |-> lastTerm, data |-> fed]
          /\ UNCHANGED <<opt, lastIndex, lastTerm, fed, target, printed, raftVars>>
      BY <1>7, <2>3 DEF WriteSnapshot
    <3>2. /\ lastIndex \in 1..commit /\ lastTerm = log[lastIndex]
          /\ \A i \in 1..Len(fed) : fed[i] = log[i]
      BY <2>1 DEF FedInv, Termed
    <3>11. TypeInv'
      BY <3>1 DEF raftVars, TypeInv, Steps, File
    <3>12. FedInv'
      BY <2>1, <3>1 DEF raftVars, FedInv, Chosen, Termed
    <3>13. TempInv'
      BY <2>1, <3>1, <3>2 DEF raftVars, TempInv, Matches, NoFile
    <3>14. TargetCommitted'
      BY <3>1 DEF raftVars, TargetCommitted, Matches
    <3> QED BY <3>11, <3>12, <3>13, <3>14
  <2> QED BY <2>2, <2>3
<1>8. CASE Replace
  <2>1. /\ pc = "replace" /\ pc' = "cleanup" /\ target' = temp /\ temp' = NoFile
        /\ UNCHANGED <<opt, lastIndex, lastTerm, fed, printed, raftVars>>
    BY <1>8 DEF Replace
  <2>2. /\ temp # NoFile /\ temp.index = lastIndex /\ lastIndex \in 1..commit
        /\ temp.term = log[lastIndex] /\ Matches(temp.data, lastIndex)
    BY <2>1 DEF TempInv
  <2>11. TypeInv'
    BY <2>1, EmptySeq DEF raftVars, TypeInv, NoIndex, Steps, NoFile, File
  <2>12. FedInv'
    BY <2>1 DEF raftVars, FedInv, Chosen, Termed
  <2>13. TempInv'
    BY <2>1 DEF raftVars, TempInv
  <2>14. TargetCommitted'
    BY <2>1, <2>2 DEF raftVars, TargetCommitted, Matches
  <2> QED BY <2>11, <2>12, <2>13, <2>14
<1>9. CASE Cleanup
  BY <1>9 DEF Cleanup, TypeInv, FedInv, TempInv, TargetCommitted, Chosen,
              Termed, Steps, Matches, NoFile, File, raftVars
<1>10. CASE ListPruneFiles
  <2>1. /\ pc = "prune" /\ pc' = "close"
        /\ UNCHANGED <<opt, exitCode, lastIndex, lastTerm, fed, temp, target, raftVars>>
    BY <1>10 DEF ListPruneFiles
  <2>2. printed' \subseteq Nat
    <3>1. CASE opt.prune /\ lastIndex \in 1..Len(log)
      <4>1. printed' = {f \in LogFiles : f < FileOf(lastIndex)}
        BY <1>10, <3>1 DEF ListPruneFiles, Prunable
      <4>2. \A i \in 1..Len(log) : FileOf(i) \in Nat
        BY FileOfNat
      <4> QED BY <4>1, <4>2 DEF LogFiles
    <3>2. CASE ~(opt.prune /\ lastIndex \in 1..Len(log))
      BY <1>10, <3>2 DEF ListPruneFiles, TypeInv
    <3> QED BY <3>1, <3>2
  <2> QED BY <2>1, <2>2 DEF TypeInv, FedInv, TempInv, TargetCommitted,
                            Chosen, Termed, Steps, Matches, NoFile, File,
                            raftVars
<1>11. CASE Finish
  BY <1>11 DEF Finish, Exit, TypeInv, FedInv, TempInv, TargetCommitted,
               Chosen, Termed, Steps, Matches, NoFile, File, raftVars
<1> QED BY <1>1, <1>2, <1>3, <1>4, <1>5, <1>6, <1>7, <1>8, <1>9, <1>10,
           <1>11 DEF Tool

\* The tool only reads the peer's log.
LEMMA ToolKeepsRaft == Tool => UNCHANGED raftVars
BY DEF Tool, Start, PeerAnswers, PeerFails, TermLookup, FeedEntry, FeedDone,
       WriteSnapshot, Replace, Cleanup, ListPruneFiles, Finish, Exit

\* A step of the peer that keeps the committed prefix of its log.
LEMMA JobRaftStep ==
    ASSUME JobInv,
           log' \in Seq(Nat),
           commit \in Nat, commit' \in Nat,
           commit =< commit', commit' =< Len(log'),
           \A i \in 1..commit : log'[i] = log[i],
           pruneIndex' \in 0..commit', term' \in Nat,
           UNCHANGED toolVars
    PROVE  JobInv'
<1>1. UNCHANGED <<pc, opt, exitCode, lastIndex, lastTerm, fed, temp, target, printed>>
  BY DEF toolVars
<1>2. TypeInv'
  BY <1>1 DEF JobInv, TypeInv, Steps, NoFile, File
<1>3. FedInv'
  <2>1. pc \in Termed => /\ lastIndex \in 1..commit /\ lastTerm = log[lastIndex]
                         /\ \A i \in 1..Len(fed) : fed[i] = log[i]
                         /\ Len(fed) =< lastIndex
    BY DEF JobInv, FedInv
  <2>2. pc \in Chosen => lastIndex \in 0..commit
    BY DEF JobInv, FedInv
  <2>3. pc' \in Termed => /\ lastIndex' \in 1..commit'
                          /\ lastTerm' = log'[lastIndex']
    BY <1>1, <2>1
  <2>4. pc' \in Termed => \A i \in 1..Len(fed') : fed'[i] = log'[i]
    <3> SUFFICES ASSUME pc \in Termed, NEW i \in 1..Len(fed) PROVE fed[i] = log'[i]
      BY <1>1
    <3>1. i \in 1..commit /\ fed[i] = log[i]
      BY <2>1
    <3> QED BY <3>1
  <2>5. pc' \in Chosen => lastIndex' \in 0..commit'
    BY <1>1, <2>2
  <2> QED BY <1>1, <2>1, <2>3, <2>4, <2>5 DEF JobInv, FedInv
<1>4. TempInv'
  <2>1. temp # NoFile => lastIndex \in 1..commit /\ temp.term = log[lastIndex]
    BY DEF JobInv, TempInv
  <2>2. pc = "replace" => /\ lastIndex \in 1..commit
                          /\ Len(temp.data) = lastIndex
                          /\ \A i \in 1..lastIndex : temp.data[i] = log[i]
    BY DEF JobInv, TempInv, Matches
  <2> QED BY <1>1, <2>1, <2>2 DEF JobInv, TempInv, Matches
<1>5. TargetCommitted'
  BY <1>1 DEF JobInv, TargetCommitted, Matches
<1> QED BY <1>2, <1>3, <1>4, <1>5 DEF JobInv

\* The rename fails (the temporary file is gone) and the job exits with 1.
LEMMA JobRenameFails ==
    ASSUME JobInv, pc = "replace", pc' = "exited",
           UNCHANGED <<opt, lastIndex, lastTerm, fed, temp, target, printed, raftVars>>
    PROVE  JobInv'
BY DEF JobInv, TypeInv, FedInv, TempInv, TargetCommitted, Chosen, Termed,
       Steps, Matches, NoFile, File, raftVars

\* Another job renames onto the target, or leaves it alone.
LEMMA JobFrame ==
    ASSUME JobInv, target' \in File, TargetCommitted',
           UNCHANGED <<pc, opt, lastIndex, lastTerm, fed, temp, printed, raftVars>>
    PROVE  JobInv'
BY DEF JobInv, TypeInv, FedInv, TempInv, TargetCommitted, Chosen, Termed,
       Steps, Matches, NoFile, File, raftVars

-----------------------------------------------------------------------------
(***************************************************************************)
(* Refinement of the abstract Compaction spec.  The mapping is the         *)
(* identity on the target, the printed files and the peer's log, commit    *)
(* and prune index; the rest of the tool's state is hidden.  Replace is    *)
(* the abstract Install, ListPruneFiles is ListPrunable (or a stutter when *)
(* it prints nothing new), the peer's steps are RaftSteps, and every other *)
(* step of the tool is a stutter.                                          *)
(***************************************************************************)

\* The initial state is an initial state of the abstract spec.
LEMMA RefineInit == Init => Abstract!Init
BY DEF Init, Abstract!Init, NoFile, Abstract!NoFile, NoIndex

\* The temporary snapshot at the rename is the abstract SnapshotAt(lastIndex).
LEMMA TempIsSnapshot ==
    ASSUME IInv, pc = "replace"
    PROVE  temp = Abstract!SnapshotAt(lastIndex)
<1>1. /\ temp \in File /\ temp.index = lastIndex /\ lastIndex \in 1..commit
      /\ temp.term = log[lastIndex] /\ Matches(temp.data, lastIndex)
      /\ log \in Seq(Nat) /\ commit \in 0..Len(log)
  BY DEF IInv, TypeInv, TempInv
<1>2. /\ SubSeq(log, 1, lastIndex) \in Seq(Nat)
      /\ Len(SubSeq(log, 1, lastIndex)) = lastIndex
      /\ \A i \in 1..lastIndex : SubSeq(log, 1, lastIndex)[i] = log[i]
  BY <1>1, SubSeqProperties
<1>3. temp.data = SubSeq(log, 1, lastIndex)
  BY <1>1, <1>2, SeqEqual DEF Matches, File
<1>4. temp = [index |-> temp.index, term |-> temp.term, data |-> temp.data]
  BY <1>1 DEF File
<1> QED BY <1>1, <1>3, <1>4 DEF Abstract!SnapshotAt

\* Every step of the tool and of the peer is an abstract step or a stutter.
LEMMA RefineNext ==
    ASSUME IInv, IInv', [Next]_vars
    PROVE  [Abstract!Next]_Abstract!vars
<1> DEFINE Frame == UNCHANGED <<target, printed, log, commit, pruneIndex>>
<1>1. Frame => UNCHANGED Abstract!vars
  BY DEF Abstract!vars
<1>2. CASE Start \/ PeerAnswers \/ PeerFails \/ TermLookup \/ FeedEntry
           \/ FeedDone \/ WriteSnapshot \/ Cleanup \/ Finish
  <2>1. Frame
    BY <1>2 DEF Start, PeerAnswers, PeerFails, TermLookup, FeedEntry,
                FeedDone, WriteSnapshot, Cleanup, Finish, raftVars
  <2> QED BY <1>1, <2>1
<1>3. CASE Replace
  <2>1. /\ pc = "replace" /\ target' = temp
        /\ UNCHANGED <<printed, log, commit, pruneIndex>>
    BY <1>3 DEF Replace, raftVars
  <2>2. /\ target = NoFile /\ lastIndex \in 1..commit /\ lastIndex =< pruneIndex
    BY <2>1 DEF IInv, InstallInv, TempInv, Chosen
  <2>3. temp = Abstract!SnapshotAt(lastIndex)
    BY <2>1, TempIsSnapshot
  <2>4. Abstract!Install
    BY <2>1, <2>2, <2>3 DEF Abstract!Install, NoFile, Abstract!NoFile, NoIndex
  <2> QED BY <2>4 DEF Abstract!Next
<1>4. CASE ListPruneFiles
  <2>1. /\ pc = "prune"
        /\ UNCHANGED <<target, log, commit, pruneIndex>>
    BY <1>4 DEF ListPruneFiles, raftVars
  <2>2. CASE printed' = printed
    BY <1>1, <2>1, <2>2
  <2>3. CASE printed' # printed
    <3>1. target # NoFile /\ printed = {}
      BY <2>1 DEF IInv, TargetInv, TargetCommitted, PruneInv
    <3>2. \A f \in printed' : f \in Nat /\ LastOfFile(f) =< target.index
      BY <2>1 DEF IInv, TypeInv, PruneInv
    <3>3. Abstract!ListPrunable
      BY <2>1, <3>1, <3>2
         DEF Abstract!ListPrunable, NoFile, Abstract!NoFile, NoIndex,
             LastOfFile, Abstract!LastOfFile
    <3> QED BY <3>3 DEF Abstract!Next
  <2> QED BY <2>2, <2>3
<1>5. CASE Peer
  <2>1. /\ log' \in Seq(Nat)
        /\ commit \in Nat /\ commit' \in Nat
        /\ commit =< commit' /\ commit' =< Len(log')
        /\ \A i \in 1..commit : log'[i] = log[i]
        /\ pruneIndex' \in 0..commit' /\ pruneIndex =< pruneIndex'
        /\ UNCHANGED toolVars
    <3>1. TypeInv
      BY DEF IInv
    <3> QED BY <1>5, <3>1, PeerKeepsCommitted
  <2>2. pruneIndex \in Nat /\ pruneIndex' \in Nat
    BY <2>1 DEF IInv, TypeInv
  <2>3. Abstract!RaftStep
    BY <2>1, <2>2 DEF Abstract!RaftStep, toolVars
  <2> QED BY <2>3 DEF Abstract!Next
<1>6. CASE UNCHANGED vars
  BY <1>1, <1>6 DEF vars, toolVars, raftVars
<1> QED BY <1>2, <1>3, <1>4, <1>5, <1>6 DEF Next, Tool

(***************************************************************************)
(* zr-log-compact, with its compaction index taken from a peer, implements *)
(* its promise: the promise chain of lines 111-159 installs, once, the     *)
(* snapshot of a committed prefix within the prune index the leader        *)
(* reported at line 100, and lists only files that snapshot covers.        *)
(***************************************************************************)
THEOREM RefinementThm ==
    ASSUME PeerIndexOnly
    PROVE  Spec => CompactionRefined
<1>1. IInv /\ IInv' /\ [Next]_vars => [Abstract!Next]_Abstract!vars
  BY RefineNext
<1> QED BY AlwaysIInv, RefineInit, <1>1, PTL DEF Spec, CompactionRefined, Abstract!Spec
====
