----------------------------- MODULE Compaction -----------------------------
(***************************************************************************)
(* What one run of the log compaction tool promises, with its promise      *)
(* chain, its temporary file and the state machine it feeds hidden.  The   *)
(* run installs, once and in one step, the snapshot of the log's prefix up *)
(* to an index that is committed and within the leader's prune index, and *)
(* after that lists log files that the snapshot covers.                    *)
(*                                                                         *)
(* The peer is abstracted to what Raft promises of it: its log may change  *)
(* in any way that keeps the committed prefix, and the commit index and    *)
(* the prune index only grow, the prune index never past the commit index. *)
(***************************************************************************)
EXTENDS Integers, Sequences

CONSTANT SegSize    \* entries per log file

VARIABLES
    target,      \* the snapshot file at the target path
    printed,     \* the log files listed for pruning
    log,         \* the peer's log: the term of each entry
    commit,      \* the cluster's commit index
    pruneIndex   \* the leader's prune index

vars == <<target, printed, log, commit, pruneIndex>>

NoFile == [index |-> -1, term |-> 0, data |-> <<>>]

\* The last index held by log file f (files are numbered from 0).
LastOfFile(f) == (f + 1) * SegSize

\* The snapshot of the log up to index i: its header and its entries.
SnapshotAt(i) == [index |-> i, term |-> log[i], data |-> SubSeq(log, 1, i)]

Init ==
    /\ target = NoFile
    /\ printed = {}
    /\ log = <<>>
    /\ commit = 0
    /\ pruneIndex = 0

\* The snapshot of a committed prefix within the prune index is installed.
Install ==
    /\ target = NoFile
    /\ \E i \in 1..commit : /\ i =< pruneIndex
                            /\ target' = SnapshotAt(i)
    /\ UNCHANGED <<printed, log, commit, pruneIndex>>

\* Once, after the installation, log files that end within it are listed.
ListPrunable ==
    /\ target # NoFile
    /\ printed = {}
    /\ \A f \in printed' : f \in Nat /\ LastOfFile(f) =< target.index
    /\ UNCHANGED <<target, log, commit, pruneIndex>>

\* Raft: the committed prefix stays, commit and prune index only grow.
RaftStep ==
    /\ log' \in Seq(Nat)
    /\ commit' \in commit..Len(log')
    /\ \A i \in 1..commit : log'[i] = log[i]
    /\ pruneIndex' \in pruneIndex..commit'
    /\ UNCHANGED <<target, printed>>

Next == Install \/ ListPrunable \/ RaftStep

Spec == Init /\ [][Next]_vars
=============================================================================
