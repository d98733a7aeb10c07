---------------------------- MODULE MCLogCompact ----------------------------
(***************************************************************************)
(* Model-checking instance of LogCompact: a peer log of up to 3 entries in *)
(* files of 2, two terms so that a new leader can cut the uncommitted      *)
(* suffix.  The tool is run with the index asked of the leader, with each  *)
(* missing option, with a bad -z, with and without configured state        *)
(* machine options, and with each kind of state machine.                   *)
(***************************************************************************)
EXTENDS LogCompact

MCMaxLog == 3
MCMaxTerm == 2
MCSegSize == 2

\* A run that gets past the option checks, asking the leader for the index.
Good(kind, zip, smOpts, unzip) ==
    [root |-> TRUE, target |-> TRUE, sm |-> TRUE, index |-> <<>>,
     peer |-> TRUE, zip |-> zip, smOpts |-> smOpts, smLevel |-> <<>>,
     unzip |-> unzip, kind |-> kind, prune |-> TRUE]

Default == Good("serialize", <<>>, TRUE, TRUE)

MCPeerOptions ==
    {Good(k, <<>>, TRUE, TRUE) : k \in SnapshotKinds}
    \cup {Good("serialize", z, s, u) :
            z \in {<<>>, <<10>>}, s \in BOOLEAN, u \in BOOLEAN}
    \cup {[Default EXCEPT ![f] = FALSE] :
            f \in {"root", "target", "sm", "peer", "prune"}}

\* Runs given -i with each index of the log.
MCExplicitOptions ==
    {[Default EXCEPT !.index = <<i>>, !.peer = FALSE] : i \in 1..MCMaxLog}
=============================================================================
