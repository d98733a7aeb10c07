-------------------------- MODULE MCCompactionRace --------------------------
(***************************************************************************)
(* Model-checking instance of CompactionRace: the peer log and files of    *)
(* MCLogCompact, and two jobs that ask the leader for their index, each    *)
(* with a state machine that streams its snapshot while it is fed (the     *)
(* temporary file exists from the term lookup on) or one that serializes  *)
(* it at the end (the file exists from the snapshot step on).              *)
(***************************************************************************)
EXTENDS CompactionRace

MCMaxLog == 3
MCMaxTerm == 2
MCSegSize == 2

MCRaceOptions ==
    {[root |-> TRUE, target |-> TRUE, sm |-> TRUE, index |-> <<>>,
      peer |-> TRUE, zip |-> <<>>, smOpts |-> TRUE, smLevel |-> <<>>,
      unzip |-> TRUE, kind |-> k, prune |-> TRUE] :
        k \in {"readStream", "serialize"}}
=============================================================================
