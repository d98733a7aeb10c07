------------------------------- MODULE MCRepl -------------------------------
(***************************************************************************)
(* Model-checking instance of Repl: a cluster of two peers, three .info    *)
(* commands (two can overlap and a third can follow them), one reset.      *)
(***************************************************************************)
EXTENDS Repl

CONSTANTS p1, p2, seed, noPeer, none

MCPeers == {p1, p2}
MCMaxCalls == 3
MCMaxClients == 2
=============================================================================
