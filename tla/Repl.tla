-------------------------------- MODULE Repl --------------------------------
(***************************************************************************)
(* The console commands of the zmq-raft client REPL (src/unnamed/part_000, *)
(* lines 26-143): the shared ZmqRaftClient `client`, replaced on every     *)
(* REPL reset; `.peers`, whose requestConfig lets the client learn the     *)
(* cluster's peers; and `.info <id>`, whose showInfo points the client at  *)
(* one peer with setUrls, asks it for its log info, and puts the saved     *)
(* urls back when the answer comes.                                        *)
(*                                                                         *)
(* The REPL keeps reading commands while a command's promise is pending,   *)
(* so several showInfo calls can be in flight at once.  A url list is      *)
(* abstracted to what it points at: the configured url (Seed) or a peer.   *)
(***************************************************************************)
EXTENDS Naturals

CONSTANTS
    Peers,       \* the cluster's peer ids
    Seed,        \* the url the REPL was started with (options.url)
    NoPeer,      \* an argument of .info that is no known peer id
    None,        \* showInfo's `urls` left undefined
    MaxCalls,    \* bound on the .info commands typed
    MaxClients,  \* bound on the clients created (the first and each reset)
    MayFail      \* whether a requestLogInfo may reject (5000 ms timeout)

VARIABLES
    client,      \* the client the global `client` refers to
    urls,        \* the urls each client sends its requests to
    known,       \* whether client.peers holds the cluster's peers
    closed,      \* the clients closed by a reset
    calls,       \* the showInfo calls whose requestLogInfo is pending
    issued,      \* the .info commands typed so far
    running      \* FALSE once the REPL's 'exitsafe' ended the process

vars == <<client, urls, known, closed, calls, issued, running>>

Clients == 1..MaxClients

Init ==
    /\ client = 1
    /\ urls = [c \in Clients |-> Seed]
    /\ known = [c \in Clients |-> FALSE]
    /\ closed = {}
    /\ calls = {}
    /\ issued = 0
    /\ running = TRUE

(***************************************************************************)
(* `.info id`: when the client knows peer id, save its urls, point it at   *)
(* that peer and ask that peer (anyPeer); otherwise ask the leader, with   *)
(* nothing saved.                                                          *)
(***************************************************************************)
ShowInfo(id) ==
    LET anyPeer == known[client] /\ id \in Peers
    IN  /\ running
        /\ issued < MaxCalls
        /\ calls' = calls \cup
              {[n |-> issued + 1, cl |-> client,
                saved |-> IF anyPeer THEN urls[client] ELSE None]}
        /\ urls' = IF anyPeer THEN [urls EXCEPT ![client] = id] ELSE urls
        /\ issued' = issued + 1
        /\ UNCHANGED <<client, known, closed, running>>

(***************************************************************************)
(* The log info arrives: it is printed, and line 136, `if (urls)          *)
(* client.setUrls(urls)`, puts the saved urls on the client that `client`  *)
(* refers to now.  A closed client gets no more answers.                   *)
(***************************************************************************)
InfoAnswered(c) ==
    /\ running
    /\ c.cl \notin closed
    /\ calls' = calls \ {c}
    /\ urls' = IF c.saved # None THEN [urls EXCEPT ![client] = c.saved]
                                 ELSE urls
    /\ UNCHANGED <<client, known, closed, issued, running>>

\* requestLogInfo rejects (timeout): the catch prints the error, no restore.
InfoFailed(c) ==
    /\ running
    /\ MayFail
    /\ calls' = calls \ {c}
    /\ UNCHANGED <<client, urls, known, closed, issued, running>>

\* `.peers`: requestConfig answers, and the client learns the peers.
ListPeers ==
    /\ running
    /\ known' = [known EXCEPT ![client] = TRUE]
    /\ UNCHANGED <<client, urls, closed, calls, issued, running>>

(***************************************************************************)
(* The REPL's 'reset': initializeContext closes the client and makes a new *)
(* one with the configured url and no known peers.                         *)
(***************************************************************************)
Reset ==
    /\ running
    /\ client < MaxClients
    /\ closed' = closed \cup {client}
    /\ client' = client + 1
    /\ UNCHANGED <<urls, known, calls, issued, running>>

\* 'exitsafe': process.exit().
ExitSafe ==
    /\ running
    /\ running' = FALSE
    /\ UNCHANGED <<client, urls, known, closed, calls, issued>>

Next ==
    \/ \E id \in Peers \cup {NoPeer} : ShowInfo(id)
    \/ \E c \in calls : InfoAnswered(c) \/ InfoFailed(c)
    \/ ListPeers
    \/ Reset
    \/ ExitSafe

Spec == Init /\ [][Next]_vars

-----------------------------------------------------------------------------
(***************************************************************************)
(* Once no .info command is pending, the client the REPL works with sends  *)
(* its requests to the configured url again: showInfo's setUrls of line    *)
(* 122 is undone by the restore of line 136.  About the urls saved at line *)
(* 121 while another showInfo has the client pointed at a peer.            *)
(***************************************************************************)
UrlsRestored == calls = {} => urls[client] = Seed
=============================================================================
