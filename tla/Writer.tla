------------------------------- MODULE Writer -------------------------------
(***************************************************************************)
(* The Writable side of ZmqRaftSubscriber (src/unnamed/part_001): the      *)
(* application writes update requests, Node hands them to _write one at a  *)
(* time or, when several are buffered behind a write in progress, to       *)
(* _writev all at once, and each is sent with client.requestUpdate.  The   *)
(* cluster commits the requests in the order it receives them (any order   *)
(* for those in flight together), other clients commit in between, and the *)
(* answers come back in any order; a request may also be rejected.  Each   *)
(* answer raises lastUpdateLogIndex to its commit index.                   *)
(***************************************************************************)
EXTENDS Integers, Sequences, FiniteSets

CONSTANTS
    NumRequests,  \* update requests the application writes, 1..NumRequests
    Invalid,      \* those that are not UpdateRequests (isUpdateRequest fails)
    StartIndex,   \* options.lastIndex: the initial lastUpdateLogIndex
    MaxOther,     \* commits of other clients
    MaxFailures   \* rejected requestUpdate calls

ASSUME WriterAssumption ==
    /\ NumRequests \in Nat /\ Invalid \subseteq 1..NumRequests
    /\ StartIndex \in Nat /\ MaxOther \in Nat /\ MaxFailures \in Nat

Requests == 1..NumRequests

VARIABLES
    nextReq,             \* the next request the application writes
    queue,               \* requests buffered by the Writable
    batch,               \* requests of the _write/_writev call in progress
    inflight,            \* requests whose requestUpdate promise is pending
    resolved,            \* requests whose promise resolved
    rejected,            \* requests whose promise rejected
    acked,               \* requests whose write callback reported success
    errored,             \* a write callback reported an error
    lastUpdateLogIndex,  \* this.lastUpdateLogIndex
    committed,           \* the commit index of each request, 0 if none
    nextIndex,           \* the index the cluster commits next
    other,               \* commits of other clients so far
    failures             \* rejections so far

vars == <<nextReq, queue, batch, inflight, resolved, rejected, acked, errored,
          lastUpdateLogIndex, committed, nextIndex, other, failures>>

\* The first position of b holding a request that is not an UpdateRequest.
FirstInvalid(b) ==
    IF \E j \in 1..Len(b) : b[j] \in Invalid
    THEN CHOOSE j \in 1..Len(b) : b[j] \in Invalid /\ \A i \in 1..(j - 1) : b[i] \notin Invalid
    ELSE Len(b) + 1

(***************************************************************************)
(* _writev(requests): the loop sends each request with requestUpdate until *)
(* one is not an UpdateRequest, whose TypeError makes Promise.all reject   *)
(* at once: the callback reports the error while the requests already sent *)
(* go on.  _write(request) is the case of one request: it reports the      *)
(* TypeError without sending anything.  A Writable that got an error takes *)
(* no more writes.                                                         *)
(***************************************************************************)
Dispatch(b) ==
    LET k == FirstInvalid(b)
        sent == {b[j] : j \in {i \in 1..Len(b) : i < k}}
    IN  /\ inflight' = inflight \cup sent
        /\ IF k =< Len(b)
           THEN errored' = TRUE /\ batch' = {}
           ELSE batch' = sent /\ UNCHANGED errored

Init ==
    /\ nextReq = 1
    /\ queue = <<>>
    /\ batch = {}
    /\ inflight = {}
    /\ resolved = {}
    /\ rejected = {}
    /\ acked = {}
    /\ errored = FALSE
    /\ lastUpdateLogIndex = StartIndex
    /\ committed = [r \in Requests |-> 0]
    /\ nextIndex = StartIndex + 1
    /\ other = 0
    /\ failures = 0

(***************************************************************************)
(* writable.write(request): handed to _write at once when no write is in   *)
(* progress, buffered otherwise.  The first write runs the lazy _write,    *)
(* which also starts the publisher url request of the read side.           *)
(***************************************************************************)
AppWrite ==
    /\ nextReq \in Requests
    /\ ~errored
    /\ nextReq' = nextReq + 1
    /\ IF batch = {} /\ queue = <<>>
       THEN Dispatch(<<nextReq>>) /\ UNCHANGED queue
       ELSE queue' = Append(queue, nextReq) /\ UNCHANGED <<batch, inflight, errored>>
    /\ UNCHANGED <<resolved, rejected, acked, lastUpdateLogIndex, committed,
                   nextIndex, other, failures>>

\* Mutant: the write callback runs as soon as one answer of the batch is in.
BatchDoneAny(b) == b \cap resolved # {}

\* Promise.all resolves: every request of the call has been answered.
BatchDone(b) == b \subseteq resolved

(***************************************************************************)
(* The write callback reports success; Node then hands what it buffered in *)
(* the meantime to _writev (to _write when it is one request).             *)
(***************************************************************************)
WriteCallback ==
    /\ batch # {}
    /\ BatchDone(batch)
    /\ acked' = acked \cup batch
    /\ IF queue # <<>>
       THEN Dispatch(queue) /\ queue' = <<>>
       ELSE batch' = {} /\ UNCHANGED <<queue, inflight, errored>>
    /\ UNCHANGED <<nextReq, resolved, rejected, lastUpdateLogIndex, committed,
                   nextIndex, other, failures>>

\* Promise.all rejects with the first rejection: the callback reports it.
WriteCallbackError ==
    /\ batch \cap rejected # {}
    /\ batch' = {}
    /\ errored' = TRUE
    /\ UNCHANGED <<nextReq, queue, inflight, resolved, rejected, acked,
                   lastUpdateLogIndex, committed, nextIndex, other, failures>>

\* The cluster commits a request it received (once: requestId deduplicates).
CommitRequest ==
    /\ \E r \in inflight :
          /\ committed[r] = 0
          /\ committed' = [committed EXCEPT ![r] = nextIndex]
    /\ nextIndex' = nextIndex + 1
    /\ UNCHANGED <<nextReq, queue, batch, inflight, resolved, rejected, acked,
                   errored, lastUpdateLogIndex, other, failures>>

\* Another client's update is committed.
CommitOther ==
    /\ other < MaxOther
    /\ other' = other + 1
    /\ nextIndex' = nextIndex + 1
    /\ UNCHANGED <<nextReq, queue, batch, inflight, resolved, rejected, acked,
                   errored, lastUpdateLogIndex, committed, failures>>

\* Mutant: the answer overwrites lastUpdateLogIndex.
RaisedIndexAlways(i) == i

\* `if (index > this.lastUpdateLogIndex) this.lastUpdateLogIndex = index`.
RaisedIndex(i) == IF i > lastUpdateLogIndex THEN i ELSE lastUpdateLogIndex

\* The answer of a committed request: the then handler of requestUpdate.
Resolve ==
    /\ \E r \in inflight :
          /\ committed[r] # 0
          /\ inflight' = inflight \ {r}
          /\ resolved' = resolved \cup {r}
          /\ lastUpdateLogIndex' = RaisedIndex(committed[r])
    /\ UNCHANGED <<nextReq, queue, batch, rejected, acked, errored, committed,
                   nextIndex, other, failures>>

\* requestUpdate rejects, whether or not the cluster committed the request.
Reject ==
    /\ failures < MaxFailures
    /\ failures' = failures + 1
    /\ \E r \in inflight :
          /\ inflight' = inflight \ {r}
          /\ rejected' = rejected \cup {r}
    /\ UNCHANGED <<nextReq, queue, batch, resolved, acked, errored,
                   lastUpdateLogIndex, committed, nextIndex, other>>

Next ==
    \/ AppWrite \/ WriteCallback \/ WriteCallbackError
    \/ CommitRequest \/ CommitOther \/ Resolve \/ Reject

Spec == Init /\ [][Next]_vars

-----------------------------------------------------------------------------
\* The type of every variable: the sets the requests of _write/_writev move
\* through, and the numeric commit indices the answers carry.
TypeOK ==
    /\ nextReq \in 1..(NumRequests + 1)
    /\ queue \in Seq(Requests)
    /\ batch \subseteq Requests /\ inflight \subseteq Requests
    /\ resolved \subseteq Requests /\ rejected \subseteq Requests
    /\ acked \subseteq Requests
    /\ errored \in BOOLEAN
    /\ lastUpdateLogIndex \in Nat
    /\ committed \in [Requests -> Nat]
    /\ nextIndex \in Nat /\ other \in Nat /\ failures \in Nat

(***************************************************************************)
(* lastUpdateLogIndex is the highest commit index among the answers        *)
(* received (the start index before any), whatever order the answers of   *)
(* concurrent requests of a _writev come back in.                          *)
(***************************************************************************)
UpdateIndexIsHighest ==
    \/ /\ lastUpdateLogIndex = StartIndex
       /\ \A r \in resolved : committed[r] =< StartIndex
    \/ \E r \in resolved :
          /\ lastUpdateLogIndex = committed[r]
          /\ \A s \in resolved : committed[s] =< committed[r]

(***************************************************************************)
(* When a write callback reports success, every request it covers is       *)
(* committed and lastUpdateLogIndex already covers its commit index, so an *)
(* application that waits for the callback can rely on it.                 *)
(***************************************************************************)
AckedCovered ==
    \A r \in acked : committed[r] # 0 /\ committed[r] =< lastUpdateLogIndex
=============================================================================
