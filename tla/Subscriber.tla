----------------------------- MODULE Subscriber -----------------------------
(***************************************************************************)
(* The read side of ZmqRaftSubscriber (lib/client/zmq_raft_subscriber.js,  *)
(* src/unnamed/part_001) together with the environment it runs in: the     *)
(* leader's broadcast publisher, the committed log and its snapshot, the   *)
(* zeromq SUB queue, the entries RPC served by the leader, and the Node.js *)
(* Readable that the subscriber pushes into.                               *)
(*                                                                         *)
(* Log entries are identified by their index: Raft makes the entry at a    *)
(* committed index unique, so the payload is left out.  A broadcast        *)
(* message carries the index of its last entry and the number of entries   *)
(* it holds.  The event loop is single threaded: each action is one        *)
(* callback run to completion.                                             *)
(***************************************************************************)
EXTENDS Integers, Sequences

CONSTANTS
    MaxIndex,     \* bound on the committed log index
    MaxBatch,     \* most entries the publisher puts in one broadcast
    HWM,          \* readableHighWaterMark of the Duplex (4 in the code)
    NumChunks,    \* chunks a snapshot transfer is split into
    MaxChan,      \* messages the SUB socket queue holds
    MaxFaults,    \* bound on losses, RPC errors, missing urls and timeouts
    StartIndex,   \* options.lastIndex given to the constructor
    MayClose      \* whether the application calls close()

ASSUME ConstAssumption ==
    /\ MaxIndex \in Nat /\ MaxBatch \in Nat \ {0} /\ HWM \in Nat \ {0}
    /\ NumChunks \in Nat \ {0} /\ MaxChan \in Nat \ {0}
    /\ MaxFaults \in Nat /\ StartIndex \in 0..MaxIndex /\ MayClose \in BOOLEAN

VARIABLES
    \* ---- ZmqRaftSubscriber fields
    lastLogIndex,       \* this.lastLogIndex
    ahead,              \* this.ahead: broadcasts held back behind a gap
    isFresh,            \* this.isFresh (null and false read alike)
    subscriberTimeout,  \* this._subscriberTimeout, see TimeoutStates
    connected,          \* this.url !== null
    pendingPubUrl,      \* this._pendingRequestPubUrl !== null
    pendingMissing,     \* this._pendingMissing !== null
    rpcStream,          \* chunks the pending entries RPC has still to emit
    pendingRpcStream,   \* this._pendingRpcStream !== null (paused stream)
    started,            \* the lazy _read initialiser has run (own _read deleted)
    closed,             \* close() has run: this.sub === null, this.client === null
    failed,             \* a TypeError on the null client killed it
    \* ---- the Readable side of the Duplex (Node.js)
    buffered,           \* items pushed and not yet read by the consumer
    reading,            \* Readable state.reading: _read called, no push yet
    delivered,          \* every item ever pushed, in order
    \* ---- the cluster and the network
    commit,             \* the leader's last committed (and applied) index
    snapshotIndex,      \* last index included in the leader's snapshot
    channel,            \* broadcast messages queued in the SUB socket
    faults              \* faults injected so far

subVars == <<lastLogIndex, ahead, isFresh, subscriberTimeout, connected,
             pendingPubUrl, pendingMissing, rpcStream, pendingRpcStream,
             started, closed, failed>>
streamVars == <<buffered, reading, delivered>>
envVars == <<commit, snapshotIndex, channel, faults>>
vars == <<subVars, streamVars, envVars>>

(***************************************************************************)
(* _subscriberTimeout takes four kinds of value in the code: undefined     *)
(* before the first _read, true or a fired timer handle ("on": truthy and  *)
(* nothing pending), an armed timer, and null while backpressured.         *)
(***************************************************************************)
TimeoutStates == {"undefined", "on", "armed", "null"}

Item == [kind : {"entry", "chunk"}, idx : 0..MaxIndex, chunk : 0..NumChunks]
Msg == [last : 0..MaxIndex, cnt : 0..MaxBatch]

Entry(i) == [kind |-> "entry", idx |-> i, chunk |-> 0]
Chunk(s, c) == [kind |-> "chunk", idx |-> s, chunk |-> c]

\* The log entries from..to as a sequence of items (empty when to < from).
Entries(from, to) == [j \in 1..(to - from + 1) |-> Entry(from + j - 1)]

MinOf(a, b) == IF a =< b THEN a ELSE b
SetMax(S) == CHOOSE x \in S : \A y \in S : y =< x

\* `if (this._subscriberTimeout)`: the truthy values.
Truthy(t) == t \in {"on", "armed"}

\* _refreshSubTimeout: re-arm the broadcast timer unless paused or unset.
RefreshSubTimeout(t) == IF Truthy(t) THEN "armed" ELSE t

\* _pauseSubscriber: clear the timer, pause and unsubscribe the SUB socket.
PauseSubscriber(t) == IF Truthy(t) THEN "null" ELSE t

\* The SUB socket is subscribed to the secret and not paused.
Subscribed == Truthy(subscriberTimeout)

(***************************************************************************)
(* The entries RPC as the leader serves it (lib/server, not under src/):   *)
(* from prevIndex with a count, it streams the entries after prevIndex;    *)
(* when they are compacted it streams the snapshot in chunks, all carrying *)
(* the snapshot's index, then the entries after it up to the count.        *)
(***************************************************************************)
EntriesResponse(prevIndex, count) ==
    LET upto == MinOf(prevIndex + count, commit)
    IN  IF prevIndex < snapshotIndex
        THEN [c \in 1..NumChunks |-> Chunk(snapshotIndex, c)]
             \o Entries(snapshotIndex + 1, upto)
        ELSE Entries(prevIndex + 1, upto)

-----------------------------------------------------------------------------
(***************************************************************************)
(* Helpers of the subscriber.                                              *)
(***************************************************************************)

\* this.push(item) for each of items: the Readable buffers them and a push
\* clears state.reading.
Push(items) ==
    /\ delivered' = delivered \o items
    /\ buffered' = buffered + Len(items)
    /\ reading' = IF items = <<>> THEN reading ELSE FALSE

\* The result of the last this.push: false once the buffer reaches the
\* high water mark.  _appendEntries returns true when it pushes nothing.
PushOk(n) == n = 0 \/ buffered + n < HWM

\* _appendEntries throws MissingEntriesError: the message does not reach
\* back to lastLogIndex + 1.
IsGap(m, L) == m.last - L > m.cnt

\* Mutant: the push loop starts one entry early (re-pushes lastLogIndex).
AppendedEntriesFromL(m, L) ==
    IF m.last > L THEN Entries(L, m.last) ELSE <<>>

\* The entries _appendEntries pushes: those of m after L, with the indexes
\* firstLogIndex + i for i in entryCount - gapSize .. entryCount - 1.
AppendedEntries(m, L) ==
    IF m.last > L THEN Entries(L + 1, m.last) ELSE <<>>

\* Mutant: lastLogIndex advanced by the entry count of the message.
AppendedIndexByCount(m, L) == L + m.cnt

\* lastLogIndex after _appendEntries.
AppendedIndex(m, L) == IF m.last > L THEN m.last ELSE L

\* The count _requestMissingEntries is asked for: the entries between
\* lastLogIndex and the first entry of the message.
MissingCount(m, L) == m.last - m.cnt - L

\* Mutant: every chunk of a snapshot moves lastLogIndex.
SetsLastIndexAlways(c) == TRUE

\* Whether a 'data' chunk of the entries RPC sets lastLogIndex:
\* chunk.isLogEntry || chunk.isLastChunk.
SetsLastIndex(c) == c.kind = "entry" \/ c.chunk = NumChunks

\* Mutant: _read forgets to resume the paused entries RPC.
ResumeRpcStreamNot(paused) == paused

\* _read resumes a paused entries RPC and forgets it.
ResumeRpcStream(paused) == FALSE

(***************************************************************************)
(* _requestMissingEntries(count) with lastLogIndex = from, when `gap` says *)
(* that it is called at all: it returns the pending request if there is    *)
(* one, does nothing while backpressured (_subscriberTimeout === null),    *)
(* and otherwise marks the subscriber stale and starts the entries RPC.    *)
(* After close() this.client is null: the Promise executor throws, the     *)
(* request is a rejected promise nobody handles, and Node (15 and later)   *)
(* ends the process on the unhandled rejection.                            *)
(***************************************************************************)
RequestMissingEntries(gap, pending, t, from, count, stream) ==
    LET req == gap /\ ~pending /\ t # "null"
    IN  /\ pendingMissing' = (pending \/ req)
        /\ rpcStream' = IF req /\ ~closed THEN EntriesResponse(from, count)
                       ELSE IF req THEN <<>> ELSE stream
        /\ isFresh' = IF req THEN FALSE ELSE isFresh
        /\ failed' = (req /\ closed)

(***************************************************************************)
(* _flushAhead, called once the pending RPC is cleared.  The loop applies  *)
(* ahead[1], ahead[2], ... in turn; run[j] is lastLogIndex after the j-th  *)
(* message, and stop the first message that leaves a gap (Len + 1 when    *)
(* none does).  The messages before stop push the entries                  *)
(* lastLogIndex + 1 .. run[stop - 1] and pause the subscriber if a push    *)
(* fills the buffer; stop and the messages after it stay in `ahead` and    *)
(* the gap before stop is requested.  _appendEntries only ever raises     *)
(* this.lastLogIndex (line 348), so run[j] ranges over lastLogIndex ..     *)
(* MaxIndex.                                                               *)
(***************************************************************************)
FlushAhead ==
    \E run \in [0..Len(ahead) -> lastLogIndex..MaxIndex], stop \in 1..(Len(ahead) + 1) :
       /\ run[0] = lastLogIndex
       /\ \A j \in 1..Len(ahead) : run[j] = AppendedIndex(ahead[j], run[j - 1])
       /\ \A j \in 1..(stop - 1) : ~IsGap(ahead[j], run[j - 1])
       /\ stop =< Len(ahead) => IsGap(ahead[stop], run[stop - 1])
       /\ LET newL == run[stop - 1]
              pushed == Entries(lastLogIndex + 1, newL)
              t1 == IF PushOk(Len(pushed)) THEN subscriberTimeout
                    ELSE PauseSubscriber(subscriberTimeout)
          IN  /\ lastLogIndex' = newL
              /\ ahead' = SubSeq(ahead, stop, Len(ahead))
              /\ Push(pushed)
              /\ subscriberTimeout' = t1
              /\ RequestMissingEntries(stop =< Len(ahead), FALSE, t1, newL,
                                       MissingCount(ahead[stop], newL), <<>>)

-----------------------------------------------------------------------------
(***************************************************************************)
(* Operations of the subscriber.                                           *)
(***************************************************************************)

Init ==
    /\ lastLogIndex = StartIndex
    /\ ahead = <<>>
    /\ isFresh = FALSE
    /\ subscriberTimeout = "undefined"
    /\ connected = FALSE
    /\ pendingPubUrl = FALSE
    /\ pendingMissing = FALSE
    /\ rpcStream = <<>>
    /\ pendingRpcStream = FALSE
    /\ started = FALSE
    /\ closed = FALSE
    /\ failed = FALSE
    /\ buffered = 0
    /\ reading = FALSE
    /\ delivered = <<>>
    /\ commit \in StartIndex..MaxIndex
    /\ snapshotIndex \in 0..commit
    /\ channel = <<>>
    /\ faults = 0

(***************************************************************************)
(* Node calls _read when the consumer wants data, the buffer is below the  *)
(* high water mark and no earlier _read is waiting for a push.             *)
(***************************************************************************)
ReadReady == ~reading /\ buffered < HWM

(***************************************************************************)
(* The first call is the lazy initialiser of the constructor: it deletes   *)
(* itself, subscribes, sets _subscriberTimeout to true and looks for the   *)
(* publisher.  After close() this.client is null: _requestPublisherUrl     *)
(* (241, 277) calls client.requestConfig() (244) at once, and the         *)
(* TypeError leaves _read before its .catch is attached.                   *)
(***************************************************************************)
ReadInit ==
    /\ ReadReady
    /\ ~started
    /\ started' = TRUE
    /\ reading' = TRUE
    /\ IF closed
       THEN /\ failed' = TRUE
            /\ UNCHANGED <<subscriberTimeout, pendingPubUrl>>
       ELSE /\ subscriberTimeout' = "on"
            /\ pendingPubUrl' = TRUE
            /\ UNCHANGED failed
    /\ UNCHANGED <<lastLogIndex, ahead, isFresh, connected, pendingMissing,
                   rpcStream, pendingRpcStream, closed, buffered, delivered,
                   envVars>>

(***************************************************************************)
(* Later calls undo a backpressure pause: resume and resubscribe the SUB   *)
(* socket and re-arm its timer, then resume a paused entries RPC.          *)
(***************************************************************************)
ReadResume ==
    /\ ReadReady
    /\ started
    /\ reading' = TRUE
    /\ subscriberTimeout' = IF subscriberTimeout = "null"
                            THEN "armed" ELSE subscriberTimeout
    /\ pendingRpcStream' = ResumeRpcStream(pendingRpcStream)
    /\ UNCHANGED <<lastLogIndex, ahead, isFresh, connected, pendingPubUrl,
                   pendingMissing, rpcStream, started, closed, failed,
                   buffered, delivered, envVars>>

Read == ReadInit \/ ReadResume

(***************************************************************************)
(* _handleBroadcast of a message that leaves a gap: keep it in `ahead`     *)
(* unless it is a heartbeat, request the missing entries, refresh the      *)
(* broadcast timer.                                                        *)
(***************************************************************************)
BroadcastGap ==
    /\ channel # <<>>
    /\ subscriberTimeout # "null"
    /\ LET m == Head(channel) IN
       /\ IsGap(m, lastLogIndex)
       /\ channel' = Tail(channel)
       /\ ahead' = IF m.cnt # 0 THEN Append(ahead, m) ELSE ahead
       /\ RequestMissingEntries(TRUE, pendingMissing, subscriberTimeout,
                                lastLogIndex, MissingCount(m, lastLogIndex),
                                rpcStream)
       /\ subscriberTimeout' = RefreshSubTimeout(subscriberTimeout)
    /\ UNCHANGED <<lastLogIndex, connected, pendingPubUrl, pendingRpcStream,
                   started, closed, streamVars, commit, snapshotIndex, faults>>

(***************************************************************************)
(* _handleBroadcast of a message that reaches back to lastLogIndex + 1:    *)
(* push its new entries, pause the subscriber when the Readable is full,   *)
(* turn fresh, refresh the broadcast timer.                                *)
(***************************************************************************)
BroadcastApplied ==
    /\ channel # <<>>
    /\ subscriberTimeout # "null"
    /\ LET m == Head(channel)
           pushed == AppendedEntries(m, lastLogIndex)
           t1 == IF PushOk(Len(pushed)) THEN subscriberTimeout
                 ELSE PauseSubscriber(subscriberTimeout)
       IN  /\ ~IsGap(m, lastLogIndex)
           /\ channel' = Tail(channel)
           /\ Push(pushed)
           /\ lastLogIndex' = AppendedIndex(m, lastLogIndex)
           /\ isFresh' = TRUE
           /\ subscriberTimeout' = RefreshSubTimeout(t1)
    /\ UNCHANGED <<ahead, connected, pendingPubUrl, pendingMissing, rpcStream,
                   pendingRpcStream, started, closed, failed, commit,
                   snapshotIndex, faults>>

HandleBroadcast == BroadcastGap \/ BroadcastApplied

(***************************************************************************)
(* The 'data' handler of the missing-entries RPC: a chunk past             *)
(* lastLogIndex is pushed; when the push fills the buffer the RPC stream   *)
(* is paused and kept, and the subscriber paused; a log entry or the last  *)
(* chunk of a snapshot moves lastLogIndex.                                 *)
(***************************************************************************)
RpcData ==
    /\ pendingMissing
    /\ ~pendingRpcStream
    /\ rpcStream # <<>>
    /\ rpcStream' = Tail(rpcStream)
    /\ LET c == Head(rpcStream) IN
       IF c.idx > lastLogIndex
       THEN /\ Push(<<c>>)
            /\ IF PushOk(1)
               THEN UNCHANGED <<pendingRpcStream, subscriberTimeout>>
               ELSE /\ pendingRpcStream' = TRUE
                    /\ subscriberTimeout' = PauseSubscriber(subscriberTimeout)
            /\ lastLogIndex' = IF SetsLastIndex(c) THEN c.idx ELSE lastLogIndex
       ELSE UNCHANGED <<lastLogIndex, streamVars, pendingRpcStream,
                        subscriberTimeout>>
    /\ UNCHANGED <<ahead, isFresh, connected, pendingPubUrl, pendingMissing,
                   started, closed, failed, envVars>>

\* The 'end' handler: clear the pending request, then _flushAhead.
RpcEnd ==
    /\ pendingMissing
    /\ ~pendingRpcStream
    /\ rpcStream = <<>>
    /\ pendingRpcStream' = FALSE
    /\ FlushAhead
    /\ UNCHANGED <<connected, pendingPubUrl, started, closed, envVars>>

(***************************************************************************)
(* The 'error' handler: the request is cleared; an OutOfOrder error        *)
(* resolves through _flushAhead, any other is emitted as 'error' and the   *)
(* subscriber waits for the next broadcast.                                *)
(***************************************************************************)
RpcError ==
    /\ pendingMissing
    /\ faults < MaxFaults
    /\ faults' = faults + 1
    /\ pendingRpcStream' = FALSE
    /\ \/ FlushAhead
       \/ /\ pendingMissing' = FALSE
          /\ rpcStream' = <<>>
          /\ UNCHANGED <<lastLogIndex, ahead, isFresh, subscriberTimeout,
                         failed, streamVars>>
    /\ UNCHANGED <<connected, pendingPubUrl, started, closed, commit,
                   snapshotIndex, channel>>

\* connect(url): disconnect the old url, whose queued messages are lost,
\* and connect to the new one when there is one.
Connect(found) ==
    /\ connected' = found
    /\ channel' = <<>>

(***************************************************************************)
(* _requestPublisherUrl: requestConfig, then the '*' request to the        *)
(* leader; connect(url) with the answer.  A url found connects the SUB     *)
(* socket, refreshes the timer and clears the pending request.  An         *)
(* undefined url disconnects the socket and the request is retried.        *)
(* Retries on no leader and on timeouts change nothing the subscriber      *)
(* keeps.  What the closed client does with a request is not in the        *)
(* source, so the answers are modelled while the subscriber is open.       *)
(***************************************************************************)
PublisherUrlFound ==
    /\ pendingPubUrl
    /\ ~closed
    /\ pendingPubUrl' = FALSE
    /\ Connect(TRUE)
    /\ subscriberTimeout' = RefreshSubTimeout(subscriberTimeout)
    /\ UNCHANGED <<lastLogIndex, ahead, isFresh, pendingMissing, rpcStream,
                   pendingRpcStream, started, closed, failed, streamVars,
                   commit, snapshotIndex, faults>>

PublisherUrlMissing ==
    /\ pendingPubUrl
    /\ ~closed
    /\ faults < MaxFaults
    /\ faults' = faults + 1
    /\ Connect(FALSE)
    /\ UNCHANGED <<lastLogIndex, ahead, isFresh, subscriberTimeout,
                   pendingPubUrl, pendingMissing, rpcStream, pendingRpcStream,
                   started, closed, failed, streamVars, commit, snapshotIndex>>

\* The broadcast timer fires: emit 'timeout' and look for the publisher.
BroadcastTimeout ==
    /\ subscriberTimeout = "armed"
    /\ faults < MaxFaults
    /\ faults' = faults + 1
    /\ subscriberTimeout' = "on"
    /\ pendingPubUrl' = TRUE
    /\ UNCHANGED <<lastLogIndex, ahead, isFresh, connected, pendingMissing,
                   rpcStream, pendingRpcStream, started, closed, failed,
                   streamVars, commit, snapshotIndex, channel>>

(***************************************************************************)
(* close(): once only (this.sub is nulled); the timer is cleared and       *)
(* _subscriberTimeout made undefined, the SUB socket unsubscribed,         *)
(* disconnected and closed with what it had queued, and the client closed  *)
(* and nulled.  this.url, the ahead queue and a pending missing-entries    *)
(* RPC are left as they are.                                               *)
(***************************************************************************)
Close ==
    /\ MayClose
    /\ ~closed
    /\ closed' = TRUE
    /\ subscriberTimeout' = "undefined"
    /\ channel' = <<>>
    /\ UNCHANGED <<lastLogIndex, ahead, isFresh, connected, pendingPubUrl,
                   pendingMissing, rpcStream, pendingRpcStream, started, failed,
                   streamVars, commit, snapshotIndex, faults>>

\* The consumer reads one item from the Readable.
Consume ==
    /\ buffered > 0
    /\ buffered' = buffered - 1
    /\ UNCHANGED <<subVars, reading, delivered, envVars>>

-----------------------------------------------------------------------------
(***************************************************************************)
(* The environment: the leader commits and broadcasts, sends heartbeats,   *)
(* compacts its log, and the PUB/SUB transport loses messages.  A message  *)
(* reaches the queue only while the socket is connected and subscribed and *)
(* the queue has room (zeromq drops it otherwise).                         *)
(***************************************************************************)
Publish(m) ==
    channel' = IF connected /\ Subscribed /\ Len(channel) < MaxChan
               THEN Append(channel, m) ELSE channel

CommitEntries ==
    /\ \E k \in 1..MaxBatch :
          /\ commit + k =< MaxIndex
          /\ commit' = commit + k
          /\ Publish([last |-> commit + k, cnt |-> k])
    /\ UNCHANGED <<subVars, streamVars, snapshotIndex, faults>>

Heartbeat ==
    /\ connected /\ Subscribed /\ Len(channel) < MaxChan
    /\ Publish([last |-> commit, cnt |-> 0])
    /\ UNCHANGED <<subVars, streamVars, commit, snapshotIndex, faults>>

Compact ==
    /\ \E s \in (snapshotIndex + 1)..commit : snapshotIndex' = s
    /\ UNCHANGED <<subVars, streamVars, commit, channel, faults>>

LoseMessage ==
    /\ faults < MaxFaults
    /\ faults' = faults + 1
    /\ \E i \in 1..Len(channel) :
          channel' = SubSeq(channel, 1, i - 1) \o SubSeq(channel, i + 1, Len(channel))
    /\ UNCHANGED <<subVars, streamVars, commit, snapshotIndex>>

Subscriber ==
    \/ Read \/ HandleBroadcast \/ RpcData \/ RpcEnd \/ RpcError
    \/ PublisherUrlFound \/ PublisherUrlMissing \/ BroadcastTimeout \/ Close

Environment ==
    \/ Consume \/ CommitEntries \/ Heartbeat \/ Compact \/ LoseMessage

\* A failed subscriber takes its process, and the model, down with it.
Next == ~failed /\ (Subscriber \/ Environment)

(***************************************************************************)
(* Fairness: the event loop runs every ready callback, Node calls _read    *)
(* when the consumer is waiting, the consumer keeps reading, the leader    *)
(* keeps sending heartbeats and the RPC server finishes its stream.        *)
(* Commits, compaction and the faults are not forced to happen.            *)
(***************************************************************************)
Fairness ==
    /\ WF_vars(Read) /\ WF_vars(Consume) /\ WF_vars(HandleBroadcast)
    /\ WF_vars(RpcData) /\ WF_vars(RpcEnd) /\ WF_vars(PublisherUrlFound)
    /\ WF_vars(Heartbeat)

Spec == Init /\ [][Next]_vars /\ Fairness

-----------------------------------------------------------------------------
(***************************************************************************)
(* Properties.                                                             *)
(***************************************************************************)

TypeOK ==
    /\ lastLogIndex \in 0..MaxIndex
    /\ ahead \in Seq(Msg)
    /\ isFresh \in BOOLEAN
    /\ subscriberTimeout \in TimeoutStates
    /\ connected \in BOOLEAN
    /\ pendingPubUrl \in BOOLEAN
    /\ pendingMissing \in BOOLEAN
    /\ rpcStream \in Seq(Item)
    /\ pendingRpcStream \in BOOLEAN
    /\ started \in BOOLEAN
    /\ closed \in BOOLEAN
    /\ failed \in BOOLEAN
    /\ buffered \in Nat
    /\ reading \in BOOLEAN
    /\ delivered \in Seq(Item)
    /\ commit \in 0..MaxIndex
    /\ snapshotIndex \in 0..commit
    /\ channel \in Seq(Msg)
    /\ faults \in 0..MaxFaults

\* The position a consumer has reached after the first i delivered items:
\* the index of the last log entry or completed snapshot among them.
Completes(it) == it.kind = "entry" \/ it.chunk = NumChunks
PositionAfter(i) ==
    LET J == {j \in 1..i : Completes(delivered[j])}
    IN  IF J = {} THEN StartIndex ELSE delivered[SetMax(J)].idx

(***************************************************************************)
(* The log entries the subscriber pushes follow the consumer's position    *)
(* with no gap and no duplicate, and a snapshot chunk is always of a       *)
(* snapshot past that position.  It is about _appendEntries, _flushAhead   *)
(* and the RPC 'data' handler sharing lastLogIndex while broadcasts, the   *)
(* ahead queue and the missing-entries RPC interleave.                     *)
(***************************************************************************)
EntriesInOrder ==
    \A i \in 1..Len(delivered) :
        /\ delivered[i].kind = "entry" =>
              delivered[i].idx = PositionAfter(i - 1) + 1
        /\ delivered[i].kind = "chunk" =>
              delivered[i].idx > PositionAfter(i - 1)

(***************************************************************************)
(* lastLogIndex is where the delivered stream stands: the code uses it     *)
(* both to cut duplicates and to size missing-entries requests, so it must *)
(* move exactly when an entry or a whole snapshot has been pushed.         *)
(***************************************************************************)
LastIndexMatchesDelivered == lastLogIndex = PositionAfter(Len(delivered))

(***************************************************************************)
(* Once commits stop, the subscriber catches up with the leader and turns  *)
(* fresh: gaps, lost broadcasts, backpressure pauses and failed RPCs are   *)
(* all recovered from (the faults being finitely many).                    *)
(***************************************************************************)
CatchesUp == <>[](lastLogIndex = commit /\ isFresh)

(***************************************************************************)
(* A snapshot transfer reaches the consumer whole: after a chunk that is   *)
(* not the last comes the next chunk of the same snapshot (spec: strict    *)
(* index order, no duplicates).  About the RPC 'data' handler moving       *)
(* lastLogIndex only on the last chunk while the RPC 'error' handler       *)
(* restarts from lastLogIndex or drains `ahead`.                           *)
(***************************************************************************)
SnapshotChunksContiguous ==
    \A i \in 1..(Len(delivered) - 1) :
        ~Completes(delivered[i]) =>
            delivered[i + 1] = Chunk(delivered[i].idx, delivered[i].chunk + 1)

(***************************************************************************)
(* close() ends the subscription: nothing reaches the consumer after it    *)
(* (spec: the internal missing-entries request is cancelled on close and   *)
(* the ahead queue discarded).  About close() leaving the entries RPC and  *)
(* its 'data' and 'end' handlers running.                                  *)
(***************************************************************************)
NothingPushedAfterClose == [][closed => delivered' = delivered]_vars

(***************************************************************************)
(* No sequence of callbacks, close() included, makes the subscriber        *)
(* dereference the sub socket or the client that close() nulled.  About    *)
(* the lazy _read and _requestMissingEntries running after close().       *)
(***************************************************************************)
NeverFails == ~failed
=============================================================================
