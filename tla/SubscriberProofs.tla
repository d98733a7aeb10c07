-------------------------- MODULE SubscriberProofs --------------------------
(***************************************************************************)
(* Proofs about the Subscriber specification.                              *)
(***************************************************************************)
EXTENDS Subscriber, SequenceTheorems, TLAPS

(***************************************************************************)
(* Entries(from, to) is a sequence of log-entry items when the indexes     *)
(* from..to lie in 0..MaxIndex (it is empty when to < from).               *)
(***************************************************************************)
LEMMA EntriesType ==
    ASSUME NEW from \in Int, NEW to \in Int, from >= 0, to =< MaxIndex
    PROVE  Entries(from, to) \in Seq(Item)
<1>1. CASE to >= from - 1
      <2>1. to - from + 1 \in Nat
            BY <1>1
      <2>2. Entries(from, to) \in [1..(to - from + 1) -> Item]
            BY ConstAssumption DEF Entries, Entry, Item
      <2>. QED  BY <2>1, <2>2
<1>2. CASE to < from - 1
      <2>1. 1..(to - from + 1) = 1..0
            BY <1>2
      <2>2. Entries(from, to) \in [1..0 -> Item]
            BY <2>1 DEF Entries
      <2>. QED  BY <2>2
<1>. QED  BY <1>1, <1>2

(***************************************************************************)
(* The entries RPC answers with a sequence of items.                       *)
(***************************************************************************)
LEMMA ResponseType ==
    ASSUME TypeOK, NEW from \in 0..MaxIndex, NEW count \in Int
    PROVE  EntriesResponse(from, count) \in Seq(Item)
<1>. DEFINE upto == MinOf(from + count, commit)
<1>1. upto \in Int /\ upto =< MaxIndex
      BY ConstAssumption DEF TypeOK, MinOf, upto
<1>2. CASE from < snapshotIndex
      <2>1. [c \in 1..NumChunks |-> Chunk(snapshotIndex, c)] \in Seq(Item)
            <3>1. [c \in 1..NumChunks |-> Chunk(snapshotIndex, c)]
                     \in [1..NumChunks -> Item]
                  BY ConstAssumption DEF TypeOK, Chunk, Item
            <3>. QED  BY <3>1, ConstAssumption
      <2>2. Entries(snapshotIndex + 1, upto) \in Seq(Item)
            BY <1>1, EntriesType DEF TypeOK, upto
      <2>. QED  BY <1>2, <2>1, <2>2, ConcatProperties DEF EntriesResponse, upto
<1>3. CASE ~(from < snapshotIndex)
      <2>1. Entries(from + 1, upto) \in Seq(Item)
            BY <1>1, EntriesType DEF upto
      <2>. QED  BY <1>3, <2>1 DEF EntriesResponse, upto
<1>. QED  BY <1>2, <1>3

(***************************************************************************)
(* this.push of a sequence of items keeps the Readable's state typed.      *)
(***************************************************************************)
LEMMA PushType ==
    ASSUME TypeOK, NEW items \in Seq(Item), Push(items)
    PROVE  /\ delivered' \in Seq(Item)
           /\ buffered' \in Nat
           /\ reading' \in BOOLEAN
<1>1. delivered' \in Seq(Item)
      BY ConcatProperties DEF Push, TypeOK
<1>2. buffered' \in Nat
      BY LenProperties DEF Push, TypeOK
<1>3. reading' \in BOOLEAN
      BY DEF Push, TypeOK
<1>. QED  BY <1>1, <1>2, <1>3

(***************************************************************************)
(* _requestMissingEntries keeps the request state typed; the count only    *)
(* matters when a request is made.                                         *)
(***************************************************************************)
LEMMA RequestType ==
    ASSUME TypeOK, NEW gap \in BOOLEAN, NEW pending \in BOOLEAN, NEW t,
           NEW from \in 0..MaxIndex, NEW count, NEW stream \in Seq(Item),
           gap => count \in Int,
           RequestMissingEntries(gap, pending, t, from, count, stream)
    PROVE  /\ pendingMissing' \in BOOLEAN
           /\ rpcStream' \in Seq(Item)
           /\ isFresh' \in BOOLEAN
           /\ failed' \in BOOLEAN
<1>1. CASE gap /\ ~pending /\ t # "null"
      <2>1. EntriesResponse(from, count) \in Seq(Item)
            BY <1>1, ResponseType
      <2>2. <<>> \in Seq(Item)
            BY EmptySeq
      <2>. QED  BY <1>1, <2>1, <2>2 DEF RequestMissingEntries, TypeOK
<1>2. CASE ~(gap /\ ~pending /\ t # "null")
      BY <1>2 DEF RequestMissingEntries, TypeOK
<1>. QED  BY <1>1, <1>2

(***************************************************************************)
(* _flushAhead keeps the subscriber and the Readable typed: whichever      *)
(* message stops the loop, lastLogIndex stays a log index, what is left of *)
(* `ahead` is a suffix of it and the entries pushed are log entries.       *)
(***************************************************************************)
LEMMA FlushAheadType ==
    ASSUME TypeOK, FlushAhead
    PROVE  /\ lastLogIndex' \in 0..MaxIndex
           /\ ahead' \in Seq(Msg)
           /\ subscriberTimeout' \in TimeoutStates
           /\ delivered' \in Seq(Item)
           /\ buffered' \in Nat
           /\ reading' \in BOOLEAN
           /\ pendingMissing' \in BOOLEAN
           /\ rpcStream' \in Seq(Item)
           /\ isFresh' \in BOOLEAN
           /\ failed' \in BOOLEAN
<1>. PICK run \in [0..Len(ahead) -> lastLogIndex..MaxIndex], stop \in 1..(Len(ahead) + 1) :
        /\ run[0] = lastLogIndex
        /\ \A j \in 1..Len(ahead) : run[j] = AppendedIndex(ahead[j], run[j - 1])
        /\ \A j \in 1..(stop - 1) : ~IsGap(ahead[j], run[j - 1])
        /\ stop =< Len(ahead) => IsGap(ahead[stop], run[stop - 1])
        /\ LET newL == run[stop - 1]
               pushed == Entries(lastLogIndex + 1, newL)
               t1 == IF PushOk(Len(pushed)) THEN subscriberTimeout
                     ELSE PauseSubscriber(subscriberTimeout)
           IN  /\ lastLogIndex' = newL
               /\ ahead' = SubSeq(ahead, stop, Len(ahead))
               /\ Push(pushed)
               /\ subscriberTimeout' = t1
               /\ RequestMissingEntries(stop =< Len(ahead), FALSE, t1, newL,
                                        MissingCount(ahead[stop], newL), <<>>)
      BY DEF FlushAhead
<1>. DEFINE newL == run[stop - 1]
            pushed == Entries(lastLogIndex + 1, newL)
            t1 == IF PushOk(Len(pushed)) THEN subscriberTimeout
                  ELSE PauseSubscriber(subscriberTimeout)
<1>0. Len(ahead) \in Nat /\ stop - 1 \in 0..Len(ahead)
      BY LenProperties DEF TypeOK
<1>1. newL \in 0..MaxIndex
      <2>1. newL \in lastLogIndex..MaxIndex
            BY <1>0 DEF newL
      <2>. QED  BY <2>1 DEF TypeOK
<1>2. lastLogIndex' \in 0..MaxIndex
      BY <1>1
<1>3. ahead' \in Seq(Msg)
      BY SubSeqProperties, LenProperties, ConstAssumption DEF TypeOK
<1>4. pushed \in Seq(Item)
      BY <1>1, EntriesType, ConstAssumption DEF TypeOK, pushed
<1>5. delivered' \in Seq(Item) /\ buffered' \in Nat /\ reading' \in BOOLEAN
      BY <1>4, PushType
<1>6. t1 \in TimeoutStates
      BY DEF t1, TypeOK, TimeoutStates, PauseSubscriber, Truthy
<1>7. subscriberTimeout' \in TimeoutStates
      BY <1>6
<1>8. stop =< Len(ahead) => MissingCount(ahead[stop], newL) \in Int
      <2>1. SUFFICES ASSUME stop =< Len(ahead) PROVE MissingCount(ahead[stop], newL) \in Int
            OBVIOUS
      <2>2. stop \in 1..Len(ahead)
            BY <2>1, <1>0
      <2>3. ahead[stop] \in Msg
            BY <2>2 DEF TypeOK
      <2>. QED  BY <1>1, <2>3 DEF MissingCount, Msg
<1>9. pendingMissing' \in BOOLEAN /\ rpcStream' \in Seq(Item)
      /\ isFresh' \in BOOLEAN /\ failed' \in BOOLEAN
      <2>1. (stop =< Len(ahead)) \in BOOLEAN
            OBVIOUS
      <2>2. <<>> \in Seq(Item)
            BY EmptySeq
      <2>. QED  BY <1>1, <1>8, <2>1, <2>2, RequestType
<1>. QED  BY <1>2, <1>3, <1>5, <1>7, <1>9

(***************************************************************************)
(* The initial state of a freshly constructed subscriber is typed.         *)
(***************************************************************************)
LEMMA InitType == Init => TypeOK
<1>. SUFFICES ASSUME Init PROVE TypeOK
     OBVIOUS
<1>1. <<>> \in Seq(Msg) /\ <<>> \in Seq(Item)
      BY EmptySeq
<1>2. commit \in 0..MaxIndex /\ snapshotIndex \in 0..commit
      /\ lastLogIndex \in 0..MaxIndex
      BY ConstAssumption DEF Init
<1>3. faults \in 0..MaxFaults /\ buffered \in Nat
      BY ConstAssumption DEF Init
<1>. QED  BY <1>1, <1>2, <1>3 DEF Init, TypeOK, TimeoutStates

(***************************************************************************)
(* Every callback of the subscriber, every move of the leader and of the   *)
(* transport, and a read by the consumer keep the state typed.             *)
(***************************************************************************)
LEMMA NextType == TypeOK /\ [Next]_vars => TypeOK'
<1>. SUFFICES ASSUME TypeOK, [Next]_vars PROVE TypeOK'
     OBVIOUS
<1>. USE ConstAssumption DEF subVars, streamVars, envVars
<1>1. CASE ReadInit
      BY <1>1 DEF ReadInit, TypeOK, TimeoutStates
<1>16. CASE ReadResume
       BY <1>16 DEF ReadResume, TypeOK, TimeoutStates, ResumeRpcStream
<1>17. CASE Close
       <2>1. <<>> \in Seq(Msg)
             BY EmptySeq
       <2>. QED  BY <1>17, <2>1 DEF Close, TypeOK, TimeoutStates
<1>2. CASE BroadcastGap
      <2>. DEFINE m == Head(channel)
      <2>1. m \in Msg /\ channel' = Tail(channel) /\ Tail(channel) \in Seq(Msg)
            BY <1>2, HeadTailProperties DEF BroadcastGap, TypeOK
      <2>2. MissingCount(m, lastLogIndex) \in Int
            BY <2>1 DEF MissingCount, Msg, TypeOK
      <2>3. pendingMissing' \in BOOLEAN /\ rpcStream' \in Seq(Item)
            /\ isFresh' \in BOOLEAN /\ failed' \in BOOLEAN
            BY <1>2, <2>2, RequestType DEF BroadcastGap, TypeOK
      <2>4. ahead' \in Seq(Msg)
            BY <1>2, <2>1, AppendProperties DEF BroadcastGap, TypeOK
      <2>5. subscriberTimeout' \in TimeoutStates
            BY <1>2 DEF BroadcastGap, TypeOK, TimeoutStates, RefreshSubTimeout,
                       Truthy
      <2>. QED  BY <1>2, <2>1, <2>3, <2>4, <2>5 DEF BroadcastGap, TypeOK
<1>3. CASE BroadcastApplied
      <2>. DEFINE m == Head(channel)
      <2>1. m \in Msg /\ channel' = Tail(channel) /\ Tail(channel) \in Seq(Msg)
            BY <1>3, HeadTailProperties DEF BroadcastApplied, TypeOK
      <2>2. AppendedEntries(m, lastLogIndex) \in Seq(Item)
            <3>1. CASE m.last > lastLogIndex
                  <4>0. m.last \in Int /\ m.last =< MaxIndex
                        /\ lastLogIndex + 1 \in Int /\ lastLogIndex + 1 >= 0
                        BY <2>1 DEF Msg, TypeOK
                  <4>1. Entries(lastLogIndex + 1, m.last) \in Seq(Item)
                        BY <4>0, EntriesType
                  <4>. QED  BY <3>1, <4>1 DEF AppendedEntries
            <3>2. CASE ~(m.last > lastLogIndex)
                  BY <3>2, EmptySeq DEF AppendedEntries
            <3>. QED  BY <3>1, <3>2
      <2>3. Push(AppendedEntries(m, lastLogIndex))
            BY <1>3 DEF BroadcastApplied
      <2>4. delivered' \in Seq(Item) /\ buffered' \in Nat /\ reading' \in BOOLEAN
            BY <2>2, <2>3, PushType
      <2>5. lastLogIndex' \in 0..MaxIndex
            BY <1>3, <2>1 DEF BroadcastApplied, AppendedIndex, Msg, TypeOK
      <2>6. subscriberTimeout' \in TimeoutStates
            BY <1>3 DEF BroadcastApplied, TypeOK, TimeoutStates,
                       RefreshSubTimeout, PauseSubscriber, Truthy
      <2>. QED  BY <1>3, <2>1, <2>4, <2>5, <2>6 DEF BroadcastApplied, TypeOK
<1>4. CASE RpcData
      <2>. DEFINE c == Head(rpcStream)
      <2>1. c \in Item /\ rpcStream' \in Seq(Item)
            BY <1>4, HeadTailProperties DEF RpcData, TypeOK
      <2>2. CASE c.idx > lastLogIndex
            <3>1. <<c>> \in Seq(Item) /\ Push(<<c>>)
                  BY <1>4, <2>1, <2>2 DEF RpcData
            <3>2. delivered' \in Seq(Item) /\ buffered' \in Nat
                  /\ reading' \in BOOLEAN
                  BY <3>1, PushType
            <3>3. lastLogIndex' \in 0..MaxIndex
                  BY <1>4, <2>1, <2>2 DEF RpcData, Item, TypeOK
            <3>4. subscriberTimeout' \in TimeoutStates
                  /\ pendingRpcStream' \in BOOLEAN
                  BY <1>4, <2>2 DEF RpcData, TypeOK, TimeoutStates,
                                    PauseSubscriber, Truthy
            <3>. QED  BY <1>4, <2>1, <3>2, <3>3, <3>4 DEF RpcData, TypeOK
      <2>3. CASE ~(c.idx > lastLogIndex)
            BY <1>4, <2>1, <2>3 DEF RpcData, TypeOK
      <2>. QED  BY <2>2, <2>3
<1>5. CASE RpcEnd
      BY <1>5, FlushAheadType DEF RpcEnd, TypeOK
<1>6. CASE RpcError
      <2>1. faults' \in 0..MaxFaults
            BY <1>6 DEF RpcError, TypeOK
      <2>2. CASE FlushAhead
            BY <1>6, <2>1, <2>2, FlushAheadType DEF RpcError, TypeOK
      <2>3. CASE ~FlushAhead
            BY <1>6, <2>1, <2>3, EmptySeq DEF RpcError, TypeOK
      <2>. QED  BY <2>2, <2>3
<1>7. CASE PublisherUrlFound
      BY <1>7, EmptySeq DEF PublisherUrlFound, Connect, TypeOK, TimeoutStates,
                            RefreshSubTimeout, Truthy
<1>8. CASE PublisherUrlMissing
      <2>1. <<>> \in Seq(Msg)
            BY EmptySeq
      <2>2. faults' \in 0..MaxFaults
            BY <1>8 DEF PublisherUrlMissing, TypeOK
      <2>. QED  BY <1>8, <2>1, <2>2 DEF PublisherUrlMissing, Connect, TypeOK
<1>9. CASE BroadcastTimeout
      BY <1>9 DEF BroadcastTimeout, TypeOK, TimeoutStates
<1>10. CASE Consume
       BY <1>10 DEF Consume, TypeOK
<1>11. CASE CommitEntries
       <2>1. PICK k \in 1..MaxBatch :
                /\ commit + k =< MaxIndex
                /\ commit' = commit + k
                /\ Publish([last |-> commit + k, cnt |-> k])
             BY <1>11 DEF CommitEntries
       <2>2. [last |-> commit + k, cnt |-> k] \in Msg
             BY <2>1 DEF Msg, TypeOK
       <2>3. channel' \in Seq(Msg)
             BY <2>1, <2>2, AppendProperties DEF Publish, TypeOK
       <2>. QED  BY <1>11, <2>1, <2>3 DEF CommitEntries, TypeOK
<1>12. CASE Heartbeat
       <2>1. [last |-> commit, cnt |-> 0] \in Msg
             BY DEF Msg, TypeOK
       <2>2. channel' \in Seq(Msg)
             BY <1>12, <2>1, AppendProperties DEF Heartbeat, Publish, TypeOK
       <2>. QED  BY <1>12, <2>2 DEF Heartbeat, TypeOK
<1>13. CASE Compact
       BY <1>13 DEF Compact, TypeOK
<1>14. CASE LoseMessage
       <2>1. PICK i \in 1..Len(channel) :
                channel' = SubSeq(channel, 1, i - 1)
                           \o SubSeq(channel, i + 1, Len(channel))
             BY <1>14 DEF LoseMessage
       <2>2. channel' \in Seq(Msg)
             BY <2>1, SubSeqProperties, ConcatProperties, LenProperties
             DEF TypeOK
       <2>. QED  BY <1>14, <2>2 DEF LoseMessage, TypeOK
<1>15. CASE UNCHANGED vars
       BY <1>15 DEF vars, subVars, streamVars, envVars, TypeOK
<1>. QED  BY <1>1, <1>2, <1>3, <1>4, <1>5, <1>6, <1>7, <1>8, <1>9, <1>10,
             <1>11, <1>12, <1>13, <1>14, <1>15, <1>16, <1>17
          DEF Next, Subscriber, Environment, HandleBroadcast, Read

(***************************************************************************)
(* The subscriber's state, its Readable and its environment stay typed in  *)
(* every behaviour, for every value of the constants.                      *)
(***************************************************************************)
THEOREM TypeCorrect == Spec => []TypeOK
BY InitType, NextType, PTL DEF Spec
=============================================================================
