---------------------------- MODULE WriterProofs ----------------------------
(***************************************************************************)
(* Proofs that the write side of ZmqRaftSubscriber keeps lastUpdateLogIndex *)
(* at the highest commit index answered and covers every acknowledged      *)
(* write, for every number of requests and every start index.              *)
(***************************************************************************)
EXTENDS Writer, SequenceTheorems, TLAPS

(***************************************************************************)
(* The inductive invariant.  UpdateIndexIsHighest alone is not inductive:  *)
(* a commit could in principle change the index of an answered request.    *)
(* The strengthening says every answered request is committed (so          *)
(* CommitRequest, which only commits an uncommitted request, leaves it     *)
(* alone), bounded by lastUpdateLogIndex, and that every acknowledged      *)
(* write was answered.                                                      *)
(***************************************************************************)
IInv ==
    /\ TypeOK
    /\ \A r \in resolved : committed[r] # 0 /\ committed[r] =< lastUpdateLogIndex
    /\ acked \subseteq resolved
    /\ \/ lastUpdateLogIndex = StartIndex
       \/ \E r \in resolved : committed[r] = lastUpdateLogIndex

\* What a _write/_writev call sends stays among the requests, whatever the
\* position of the first request that is not an UpdateRequest.
LEMMA DispatchType ==
    ASSUME TypeOK, NEW b \in Seq(Requests), Dispatch(b)
    PROVE  /\ inflight' \subseteq Requests
           /\ batch' \subseteq Requests
           /\ errored' \in BOOLEAN
<1> DEFINE k == FirstInvalid(b)
          sent == {b[j] : j \in {i \in 1..Len(b) : i < k}}
<1>1. sent \subseteq Requests
  BY DEF sent
<1>2. inflight' = inflight \cup sent
      /\ (batch' = {} \/ batch' = sent)
      /\ (errored' = TRUE \/ errored' = errored)
  BY DEF Dispatch, sent, k
<1> QED BY <1>1, <1>2 DEF TypeOK

\* The initial state satisfies the inductive invariant.
LEMMA InitIInv == Init => IInv
<1> SUFFICES ASSUME Init PROVE IInv
    OBVIOUS
<1>1. queue \in Seq(Requests)
  BY EmptySeq DEF Init
<1>2. committed \in [Requests -> Nat]
  BY DEF Init
<1>3. nextReq \in 1..(NumRequests + 1)
  BY WriterAssumption DEF Init
<1>4. /\ batch \subseteq Requests /\ inflight \subseteq Requests
      /\ resolved \subseteq Requests /\ rejected \subseteq Requests
      /\ acked \subseteq Requests /\ errored \in BOOLEAN
  BY DEF Init
<1>5. /\ lastUpdateLogIndex \in Nat /\ nextIndex \in Nat
      /\ other \in Nat /\ failures \in Nat
  BY WriterAssumption DEF Init
<1>6. TypeOK
  BY <1>1, <1>2, <1>3, <1>4, <1>5 DEF TypeOK
<1> QED BY <1>6 DEF Init, IInv

\* Every step of the write side and of the cluster preserves it.
LEMMA NextIInv == IInv /\ [Next]_vars => IInv'
<1> SUFFICES ASSUME IInv, [Next]_vars PROVE IInv'
    OBVIOUS
<1> USE WriterAssumption DEF IInv, TypeOK
<1>1. CASE AppWrite
  <2>1. CASE batch = {} /\ queue = <<>>
    <3>1. <<nextReq>> \in Seq(Requests)
      BY <1>1 DEF AppWrite
    <3>2. Dispatch(<<nextReq>>) /\ UNCHANGED queue
      BY <1>1, <2>1 DEF AppWrite
    <3>3. /\ inflight' \subseteq Requests
          /\ batch' \subseteq Requests
          /\ errored' \in BOOLEAN
      BY <3>1, <3>2, DispatchType
    <3>4. nextReq' \in 1..(NumRequests + 1)
      BY <1>1 DEF AppWrite, Requests
    <3> QED BY <1>1, <3>2, <3>3, <3>4 DEF AppWrite
  <2>2. CASE ~(batch = {} /\ queue = <<>>)
    <3>1. nextReq \in Requests /\ nextReq' \in 1..(NumRequests + 1)
      BY <1>1 DEF AppWrite, Requests
    <3>2. /\ queue' = Append(queue, nextReq)
          /\ UNCHANGED <<batch, inflight, errored>>
      BY <1>1, <2>2 DEF AppWrite
    <3>3. queue' \in Seq(Requests)
      BY <3>1, <3>2, AppendProperties
    <3> QED BY <1>1, <3>1, <3>2, <3>3 DEF AppWrite
  <2> QED BY <2>1, <2>2
<1>2. CASE WriteCallback
  <2>1. acked' \subseteq resolved'
    BY <1>2 DEF WriteCallback, BatchDone
  <2>2. CASE queue # <<>>
    BY <1>2, <2>1, <2>2, DispatchType DEF WriteCallback
  <2>3. CASE queue = <<>>
    BY <1>2, <2>1, <2>3 DEF WriteCallback
  <2> QED BY <2>2, <2>3
<1>3. CASE WriteCallbackError
  BY <1>3 DEF WriteCallbackError
<1>4. CASE CommitRequest
  <2>1. PICK r \in inflight : /\ committed[r] = 0
                              /\ committed' = [committed EXCEPT ![r] = nextIndex]
    BY <1>4 DEF CommitRequest
  <2>2. \A s \in resolved : committed'[s] = committed[s]
    BY <2>1
  <2> QED BY <1>4, <2>1, <2>2 DEF CommitRequest
<1>5. CASE CommitOther
  BY <1>5 DEF CommitOther
<1>6. CASE Resolve
  <2>1. PICK r \in inflight : /\ committed[r] # 0
                              /\ inflight' = inflight \ {r}
                              /\ resolved' = resolved \cup {r}
                              /\ lastUpdateLogIndex' = RaisedIndex(committed[r])
    BY <1>6 DEF Resolve
  <2>2. lastUpdateLogIndex' \in Nat
        /\ lastUpdateLogIndex =< lastUpdateLogIndex'
        /\ committed[r] =< lastUpdateLogIndex'
        /\ lastUpdateLogIndex' \in {lastUpdateLogIndex, committed[r]}
    BY <2>1 DEF RaisedIndex
  <2> QED BY <1>6, <2>1, <2>2 DEF Resolve
<1>7. CASE Reject
  BY <1>7 DEF Reject
<1>8. CASE UNCHANGED vars
  BY <1>8 DEF vars
<1> QED BY <1>1, <1>2, <1>3, <1>4, <1>5, <1>6, <1>7, <1>8 DEF Next

\* The inductive invariant gives both properties the writer run checks.
LEMMA IInvProperties == IInv => UpdateIndexIsHighest /\ AckedCovered
BY DEF IInv, UpdateIndexIsHighest, AckedCovered

(***************************************************************************)
(* Whatever order the cluster commits the requests of a _writev in and     *)
(* whatever order the answers come back in, lastUpdateLogIndex is always   *)
(* the highest commit index answered (the start index before any).         *)
(***************************************************************************)
THEOREM UpdateIndexHighestThm == Spec => []UpdateIndexIsHighest
<1>1. Spec => []IInv
  BY InitIInv, NextIInv, PTL DEF Spec
<1> QED BY <1>1, IInvProperties, PTL

(***************************************************************************)
(* Every write whose callback reported success is committed at an index   *)
(* that lastUpdateLogIndex already covers.                                 *)
(***************************************************************************)
THEOREM AckedCoveredThm == Spec => []AckedCovered
<1>1. Spec => []IInv
  BY InitIInv, NextIInv, PTL DEF Spec
<1> QED BY <1>1, IInvProperties, PTL
=============================================================================
