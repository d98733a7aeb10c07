----------------------- MODULE SubscriberOrderProofs -----------------------
(***************************************************************************)
(* Proofs that the subscriber delivers the log in order: EntriesInOrder    *)
(* and LastIndexMatchesDelivered hold in every state, for every value of   *)
(* the constants that satisfies ConstAssumption.                           *)
(*                                                                         *)
(* Neither is inductive alone.  What they need is a description of the     *)
(* pending entries RPC, whose chunks the 'data' handler pushes against the *)
(* lastLogIndex of the moment, while broadcasts and _flushAhead move       *)
(* lastLogIndex in between: the stream left to emit is either a run of     *)
(* consecutive log entries that starts at or before lastLogIndex + 1, or   *)
(* the remaining chunks of one snapshot followed by the entries after it.  *)
(***************************************************************************)
EXTENDS SubscriberProofs

\* st is a run of consecutive log entries from index a.
EntryRun(st, a) == \A j \in 1..Len(st) : st[j] = Entry(a + j - 1)

\* st is the last n chunks of the snapshot at index s, then the entries
\* s + 1, s + 2, ... (EntriesResponse when prevIndex < snapshotIndex).
ChunkRun(st, s, n) ==
    /\ n \in 1..NumChunks
    /\ n =< Len(st)
    /\ \A j \in 1..Len(st) :
          st[j] = IF j =< n THEN Chunk(s, NumChunks - n + j)
                            ELSE Entry(s + j - n)

\* st is what is left of an entries RPC when the subscriber stands at L.
StreamOK(st, L) ==
    \/ \E a \in 1..(L + 1) : EntryRun(st, a)
    \/ \E s \in 0..MaxIndex, n \in 1..NumChunks : ChunkRun(st, s, n)

StreamInv == StreamOK(rpcStream, lastLogIndex)

-----------------------------------------------------------------------------
(***************************************************************************)
(* PositionAfter over any sequence d of items: Done(d, i) are the items    *)
(* among the first i that complete an entry or a snapshot, Pos(d, i) the   *)
(* index of the last of them.  HasMax(S) says the maximum that             *)
(* PositionAfter chooses exists; it is carried by the invariant, since     *)
(* every push either completes an item, its own maximum, or adds one chunk *)
(* that leaves the set as it was.                                          *)
(***************************************************************************)
Done(d, i) == {j \in 1..i : Completes(d[j])}

Pos(d, i) == IF Done(d, i) = {} THEN StartIndex ELSE d[SetMax(Done(d, i))].idx

HasMax(S) == S # {} => SetMax(S) \in S /\ \A y \in S : y =< SetMax(S)

\* EntriesInOrder of a sequence d.
Ordered(d) ==
    \A i \in 1..Len(d) :
        /\ d[i].kind = "entry" => d[i].idx = Pos(d, i - 1) + 1
        /\ d[i].kind = "chunk" => d[i].idx > Pos(d, i - 1)

MaxDefined(d) == \A i \in 0..Len(d) : HasMax(Done(d, i))

(***************************************************************************)
(* The inductive invariant: the two properties, the shape of the pending   *)
(* RPC stream, and the existence of the positions.  TLC checked it on the  *)
(* instances of MCSubscriber, close() included, before it was proved.      *)
(***************************************************************************)
IInv ==
    /\ TypeOK
    /\ LastIndexMatchesDelivered
    /\ EntriesInOrder
    /\ StreamInv
    /\ MaxDefined(delivered)

-----------------------------------------------------------------------------
\* The largest element of a set of integers is the one SetMax chooses.
LEMMA MaxWitness ==
    ASSUME NEW S \in SUBSET Int, NEW x \in S, \A y \in S : y =< x
    PROVE  SetMax(S) = x /\ HasMax(S)
<1>. DEFINE m == SetMax(S)
<1>1. m \in S /\ \A y \in S : y =< m
      BY DEF SetMax
<1>2. m = x
      <2>1. x =< m /\ m =< x
            BY <1>1
      <2>2. m \in Int /\ x \in Int
            BY <1>1
      <2>. QED  BY <2>1, <2>2
<1>3. HasMax(S)
      BY <1>1 DEF HasMax
<1>. QED  BY <1>2, <1>3

\* An item that completes is where the position stands after it.
LEMMA PosComplete ==
    ASSUME NEW d \in Seq(Item), NEW i \in 1..Len(d), Completes(d[i])
    PROVE  /\ Pos(d, i) = d[i].idx
           /\ HasMax(Done(d, i))
<1>1. Done(d, i) \in SUBSET Int /\ i \in Done(d, i)
      BY DEF Done
<1>2. \A y \in Done(d, i) : y =< i
      BY DEF Done
<1>3. SetMax(Done(d, i)) = i /\ HasMax(Done(d, i))
      BY <1>1, <1>2, MaxWitness
<1>. QED  BY <1>1, <1>3 DEF Pos

\* An item that does not complete (a chunk before the last) leaves it.
LEMMA PosSkip ==
    ASSUME NEW d \in Seq(Item), NEW i \in 1..Len(d), ~Completes(d[i])
    PROVE  Done(d, i) = Done(d, i - 1)
BY DEF Done

\* The position after the first k items depends on those items only.
LEMMA PosPrefix ==
    ASSUME NEW d \in Seq(Item), NEW e \in Seq(Item), NEW k \in 0..Len(d),
           k =< Len(e), \A j \in 1..k : e[j] = d[j],
           HasMax(Done(d, k))
    PROVE  /\ Done(e, k) = Done(d, k)
           /\ Pos(e, k) = Pos(d, k)
<1>1. Done(e, k) = Done(d, k)
      BY DEF Done
<1>2. CASE Done(d, k) = {}
      BY <1>1, <1>2 DEF Pos
<1>3. CASE Done(d, k) # {}
      <2>1. SetMax(Done(d, k)) \in 1..k
            BY <1>3 DEF HasMax, Done
      <2>. QED  BY <1>1, <2>1 DEF Pos
<1>. QED  BY <1>1, <1>2, <1>3

\* Entries(a, b) holds the b - a + 1 entries a..b, in order.
LEMMA EntriesLen ==
    ASSUME NEW a \in Int, NEW b \in Int, a >= 0, b =< MaxIndex, b >= a - 1
    PROVE  /\ Entries(a, b) \in Seq(Item)
           /\ Len(Entries(a, b)) = b - a + 1
           /\ \A j \in 1..(b - a + 1) : Entries(a, b)[j] = Entry(a + j - 1)
<1>1. Entries(a, b) \in Seq(Item)
      BY EntriesType
<1>2. DOMAIN Entries(a, b) = 1..Len(Entries(a, b)) /\ Len(Entries(a, b)) \in Nat
      BY <1>1, LenProperties
<1>3. DOMAIN Entries(a, b) = 1..(b - a + 1)
      BY DEF Entries
<1>4. Len(Entries(a, b)) = b - a + 1
      <2>1. b - a + 1 \in Nat
            OBVIOUS
      <2>. QED  BY <1>2, <1>3, <2>1
<1>. QED  BY <1>1, <1>4 DEF Entries

(***************************************************************************)
(* One item pushed after the stream d, that stands at L: an entry that is  *)
(* L + 1, or a chunk of a snapshot past L, keeps the stream in order; the  *)
(* position moves to the item when it completes and stays otherwise.      *)
(* This is the push of the RPC 'data' handler.                             *)
(***************************************************************************)
LEMMA PushOne ==
    ASSUME NEW d \in Seq(Item), NEW c \in Item, NEW L \in Int,
           Ordered(d), MaxDefined(d), Pos(d, Len(d)) = L,
           c.kind = "entry" => c.idx = L + 1,
           c.kind = "chunk" => c.idx > L
    PROVE  /\ Ordered(d \o <<c>>)
           /\ MaxDefined(d \o <<c>>)
           /\ Pos(d \o <<c>>, Len(d \o <<c>>)) = IF Completes(c) THEN c.idx ELSE L
<1>. DEFINE e == d \o <<c>>
            n == Len(d)
<1>1. /\ e \in Seq(Item) /\ Len(e) = n + 1 /\ n \in Nat
      /\ \A j \in 1..n : e[j] = d[j]
      /\ e[n + 1] = c
      <2>1. <<c>> \in Seq(Item) /\ Len(<<c>>) = 1
            OBVIOUS
      <2>. QED  BY <2>1, ConcatProperties, LenProperties
<1>2. \A k \in 0..n : Done(e, k) = Done(d, k) /\ Pos(e, k) = Pos(d, k)
      <2>. SUFFICES ASSUME NEW k \in 0..n
                    PROVE  Done(e, k) = Done(d, k) /\ Pos(e, k) = Pos(d, k)
           OBVIOUS
      <2>1. HasMax(Done(d, k))
            BY DEF MaxDefined
      <2>2. k =< Len(e) /\ \A j \in 1..k : e[j] = d[j]
            BY <1>1
      <2>. QED  BY <1>1, <2>1, <2>2, PosPrefix
<1>3. ~Completes(c) => Done(e, n + 1) = Done(e, n)
      BY <1>1 DEF Done
<1>4. Completes(c) => Pos(e, n + 1) = c.idx /\ HasMax(Done(e, n + 1))
      <2>. SUFFICES ASSUME Completes(c)
                    PROVE  Pos(e, n + 1) = c.idx /\ HasMax(Done(e, n + 1))
           OBVIOUS
      <2>1. n + 1 \in 1..Len(e) /\ Completes(e[n + 1])
            BY <1>1
      <2>2. Pos(e, n + 1) = e[n + 1].idx /\ HasMax(Done(e, n + 1))
            BY <1>1, <2>1, PosComplete
      <2>. QED  BY <2>2, <1>1
<1>4a. Pos(e, n + 1) = IF Completes(c) THEN c.idx ELSE L
      <2>1. CASE Completes(c)
            BY <1>4, <2>1
      <2>2. CASE ~Completes(c)
            <3>1. Done(e, n + 1) = Done(e, n)
                  BY <1>3, <2>2
            <3>2. Pos(e, n + 1) = Pos(e, n)
                  BY <3>1 DEF Pos
            <3>. QED  BY <3>2, <1>2, <2>2
      <2>. QED  BY <2>1, <2>2
<1>5. MaxDefined(e)
      <2>. SUFFICES ASSUME NEW i \in 0..(n + 1) PROVE HasMax(Done(e, i))
           BY <1>1 DEF MaxDefined
      <2>1. CASE i =< n
            BY <2>1, <1>2 DEF MaxDefined
      <2>2. CASE i = n + 1 /\ Completes(c)
            BY <2>2, <1>4
      <2>3. CASE i = n + 1 /\ ~Completes(c)
            <3>1. Done(e, i) = Done(d, n)
                  BY <2>3, <1>2, <1>3
            <3>. QED  BY <3>1 DEF MaxDefined
      <2>. QED  BY <2>1, <2>2, <2>3
<1>6. Ordered(e)
      <2>. SUFFICES ASSUME NEW i \in 1..(n + 1)
                    PROVE  /\ e[i].kind = "entry" => e[i].idx = Pos(e, i - 1) + 1
                           /\ e[i].kind = "chunk" => e[i].idx > Pos(e, i - 1)
           BY <1>1 DEF Ordered
      <2>1. CASE i =< n
            <3>1. Pos(e, i - 1) = Pos(d, i - 1) /\ e[i] = d[i]
                  BY <2>1, <1>1, <1>2
            <3>. QED  BY <2>1, <3>1 DEF Ordered
      <2>2. CASE i = n + 1
            <3>1. Pos(e, i - 1) = L /\ e[i] = c
                  BY <2>2, <1>1, <1>2
            <3>. QED  BY <3>1
      <2>. QED  BY <2>1, <2>2
<1>. QED  BY <1>4a, <1>5, <1>6, <1>1
(***************************************************************************)
(* The entries L + 1 .. m pushed after the stream d, that stands at L,     *)
(* keep it in order and move its position to m (to L when m = L: nothing   *)
(* is pushed).  This is the push of _appendEntries, from a broadcast or    *)
(* from _flushAhead.                                                       *)
(***************************************************************************)
LEMMA PushEntries ==
    ASSUME NEW d \in Seq(Item), NEW L \in 0..MaxIndex, NEW m \in L..MaxIndex,
           Ordered(d), MaxDefined(d), Pos(d, Len(d)) = L
    PROVE  /\ Ordered(d \o Entries(L + 1, m))
           /\ MaxDefined(d \o Entries(L + 1, m))
           /\ Pos(d \o Entries(L + 1, m), Len(d \o Entries(L + 1, m))) = m
<1>. DEFINE es == Entries(L + 1, m)
            e == d \o es
            n == Len(d)
<1>1. /\ es \in Seq(Item) /\ Len(es) = m - L
      /\ \A j \in 1..(m - L) : es[j] = Entry(L + j)
      <2>0. L + 1 \in Int /\ m \in Int /\ L + 1 >= 0 /\ m =< MaxIndex
            /\ m >= (L + 1) - 1
            BY ConstAssumption
      <2>1. /\ es \in Seq(Item) /\ Len(es) = m - (L + 1) + 1
            /\ \A j \in 1..(m - (L + 1) + 1) : es[j] = Entry(L + 1 + j - 1)
            BY <2>0, EntriesLen
      <2>2. m - (L + 1) + 1 = m - L /\ \A j \in Int : L + 1 + j - 1 = L + j
            BY <2>0
      <2>. QED  BY <2>1, <2>2
<1>2. /\ e \in Seq(Item) /\ Len(e) = n + (m - L) /\ n \in Nat
      /\ \A j \in 1..n : e[j] = d[j]
      /\ \A i \in (n + 1)..(n + (m - L)) : e[i] = Entry(L + i - n)
      <2>1. /\ e \in Seq(Item) /\ Len(e) = n + Len(es)
            /\ \A i \in 1..(n + Len(es)) : e[i] = IF i =< n THEN d[i] ELSE es[i - n]
            BY <1>1, ConcatProperties
      <2>2. n \in Nat /\ m - L \in Nat
            BY LenProperties
      <2>3. \A i \in (n + 1)..(n + (m - L)) : e[i] = Entry(L + i - n)
            <3>. SUFFICES ASSUME NEW i \in (n + 1)..(n + (m - L))
                          PROVE  e[i] = Entry(L + i - n)
                 OBVIOUS
            <3>1. i - n \in 1..(m - L) /\ L + (i - n) = L + i - n
                  /\ i \in 1..(n + Len(es)) /\ ~(i =< n)
                  BY <2>2, <1>1
            <3>2. e[i] = es[i - n]
                  BY <3>1, <2>1
            <3>. QED  BY <3>1, <3>2, <1>1
      <2>4. Len(e) = n + (m - L)
            BY <1>1, <2>1
      <2>5. \A j \in 1..n : e[j] = d[j]
            <3>. SUFFICES ASSUME NEW j \in 1..n PROVE e[j] = d[j]
                 OBVIOUS
            <3>1. j \in 1..(n + Len(es)) /\ j =< n
                  BY <1>1, <2>2
            <3>. QED  BY <3>1, <2>1
      <2>. QED  BY <2>1, <2>2, <2>3, <2>4, <2>5
<1>3. \A k \in 0..n : Done(e, k) = Done(d, k) /\ Pos(e, k) = Pos(d, k)
      <2>. SUFFICES ASSUME NEW k \in 0..n
                    PROVE  Done(e, k) = Done(d, k) /\ Pos(e, k) = Pos(d, k)
           OBVIOUS
      <2>1. HasMax(Done(d, k))
            BY DEF MaxDefined
      <2>2. k =< Len(e) /\ \A j \in 1..k : e[j] = d[j]
            BY <1>2
      <2>. QED  BY <1>2, <2>1, <2>2, PosPrefix
<1>4. \A i \in (n + 1)..(n + (m - L)) :
         Pos(e, i) = L + i - n /\ HasMax(Done(e, i))
      <2>. SUFFICES ASSUME NEW i \in (n + 1)..(n + (m - L))
                    PROVE  Pos(e, i) = L + i - n /\ HasMax(Done(e, i))
           OBVIOUS
      <2>1. i \in 1..Len(e) /\ e[i] = Entry(L + i - n)
            BY <1>2
      <2>2. Completes(e[i]) /\ e[i].idx = L + i - n
            BY <2>1 DEF Completes, Entry
      <2>3. Pos(e, i) = e[i].idx /\ HasMax(Done(e, i))
            BY <1>2, <2>1, <2>2, PosComplete
      <2>. QED  BY <2>2, <2>3
<1>5. \A i \in (n + 1)..(n + (m - L)) : Pos(e, i - 1) = L + (i - 1) - n
      <2>. SUFFICES ASSUME NEW i \in (n + 1)..(n + (m - L))
                    PROVE  Pos(e, i - 1) = L + (i - 1) - n
           OBVIOUS
      <2>1. CASE i = n + 1
            BY <2>1, <1>2, <1>3
      <2>2. CASE i > n + 1
            <3>1. i - 1 \in (n + 1)..(n + (m - L))
                  BY <2>2, <1>2
            <3>. QED  BY <3>1, <1>4
      <2>. QED  BY <2>1, <2>2, <1>2
<1>6. MaxDefined(e)
      <2>. SUFFICES ASSUME NEW i \in 0..Len(e) PROVE HasMax(Done(e, i))
           BY DEF MaxDefined
      <2>1. CASE i =< n
            BY <2>1, <1>2, <1>3 DEF MaxDefined
      <2>2. CASE i > n
            <3>1. i \in (n + 1)..(n + (m - L))
                  BY <2>2, <1>2
            <3>. QED  BY <3>1, <1>4
      <2>. QED  BY <2>1, <2>2, <1>2
<1>7. Ordered(e)
      <2>. SUFFICES ASSUME NEW i \in 1..Len(e)
                    PROVE  /\ e[i].kind = "entry" => e[i].idx = Pos(e, i - 1) + 1
                           /\ e[i].kind = "chunk" => e[i].idx > Pos(e, i - 1)
           BY DEF Ordered
      <2>1. CASE i =< n
            <3>1. Pos(e, i - 1) = Pos(d, i - 1) /\ e[i] = d[i] /\ i \in 1..n
                  BY <2>1, <1>2, <1>3
            <3>. QED  BY <3>1 DEF Ordered
      <2>2. CASE i > n
            <3>1. i \in (n + 1)..(n + (m - L))
                  BY <2>2, <1>2
            <3>2. e[i] = Entry(L + i - n) /\ Pos(e, i - 1) = L + (i - 1) - n
                  BY <3>1, <1>2, <1>5
            <3>. QED  BY <3>2 DEF Entry
      <2>. QED  BY <2>1, <2>2, <1>2
<1>8. Pos(e, Len(e)) = m
      <2>1. CASE m = L
            BY <2>1, <1>2, <1>3
      <2>2. CASE m > L
            <3>1. n + (m - L) \in (n + 1)..(n + (m - L))
                  BY <2>2, <1>2
            <3>2. Pos(e, n + (m - L)) = L + (n + (m - L)) - n
                  BY <3>1, <1>4
            <3>3. Len(e) = n + (m - L) /\ L + (n + (m - L)) - n = m
                  BY <1>2
            <3>. QED  BY <3>2, <3>3
      <2>. QED  BY <2>1, <2>2
<1>. QED  BY <1>6, <1>7, <1>8
-----------------------------------------------------------------------------
\* No stream left is a stream of any subscriber.
LEMMA StreamEmpty ==
    ASSUME NEW L \in Nat
    PROVE  StreamOK(<<>>, L)
<1>1. EntryRun(<<>>, 1)
      BY DEF EntryRun
<1>. QED  BY <1>1 DEF StreamOK

\* A subscriber that moves on can still take the stream.
LEMMA StreamMono ==
    ASSUME NEW st, NEW L \in Int, NEW L2 \in Int, L =< L2, StreamOK(st, L)
    PROVE  StreamOK(st, L2)
BY DEF StreamOK

(***************************************************************************)
(* What the leader answers to a request from `from` is a stream for a      *)
(* subscriber at `from`: the entries from + 1 on, or the whole snapshot    *)
(* and the entries after it.                                               *)
(***************************************************************************)
LEMMA StreamResponse ==
    ASSUME TypeOK, NEW from \in 0..MaxIndex, NEW count \in Int
    PROVE  StreamOK(EntriesResponse(from, count), from)
<1>. DEFINE upto == MinOf(from + count, commit)
            C == [c \in 1..NumChunks |-> Chunk(snapshotIndex, c)]
            E(a) == Entries(a, upto)
<1>1. upto \in Int /\ upto =< MaxIndex
      BY ConstAssumption DEF TypeOK, MinOf
<1>2. ASSUME NEW a \in Int, a >= 0
      PROVE  /\ E(a) \in Seq(Item)
             /\ \A j \in 1..Len(E(a)) : E(a)[j] = Entry(a + j - 1)
      <2>1. E(a) \in Seq(Item)
            BY <1>1, <1>2, EntriesType
      <2>2. DOMAIN E(a) = 1..Len(E(a)) /\ DOMAIN E(a) = 1..(upto - a + 1)
            BY <2>1, LenProperties DEF Entries
      <2>. QED  BY <2>1, <2>2 DEF Entries
<1>3. CASE ~(from < snapshotIndex)
      <2>1. EntriesResponse(from, count) = E(from + 1)
            BY <1>3 DEF EntriesResponse
      <2>2. EntryRun(E(from + 1), from + 1)
            BY <1>2 DEF EntryRun
      <2>. QED  BY <2>1, <2>2 DEF StreamOK
<1>4. CASE from < snapshotIndex
      <2>. DEFINE si == snapshotIndex
                  E1 == Entries(si + 1, upto)
                  st == C \o E1
      <2>1. EntriesResponse(from, count) = st
            BY <1>4 DEF EntriesResponse
      <2>2. si \in 0..MaxIndex /\ NumChunks \in Nat \ {0}
            BY ConstAssumption DEF TypeOK
      <2>3. C \in Seq(Item) /\ Len(C) = NumChunks
            <3>1. C \in [1..NumChunks -> Item]
                  BY <2>2 DEF Chunk, Item
            <3>. QED  BY <3>1, <2>2
      <2>4. /\ E1 \in Seq(Item)
            /\ \A j \in 1..Len(E1) : E1[j] = Entry(si + j)
            <3>1. /\ E(si + 1) \in Seq(Item)
                  /\ \A j \in 1..Len(E(si + 1)) : E(si + 1)[j] = Entry(si + 1 + j - 1)
                  BY <1>2, <2>2
            <3>. QED  BY <3>1, <2>2
      <2>5. /\ Len(st) = Len(C) + Len(E1)
            /\ \A j \in 1..(Len(C) + Len(E1)) :
                  st[j] = IF j =< Len(C) THEN C[j] ELSE E1[j - Len(C)]
            BY <2>3, <2>4, ConcatProperties
      <2>6. ChunkRun(st, si, NumChunks)
            <3>1. NumChunks \in 1..NumChunks /\ NumChunks =< Len(st)
                  BY <2>2, <2>3, <2>4, <2>5, LenProperties
            <3>2. ASSUME NEW j \in 1..Len(st)
                  PROVE  st[j] = IF j =< NumChunks
                                 THEN Chunk(si, NumChunks - NumChunks + j)
                                 ELSE Entry(si + j - NumChunks)
                  <4>1. CASE j =< NumChunks
                        BY <4>1, <2>5, <2>3, <2>2
                  <4>2. CASE ~(j =< NumChunks)
                        <5>1. j - NumChunks \in 1..Len(E1)
                              BY <4>2, <2>5, <2>3, <2>2, <2>4, LenProperties
                        <5>2. st[j] = Entry(si + (j - NumChunks))
                              BY <4>2, <5>1, <2>5, <2>3, <2>4
                        <5>. QED  BY <5>2, <4>2, <2>2
                  <4>. QED  BY <4>1, <4>2
            <3>. QED  BY <3>1, <3>2 DEF ChunkRun
      <2>7. \E sx \in 0..MaxIndex, n \in 1..NumChunks : ChunkRun(st, sx, n)
            <3>1. NumChunks \in 1..NumChunks
                  BY <2>2
            <3>. QED  BY <3>1, <2>2, <2>6, Zenon
      <2>. QED  BY <2>1, <2>7 DEF StreamOK
<1>. QED  BY <1>3, <1>4
(***************************************************************************)
(* The 'data' handler takes the head c of the stream: an entry past L is   *)
(* L + 1, and what is left of the stream fits the subscriber whether or    *)
(* not c moved lastLogIndex (a log entry or a snapshot's last chunk past   *)
(* L does).                                                                *)
(***************************************************************************)
LEMMA StreamTail ==
    ASSUME NEW st \in Seq(Item), st # <<>>, NEW L \in 0..MaxIndex,
           StreamOK(st, L)
    PROVE  /\ StreamOK(Tail(st),
                       IF Head(st).idx > L /\ SetsLastIndex(Head(st))
                       THEN Head(st).idx ELSE L)
           /\ Head(st).kind = "entry" /\ Head(st).idx > L =>
                 Head(st).idx = L + 1
<1>. DEFINE c == Head(st)
            L2 == IF c.idx > L /\ SetsLastIndex(c) THEN c.idx ELSE L
            t == Tail(st)
<1>1. /\ Len(st) \in Nat \ {0} /\ c = st[1]
      /\ t \in Seq(Item) /\ Len(t) = Len(st) - 1
      /\ \A j \in 1..Len(t) : t[j] = st[j + 1]
      <2>1. Len(st) \in Nat /\ Len(st) # 0
            BY LenProperties, EmptySeq
      <2>2. c = st[1]
            OBVIOUS
      <2>. QED  BY <2>1, <2>2, HeadTailProperties
<1>2. CASE \E a \in 1..(L + 1) : EntryRun(st, a)
      <2>1. PICK a \in 1..(L + 1) : EntryRun(st, a)
            BY <1>2
      <2>2. c = Entry(a)
            BY <2>1, <1>1 DEF EntryRun
      <2>3. EntryRun(t, a + 1)
            <3>. SUFFICES ASSUME NEW j \in 1..Len(t) PROVE t[j] = Entry(a + 1 + j - 1)
                 BY DEF EntryRun
            <3>1. j + 1 \in 1..Len(st) /\ t[j] = st[j + 1]
                  BY <1>1
            <3>. QED  BY <3>1, <2>1 DEF EntryRun
      <2>4. L2 = IF a > L THEN a ELSE L
            BY <2>2 DEF SetsLastIndex, Entry
      <2>5. a + 1 \in 1..(L2 + 1)
            BY <2>4
      <2>6. StreamOK(t, L2)
            BY <2>3, <2>5 DEF StreamOK
      <2>. QED  BY <2>2, <2>6 DEF Entry
<1>3. CASE \E s \in 0..MaxIndex, n \in 1..NumChunks : ChunkRun(st, s, n)
      <2>1. PICK s \in 0..MaxIndex, n \in 1..NumChunks : ChunkRun(st, s, n)
            BY <1>3
      <2>0. NumChunks \in Nat \ {0} /\ n =< Len(st)
            BY ConstAssumption, <2>1 DEF ChunkRun
      <2>2. c = Chunk(s, NumChunks - n + 1)
            <3>1. 1 \in 1..Len(st) /\ 1 =< n
                  BY <2>0, <1>1
            <3>. QED  BY <3>1, <2>1, <1>1 DEF ChunkRun
      <2>3. c.kind = "chunk"
            BY <2>2 DEF Chunk
      <2>4. CASE n > 1
            <3>1. ChunkRun(t, s, n - 1)
                  <4>1. n - 1 \in 1..NumChunks /\ n - 1 =< Len(t)
                        BY <2>4, <2>0, <1>1
                  <4>2. ASSUME NEW j \in 1..Len(t)
                        PROVE  t[j] = IF j =< n - 1 THEN Chunk(s, NumChunks - (n - 1) + j)
                                                 ELSE Entry(s + j - (n - 1))
                        <5>1. j + 1 \in 1..Len(st) /\ t[j] = st[j + 1]
                              BY <1>1
                        <5>2. st[j + 1] = IF j + 1 =< n THEN Chunk(s, NumChunks - n + (j + 1))
                                                      ELSE Entry(s + (j + 1) - n)
                              BY <5>1, <2>1 DEF ChunkRun
                        <5>3. /\ (j + 1 =< n) = (j =< n - 1)
                              /\ NumChunks - n + (j + 1) = NumChunks - (n - 1) + j
                              /\ s + (j + 1) - n = s + j - (n - 1)
                              BY <2>0
                        <5>. QED  BY <5>1, <5>2, <5>3
                  <4>. QED  BY <4>1, <4>2 DEF ChunkRun
            <3>2. n - 1 \in 1..NumChunks
                  BY <2>4, <2>0
            <3>3. StreamOK(t, L2)
                  BY <3>1, <3>2, <2>1, Zenon DEF StreamOK
            <3>. QED  BY <3>3, <2>3
      <2>5. CASE n = 1
            <3>1. c = Chunk(s, NumChunks) /\ SetsLastIndex(c)
                  BY <2>2, <2>5, <2>0 DEF SetsLastIndex, Chunk
            <3>2. EntryRun(t, s + 1)
                  <4>. SUFFICES ASSUME NEW j \in 1..Len(t) PROVE t[j] = Entry(s + 1 + j - 1)
                       BY DEF EntryRun
                  <4>1. j + 1 \in 1..Len(st) /\ t[j] = st[j + 1] /\ ~(j + 1 =< n)
                        BY <1>1, <2>5
                  <4>2. st[j + 1] = Entry(s + (j + 1) - n)
                        BY <4>1, <2>1 DEF ChunkRun
                  <4>. QED  BY <4>1, <4>2, <2>5
            <3>3. s + 1 \in 1..(L2 + 1)
                  <4>1. L2 = IF s > L THEN s ELSE L
                        BY <3>1 DEF Chunk
                  <4>. QED  BY <4>1
            <3>4. StreamOK(t, L2)
                  BY <3>2, <3>3 DEF StreamOK
            <3>. QED  BY <3>4, <2>3
      <2>. QED  BY <2>4, <2>5
<1>. QED  BY <1>2, <1>3 DEF StreamOK
(***************************************************************************)
(* _requestMissingEntries, for a subscriber at `from` whose current stream *)
(* fits it, leaves a stream that fits it: the old one, a new answer, or    *)
(* none.                                                                   *)
(***************************************************************************)
LEMMA StreamRequest ==
    ASSUME TypeOK, NEW gap \in BOOLEAN, NEW pending \in BOOLEAN, NEW t,
           NEW from \in 0..MaxIndex, NEW count, NEW stream,
           gap => count \in Int, StreamOK(stream, from),
           RequestMissingEntries(gap, pending, t, from, count, stream)
    PROVE  StreamOK(rpcStream', from)
<1>. DEFINE req == gap /\ ~pending /\ t # "null"
<1>1. CASE req /\ ~closed
      <2>1. rpcStream' = EntriesResponse(from, count) /\ count \in Int
            BY <1>1 DEF RequestMissingEntries
      <2>. QED  BY <2>1, StreamResponse
<1>2. CASE req /\ closed
      <2>1. rpcStream' = <<>>
            BY <1>2 DEF RequestMissingEntries
      <2>. QED  BY <2>1, StreamEmpty
<1>3. CASE ~req
      BY <1>3 DEF RequestMissingEntries
<1>. QED  BY <1>1, <1>2, <1>3

-----------------------------------------------------------------------------
(***************************************************************************)
(* IInv through Pos, Ordered and StreamOK, in the current and in the next  *)
(* state.                                                                  *)
(***************************************************************************)
LEMMA OpenIInv ==
    ASSUME IInv
    PROVE  /\ TypeOK
           /\ lastLogIndex = Pos(delivered, Len(delivered))
           /\ Ordered(delivered)
           /\ MaxDefined(delivered)
           /\ StreamOK(rpcStream, lastLogIndex)
BY DEF IInv, LastIndexMatchesDelivered, PositionAfter, EntriesInOrder,
       Ordered, Pos, Done, StreamInv

LEMMA CloseIInv ==
    ASSUME TypeOK',
           lastLogIndex' = Pos(delivered', Len(delivered')),
           Ordered(delivered'),
           MaxDefined(delivered'),
           StreamOK(rpcStream', lastLogIndex')
    PROVE  IInv'
BY DEF IInv, LastIndexMatchesDelivered, PositionAfter, EntriesInOrder,
       Ordered, Pos, Done, StreamInv

\* A freshly constructed subscriber has pushed nothing and has no RPC.
LEMMA InitIInv == Init => IInv
<1>. SUFFICES ASSUME Init PROVE IInv
     OBVIOUS
<1>1. TypeOK
      BY InitType
<1>2. delivered = <<>> /\ rpcStream = <<>> /\ lastLogIndex = StartIndex
      BY DEF Init
<1>3. Done(delivered, 0) = {} /\ Len(delivered) = 0
      BY <1>2 DEF Done
<1>4. lastLogIndex = Pos(delivered, Len(delivered))
      BY <1>2, <1>3 DEF Pos
<1>5. Ordered(delivered) /\ MaxDefined(delivered)
      BY <1>3 DEF Ordered, MaxDefined, HasMax
<1>6. StreamOK(rpcStream, lastLogIndex)
      BY <1>2, StreamEmpty, ConstAssumption
<1>. QED  BY <1>1, <1>4, <1>5, <1>6 DEF IInv, LastIndexMatchesDelivered,
            PositionAfter, EntriesInOrder, Ordered, Pos, Done, StreamInv
\* A step that pushes nothing and moves neither lastLogIndex nor the stream.
LEMMA FrameIInv ==
    ASSUME IInv, TypeOK', delivered' = delivered,
           lastLogIndex' = lastLogIndex, rpcStream' = rpcStream
    PROVE  IInv'
<1>1. /\ lastLogIndex' = Pos(delivered', Len(delivered'))
      /\ Ordered(delivered') /\ MaxDefined(delivered')
      /\ StreamOK(rpcStream', lastLogIndex')
      BY OpenIInv
<1>. QED  BY <1>1, CloseIInv

\* A step that pushes nothing and leaves a stream that fits lastLogIndex.
LEMMA StreamStepIInv ==
    ASSUME IInv, TypeOK', delivered' = delivered,
           lastLogIndex' = lastLogIndex, StreamOK(rpcStream', lastLogIndex)
    PROVE  IInv'
<1>1. /\ lastLogIndex' = Pos(delivered', Len(delivered'))
      /\ Ordered(delivered') /\ MaxDefined(delivered')
      /\ StreamOK(rpcStream', lastLogIndex')
      BY OpenIInv
<1>. QED  BY <1>1, CloseIInv

(***************************************************************************)
(* _flushAhead pushes the entries lastLogIndex + 1 .. newL of the messages *)
(* that apply, moves lastLogIndex to newL, and requests the gap before the *)
(* first message that does not apply: the stream stays in order, and the  *)
(* new request fits the new lastLogIndex.                                  *)
(***************************************************************************)
LEMMA FlushAheadOrder ==
    ASSUME IInv, FlushAhead
    PROVE  /\ lastLogIndex' = Pos(delivered', Len(delivered'))
           /\ Ordered(delivered') /\ MaxDefined(delivered')
           /\ StreamOK(rpcStream', lastLogIndex')
<1>0. /\ TypeOK
      /\ lastLogIndex = Pos(delivered, Len(delivered))
      /\ Ordered(delivered) /\ MaxDefined(delivered)
      BY OpenIInv
<1>. PICK run \in [0..Len(ahead) -> lastLogIndex..MaxIndex], stop \in 1..(Len(ahead) + 1) :
        /\ run[0] = lastLogIndex
        /\ \A j \in 1..Len(ahead) : run[j] = AppendedIndex(ahead[j], run[j - 1])
        /\ \A j \in 1..(stop - 1) : ~IsGap(ahead[j], run[j - 1])
        /\ stop =< Len(ahead) => IsGap(ahead[stop], run[stop - 1])
        /\ LET newL == run[stop - 1]
               pushed == Entries(lastLogIndex + 1, newL)
               t1 == IF PushOk(Len(pushed)) THEN subscriberTimeout
                     ELSE PauseSubscriber(subscriberTimeout)
           IN  /\ lastLogIndex' = newL
               /\ ahead' = SubSeq(ahead, stop, Len(ahead))
               /\ Push(pushed)
               /\ subscriberTimeout' = t1
               /\ RequestMissingEntries(stop =< Len(ahead), FALSE, t1, newL,
                                        MissingCount(ahead[stop], newL), <<>>)
      BY DEF FlushAhead
<1>. DEFINE newL == run[stop - 1]
            pushed == Entries(lastLogIndex + 1, newL)
            t1 == IF PushOk(Len(pushed)) THEN subscriberTimeout
                  ELSE PauseSubscriber(subscriberTimeout)
<1>1. Len(ahead) \in Nat /\ stop - 1 \in 0..Len(ahead)
      BY <1>0, LenProperties DEF TypeOK
<1>2. newL \in lastLogIndex..MaxIndex /\ lastLogIndex \in 0..MaxIndex
      BY <1>0, <1>1 DEF TypeOK
<1>3. /\ Ordered(delivered \o pushed) /\ MaxDefined(delivered \o pushed)
      /\ Pos(delivered \o pushed, Len(delivered \o pushed)) = newL
      BY <1>0, <1>2, PushEntries DEF TypeOK
<1>4. delivered' = delivered \o pushed /\ lastLogIndex' = newL
      BY DEF Push
<1>5. stop =< Len(ahead) => MissingCount(ahead[stop], newL) \in Int
      <2>1. SUFFICES ASSUME stop =< Len(ahead)
                     PROVE  MissingCount(ahead[stop], newL) \in Int
            OBVIOUS
      <2>2. ahead[stop] \in Msg
            BY <2>1, <1>1, <1>0 DEF TypeOK
      <2>. QED  BY <1>2, <2>2 DEF MissingCount, Msg
<1>6. StreamOK(rpcStream', newL)
      <2>1. StreamOK(<<>>, newL) /\ newL \in 0..MaxIndex
            BY <1>2, StreamEmpty
      <2>2. (stop =< Len(ahead)) \in BOOLEAN /\ FALSE \in BOOLEAN
            OBVIOUS
      <2>. QED  BY <1>0, <1>5, <2>1, <2>2, StreamRequest
<1>. QED  BY <1>3, <1>4, <1>6

(***************************************************************************)
(* Every step of the subscriber and of its environment keeps IInv: one    *)
(* case per action, the ones that touch neither delivered, lastLogIndex    *)
(* nor the RPC stream through FrameIInv.                                  *)
(***************************************************************************)
LEMMA NextIInv == IInv /\ [Next]_vars => IInv'
<1>. SUFFICES ASSUME IInv, [Next]_vars PROVE IInv'
     OBVIOUS
<1>. USE DEF subVars, streamVars, envVars
<1>0. /\ TypeOK /\ TypeOK'
      /\ lastLogIndex = Pos(delivered, Len(delivered))
      /\ Ordered(delivered) /\ MaxDefined(delivered)
      /\ StreamOK(rpcStream, lastLogIndex)
      BY OpenIInv, NextType
<1>1. CASE ReadInit
      BY <1>0, <1>1, FrameIInv DEF ReadInit
<1>2. CASE ReadResume
      BY <1>0, <1>2, FrameIInv DEF ReadResume
<1>3. CASE BroadcastGap
      <2>. DEFINE m == Head(channel)
      <2>1. m \in Msg
            BY <1>0, <1>3, HeadTailProperties DEF BroadcastGap, TypeOK
      <2>5. lastLogIndex \in 0..MaxIndex /\ pendingMissing \in BOOLEAN
            BY <1>0 DEF TypeOK
      <2>2. MissingCount(m, lastLogIndex) \in Int /\ lastLogIndex \in 0..MaxIndex
            /\ pendingMissing \in BOOLEAN
            BY <2>1, <2>5 DEF MissingCount, Msg
      <2>3. RequestMissingEntries(TRUE, pendingMissing, subscriberTimeout,
                                  lastLogIndex, MissingCount(m, lastLogIndex),
                                  rpcStream)
            BY <1>3 DEF BroadcastGap
      <2>4. StreamOK(rpcStream', lastLogIndex)
            BY <1>0, <2>2, <2>3, StreamRequest
      <2>. QED  BY <1>0, <1>3, <2>4, StreamStepIInv DEF BroadcastGap
<1>4. CASE BroadcastApplied
      <2>. DEFINE m == Head(channel)
                  LL == lastLogIndex
      <2>1. m \in Msg /\ LL \in 0..MaxIndex
            BY <1>0, <1>4, HeadTailProperties DEF BroadcastApplied, TypeOK
      <2>2. /\ Push(AppendedEntries(m, LL))
            /\ lastLogIndex' = AppendedIndex(m, LL)
            /\ rpcStream' = rpcStream
            BY <1>4 DEF BroadcastApplied
      <2>3. CASE m.last > LL
            <3>1. m.last \in LL..MaxIndex
                  BY <2>1, <2>3 DEF Msg
            <3>2. /\ Ordered(delivered \o Entries(LL + 1, m.last))
                  /\ MaxDefined(delivered \o Entries(LL + 1, m.last))
                  /\ Pos(delivered \o Entries(LL + 1, m.last),
                         Len(delivered \o Entries(LL + 1, m.last))) = m.last
                  BY <1>0, <2>1, <3>1, PushEntries DEF TypeOK
            <3>3. delivered' = delivered \o Entries(LL + 1, m.last)
                  /\ lastLogIndex' = m.last
                  BY <2>2, <2>3 DEF Push, AppendedEntries, AppendedIndex
            <3>4. StreamOK(rpcStream', lastLogIndex')
                  BY <1>0, <2>1, <2>2, <3>1, <3>3, StreamMono
            <3>. QED  BY <1>0, <3>2, <3>3, <3>4, CloseIInv
      <2>4. CASE ~(m.last > LL)
            <3>1. delivered' = delivered /\ lastLogIndex' = LL
                  <4>1. delivered' = delivered \o <<>>
                        BY <2>2, <2>4 DEF Push, AppendedEntries
                  <4>. QED  BY <1>0, <4>1, <2>2, <2>4 DEF AppendedIndex, TypeOK
            <3>. QED  BY <1>0, <2>2, <3>1, FrameIInv
      <2>. QED  BY <2>3, <2>4
<1>5. CASE RpcData
      <2>. DEFINE c == Head(rpcStream)
                  LL == lastLogIndex
      <2>1. rpcStream \in Seq(Item) /\ rpcStream # <<>> /\ LL \in 0..MaxIndex
            /\ rpcStream' = Tail(rpcStream)
            BY <1>0, <1>5 DEF RpcData, TypeOK
      <2>2. c \in Item
            BY <2>1, HeadTailProperties
      <2>3. /\ StreamOK(Tail(rpcStream),
                        IF c.idx > LL /\ SetsLastIndex(c) THEN c.idx ELSE LL)
            /\ c.kind = "entry" /\ c.idx > LL => c.idx = LL + 1
            BY <1>0, <2>1, StreamTail
      <2>4. CASE c.idx > LL
            <3>1. /\ delivered' = delivered \o <<c>>
                  /\ lastLogIndex' = IF SetsLastIndex(c) THEN c.idx ELSE LL
                  BY <1>5, <2>4 DEF RpcData, Push
            <3>2. /\ Ordered(delivered \o <<c>>)
                  /\ MaxDefined(delivered \o <<c>>)
                  /\ Pos(delivered \o <<c>>, Len(delivered \o <<c>>))
                       = IF Completes(c) THEN c.idx ELSE LL
                  <4>1. c.kind = "chunk" => c.idx > LL
                        BY <2>4
                  <4>2. c.kind = "entry" => c.idx = LL + 1
                        BY <2>3, <2>4
                  <4>3. delivered \in Seq(Item) /\ LL \in Int
                        BY <1>0, <2>1 DEF TypeOK
                  <4>. QED  BY <1>0, <2>2, <4>1, <4>2, <4>3, PushOne
            <3>3. StreamOK(rpcStream', lastLogIndex')
                  BY <2>1, <2>3, <2>4, <3>1
            <3>. QED  BY <1>0, <3>1, <3>2, <3>3, CloseIInv
                     DEF Completes, SetsLastIndex
      <2>5. CASE ~(c.idx > LL)
            <3>1. delivered' = delivered /\ lastLogIndex' = LL
                  BY <1>5, <2>5 DEF RpcData
            <3>2. StreamOK(rpcStream', LL)
                  BY <2>1, <2>3, <2>5
            <3>. QED  BY <1>0, <3>1, <3>2, StreamStepIInv
      <2>. QED  BY <2>4, <2>5
<1>6. CASE RpcEnd
      BY <1>0, <1>6, FlushAheadOrder, CloseIInv DEF RpcEnd
<1>7. CASE RpcError
      <2>1. CASE FlushAhead
            BY <1>0, <2>1, FlushAheadOrder, CloseIInv
      <2>2. CASE ~FlushAhead
            <3>1. rpcStream' = <<>> /\ delivered' = delivered
                  /\ lastLogIndex' = lastLogIndex
                  BY <1>7, <2>2 DEF RpcError
            <3>2. StreamOK(rpcStream', lastLogIndex)
                  BY <1>0, <3>1, StreamEmpty DEF TypeOK
            <3>. QED  BY <1>0, <3>1, <3>2, StreamStepIInv
      <2>. QED  BY <2>1, <2>2
<1>8. CASE PublisherUrlFound
      BY <1>0, <1>8, FrameIInv DEF PublisherUrlFound
<1>9. CASE PublisherUrlMissing
      BY <1>0, <1>9, FrameIInv DEF PublisherUrlMissing
<1>10. CASE BroadcastTimeout
       BY <1>0, <1>10, FrameIInv DEF BroadcastTimeout
<1>11. CASE Close
       BY <1>0, <1>11, FrameIInv DEF Close
<1>12. CASE Consume
       BY <1>0, <1>12, FrameIInv DEF Consume
<1>13. CASE CommitEntries
       BY <1>0, <1>13, FrameIInv DEF CommitEntries
<1>14. CASE Heartbeat
       BY <1>0, <1>14, FrameIInv DEF Heartbeat
<1>15. CASE Compact
       BY <1>0, <1>15, FrameIInv DEF Compact
<1>16. CASE LoseMessage
       BY <1>0, <1>16, FrameIInv DEF LoseMessage
<1>17. CASE UNCHANGED vars
       BY <1>0, <1>17, FrameIInv DEF vars
<1>. QED  BY <1>1, <1>2, <1>3, <1>4, <1>5, <1>6, <1>7, <1>8, <1>9, <1>10,
             <1>11, <1>12, <1>13, <1>14, <1>15, <1>16, <1>17
          DEF Next, Subscriber, Environment, HandleBroadcast, Read

LEMMA AlwaysIInv == Spec => []IInv
BY InitIInv, NextIInv, PTL DEF Spec

(***************************************************************************)
(* The subscriber's stream is in order: broadcasts, answers to the         *)
(* missing-entries RPC and _flushAhead together push every log entry right *)
(* after the position the consumer has reached, and every snapshot chunk   *)
(* past it, in every behaviour and for every value of the constants.       *)
(***************************************************************************)
THEOREM EntriesInOrderThm == Spec => []EntriesInOrder
BY AlwaysIInv, PTL DEF IInv

(***************************************************************************)
(* this.lastLogIndex, which _appendEntries, the RPC 'data' handler and     *)
(* _flushAhead compare every message with, is always the position the      *)
(* items pushed so far bring the consumer to.                              *)
(***************************************************************************)
THEOREM LastIndexThm == Spec => []LastIndexMatchesDelivered
BY AlwaysIInv, PTL DEF IInv
=============================================================================
