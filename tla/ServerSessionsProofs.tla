------------------------ MODULE ServerSessionsProofs ------------------------
(***************************************************************************)
(* Proofs about the download, for any packs, sizes, chunk size and         *)
(* behaviour of the disk: first about ResourcePackTransfer, one session;   *)
(* then that every chunk is sent at most once, in the order of the         *)
(* requests, and none is forgotten, which ends in its step refinement of   *)
(* ChunkDelivery; then what it promises as long as nobody touches the      *)
(* archive of a pack; and last, about ServerSessions, that each of several *)
(* sessions that share the archives behaves as ResourcePackTransfer says.  *)
(***************************************************************************)
EXTENDS ServerSessions, FunctionTheorems, FiniteSetTheorems, SequenceTheorems, TLAPS

-----------------------------------------------------------------------------
(* std::remove on a sequence *)

\* The positions that are kept are finitely many, and their ranks are exactly
\* the numbers from 1 to their count: Without's CHOOSE is always satisfied.
LEMMA RankEnumerates ==
  ASSUME NEW n \in Nat, NEW K \in SUBSET (1 .. n)
  PROVE  /\ IsFiniteSet(K)
         /\ Cardinality(K) \in Nat
         /\ \A i \in K : Rank(K, i) \in 1 .. Cardinality(K)
         /\ \A r \in 1 .. Cardinality(K) : \E i \in K : Rank(K, i) = r
         /\ \A i, j \in K : Rank(K, i) = Rank(K, j) => i = j
<1> DEFINE Below(i) == {j \in K : j <= i}
           rank == [i \in K |-> Rank(K, i)]
           c == Cardinality(K)
<1>1. IsFiniteSet(K) /\ c \in Nat
  <2>1. IsFiniteSet(1 .. n)
    BY FS_Interval
  <2>2. IsFiniteSet(K)
    BY <2>1, FS_Subset
  <2> QED BY <2>2, FS_CardinalityType
<1>2. \A i \in K : IsFiniteSet(Below(i)) /\ Cardinality(Below(i)) \in Nat
                   /\ Cardinality(Below(i)) <= c
  <2> TAKE i \in K
  <2>1. Below(i) \in SUBSET K
    OBVIOUS
  <2> QED BY <1>1, <2>1, FS_Subset, FS_CardinalityType
<1>3. \A i \in K : Cardinality(Below(i)) >= 1
  <2> TAKE i \in K
  <2>1. i \in Below(i)
    OBVIOUS
  <2>2. Cardinality(Below(i)) # 0
    BY <1>2, <2>1, FS_EmptySet
  <2> QED BY <1>2, <2>2
<1>4. \A i \in K : Rank(K, i) \in 1 .. c
  BY <1>1, <1>2, <1>3 DEF Rank
<1>5. ASSUME NEW i \in K, NEW j \in K, i < j
      PROVE  Cardinality(Below(i)) # Cardinality(Below(j))
  <2>1. Below(i) \in SUBSET Below(j)
    <3> SUFFICES ASSUME NEW k \in K, k <= i
                 PROVE  k <= j
      OBVIOUS
    <3>1. i \in Int /\ j \in Int /\ k \in Int
      OBVIOUS
    <3> QED BY <1>5, <3>1
  <2>2. j \in Below(j) /\ j \notin Below(i)
    BY <1>5
  <2> HIDE DEF Below
  <2> QED BY <1>2, <2>1, <2>2, FS_Subset
<1>6. \A i, j \in K : Rank(K, i) = Rank(K, j) => i = j
  BY <1>5 DEF Rank
<1>7. rank \in Injection(K, 1 .. c)
  BY <1>4, <1>6 DEF Injection, IsInjective
<1>8. Cardinality(1 .. c) = c /\ IsFiniteSet(1 .. c)
  BY <1>1, FS_Interval
<1>9. rank \in Surjection(K, 1 .. c)
  <2> HIDE DEF rank
  <2> QED BY <1>7, <1>8, FS_Injection
<1>10. \A r \in 1 .. c : \E i \in K : Rank(K, i) = r
  BY <1>9 DEF Surjection
<1> QED BY <1>1, <1>4, <1>6, <1>10

\* Removing x leaves a sequence without x of all the other elements.
LEMMA WithoutProperties ==
  ASSUME NEW S, NEW s \in Seq(S), NEW x
  PROVE  /\ Without(s, x) \in Seq(S)
         /\ Elements(Without(s, x)) = Elements(s) \ {x}
<1> DEFINE K == Positions(s, x)
           at(n) == CHOOSE i \in K : Rank(K, i) = n
           w == Without(s, x)
           c == Cardinality(K)
<1>1. K \in SUBSET (1 .. Len(s)) /\ Len(s) \in Nat /\ DOMAIN s = 1 .. Len(s)
  BY LenProperties DEF Positions
<1> HIDE DEF K
<1>2. /\ c \in Nat
      /\ \A i \in K : Rank(K, i) \in 1 .. c
      /\ \A r \in 1 .. c : \E i \in K : Rank(K, i) = r
      /\ \A i, j \in K : Rank(K, i) = Rank(K, j) => i = j
  BY <1>1, RankEnumerates
<1>3. \A n \in 1 .. c : at(n) \in K /\ Rank(K, at(n)) = n
  BY <1>2
<1>4. \A i \in K : at(Rank(K, i)) = i
  BY <1>2
<1>5. w = [n \in 1 .. c |-> s[at(n)]]
  BY DEF Without, K
<1> HIDE DEF at, w
<1>6. \A i \in K : s[i] \in S /\ s[i] # x
  BY <1>1, ElementOfSeq DEF K, Positions
<1>7. w \in Seq(S) /\ DOMAIN w = 1 .. c
  <2>1. w \in [1 .. c -> S]
    BY <1>3, <1>5, <1>6
  <2> QED BY <1>2, <2>1, SeqDef
<1>8. \A n \in DOMAIN w : w[n] \in Elements(s) \ {x}
  BY <1>1, <1>3, <1>5, <1>6, <1>7 DEF Elements
<1>9. ASSUME NEW y \in Elements(s) \ {x}
      PROVE  \E n \in DOMAIN w : w[n] = y
  <2>1. PICK i \in DOMAIN s : s[i] = y
    BY <1>9 DEF Elements
  <2>2. i \in K
    BY <1>9, <2>1 DEF K, Positions
  <2> QED BY <1>2, <1>4, <1>5, <1>7, <2>1, <2>2
<1> QED BY <1>7, <1>8, <1>9 DEF w, Elements

\* Concatenation loses no element of its first argument.
LEMMA ConcatKeeps ==
  ASSUME NEW S, NEW s \in Seq(S), NEW t \in Seq(S)
  PROVE  Elements(s) \subseteq Elements(s \o t)
<1> DEFINE c == s \o t
<1>1. /\ Len(s) \in Nat /\ Len(t) \in Nat
      /\ c \in Seq(S) /\ Len(c) = Len(s) + Len(t)
      /\ \A i \in 1 .. Len(s) + Len(t) : c[i] = IF i <= Len(s) THEN s[i] ELSE t[i - Len(s)]
  BY ConcatProperties, LenProperties
<1>2. DOMAIN s = 1 .. Len(s) /\ DOMAIN c = 1 .. Len(s) + Len(t)
  BY <1>1, LenProperties
<1> HIDE DEF c
<1>3. \A i \in DOMAIN s : i \in DOMAIN c /\ c[i] = s[i]
  BY <1>1, <1>2
<1> QED BY <1>3 DEF Elements, c

-----------------------------------------------------------------------------
(* Arithmetic of chunk counts *)

\* Integer division by the chunk size, characterised by multiplication.
LEMMA DivChunk ==
  ASSUME NEW n \in Nat
  PROVE  /\ n \div MaxChunkSize \in Nat
         /\ (n \div MaxChunkSize) * MaxChunkSize <= n
         /\ n < (n \div MaxChunkSize) * MaxChunkSize + MaxChunkSize
BY SizeAssumption, Z3

\* A non-empty archive has the same chunk count whichever handler loads it.
LEMMA ChunkCounts ==
  ASSUME NEW n \in Nat
  PROVE  /\ CeilChunks(n) \in Nat
         /\ RoundedUpChunks(n) = CeilChunks(n)
<1>1. CASE n = 0
  <2>1. RoundedUpChunks(n) = 0
    <3> DEFINE q == (MaxChunkSize - 1) \div MaxChunkSize
    <3>1. q \in Nat /\ q * MaxChunkSize <= MaxChunkSize - 1
      BY SizeAssumption, DivChunk
    <3>2. q = 0
      BY SizeAssumption, <3>1
    <3> QED BY <1>1, <3>2, SizeAssumption DEF RoundedUpChunks
  <2> QED BY <1>1, <2>1 DEF CeilChunks
<1>2. CASE n # 0
  <2> DEFINE q == (n - 1) \div MaxChunkSize
             r == (n + MaxChunkSize - 1) \div MaxChunkSize
  <2>1. n - 1 \in Nat /\ n + MaxChunkSize - 1 \in Nat
    BY <1>2, SizeAssumption
  <2>2. q \in Nat /\ q * MaxChunkSize <= n - 1 /\ n - 1 < q * MaxChunkSize + MaxChunkSize
    BY <2>1, DivChunk
  <2>3. r \in Nat /\ r * MaxChunkSize <= n + MaxChunkSize - 1
        /\ n + MaxChunkSize - 1 < r * MaxChunkSize + MaxChunkSize
    BY <2>1, DivChunk
  <2>4. r = q + 1
    BY <2>2, <2>3, SizeAssumption, Z3
  <2> QED BY <1>2, <2>2, <2>4 DEF CeilChunks, RoundedUpChunks
<1> QED BY <1>1, <1>2

-----------------------------------------------------------------------------
(* Type correctness *)

LEMMA NextQueueType ==
  ASSUME packQueue \in Seq(Pack)
  PROVE  /\ NextPackQueue \in Seq(Pack)
         /\ NextCurrentPack \in Pack \cup {NoPack}
<1>1. NextPackQueue \in Seq(Pack)
  BY EmptySeq, HeadTailProperties, WithoutProperties DEF NextPackQueue
<1> QED BY <1>1, HeadTailProperties DEF NextCurrentPack

\* The head of the pending chunks, the offset it is read at and how much of it
\* can be read.
LEMMA HeadType ==
  ASSUME TypeOK, pendingChunks # <<>>
  PROVE  /\ HeadPack \in Pack /\ HeadIndex \in 0 .. MaxIndex
         /\ Head(pendingChunks) = <<HeadPack, HeadIndex>>
         /\ Tail(pendingChunks) \in Seq(Chunk)
         /\ startOffset \in Nat
         /\ chunkSize \in Int /\ readSize \in Int
<1>1. Head(pendingChunks) \in Chunk /\ Tail(pendingChunks) \in Seq(Chunk)
  BY HeadTailProperties DEF TypeOK
<1>2. /\ HeadPack \in Pack /\ HeadIndex \in 0 .. MaxIndex
      /\ Head(pendingChunks) = <<HeadPack, HeadIndex>>
  BY <1>1 DEF Chunk, HeadPack, HeadIndex
<1>3. startOffset \in Nat
  BY <1>2, SizeAssumption, BoundAssumption DEF startOffset
<1>4. pathSize[HeadPack] \in Int /\ streamSize[HeadPack] \in Nat
  BY <1>2 DEF TypeOK, NoFile
<1>5. chunkSize \in Int
  BY <1>3, <1>4, SizeAssumption DEF chunkSize, LeastOf
<1>6. readSize \in Int
  BY <1>3, <1>4, <1>5 DEF readSize, LeastOf
<1> QED BY <1>1, <1>2, <1>3, <1>5, <1>6

LEMMA TypeInit == Init => TypeOK
<1> SUFFICES ASSUME Init PROVE TypeOK
  OBVIOUS
<1>1. pathSize \in [Pack -> Nat \cup {NoFile}] /\ streamSize \in [Pack -> Nat]
  BY SizeAssumption DEF Init
<1>2. /\ packQueue \in Seq(Pack) /\ pendingChunks \in Seq(Chunk)
      /\ wire \in Seq(Message) /\ asked \in Seq(Chunk)
  BY EmptySeq DEF Init
<1> QED BY <1>1, <1>2 DEF Init, TypeOK

LEMMA TypeSendPacks ==
  ASSUME TypeOK, NEW entries \in Entries, SendPacks(entries)
  PROVE  TypeOK'
<1>1. PICK n \in 0 .. Len(entries) :
        LET done == {entries[i] : i \in 1 .. n}
            new == NewlyLoaded(done)
            stopped == n < Len(entries)
        IN
        /\ \A i \in 1 .. n : entries[i] \in Pack /\ pathSize[entries[i]] # NoFile
        /\ packQueue' = packQueue \o SubSeq(entries, 1, n)
        /\ loadedPacks' = loadedPacks \cup new
        /\ chunkCount' = [p \in Pack |-> IF p \in new THEN CeilChunks(pathSize[p])
                                                      ELSE chunkCount[p]]
        /\ announced' = [p \in Pack |-> IF p \in done THEN CeilChunks(pathSize[p])
                                                      ELSE announced[p]]
        /\ marked' = (marked \/ (stopped /\ entries[n + 1] \notin Pack))
        /\ provoked' = (provoked \/ (stopped /\ entries[n + 1] \notin Pack))
        /\ aborted' = (stopped /\ entries[n + 1] \in Pack)
        /\ want' = Constructed(new, want, {})
        /\ sent' = Constructed(new, sent, {})
        /\ nextToSend' = Constructed(new, nextToSend, 0)
        /\ UNCHANGED <<pendingChunks, currentPack, queueProcessing, fileVars,
                       streamFailed, wire, asked>>
  BY DEF SendPacks
<1> DEFINE done == {entries[i] : i \in 1 .. n}
           new == NewlyLoaded(done)
<1>2. Len(entries) \in Nat
  BY BoundAssumption DEF Entries
<1>3. n \in Nat
  BY <1>2
<1>4. packQueue' \in Seq(Pack)
  <2>1. SubSeq(entries, 1, n) \in Seq(Pack)
    BY <1>1, <1>3, SubSeqProperties
  <2> QED BY <1>1, <2>1, ConcatProperties DEF TypeOK
<1>5. done \subseteq Pack /\ new \subseteq done
  BY <1>1 DEF NewlyLoaded
<1>6. \A p \in done : pathSize[p] \in Nat /\ CeilChunks(pathSize[p]) \in Nat
  BY <1>1, <1>5, ChunkCounts DEF TypeOK
<1> HIDE DEF done, new
<1>7. chunkCount' \in [Pack -> Nat]
  BY <1>1, <1>5, <1>6 DEF TypeOK, done, new
<1>8. announced' \in [Pack -> Nat \cup {-1}]
  BY <1>1, <1>6 DEF TypeOK, done
<1>9. /\ want' \in [Pack -> SUBSET Nat] /\ sent' \in [Pack -> SUBSET Nat]
      /\ nextToSend' \in [Pack -> Nat]
  BY <1>1 DEF Constructed, TypeOK, new, done
<1>10. loadedPacks' \subseteq Pack
  BY <1>1, <1>5 DEF TypeOK, done, new
<1>11. marked' \in BOOLEAN /\ provoked' \in BOOLEAN /\ aborted' \in BOOLEAN
  BY <1>1 DEF TypeOK
<1>12. UNCHANGED <<pendingChunks, currentPack, queueProcessing, pathSize, streamSize,
                   streamFailed, wire, asked, changed>>
  BY <1>1 DEF fileVars
<1> QED BY <1>4, <1>7, <1>8, <1>9, <1>10, <1>11, <1>12 DEF TypeOK

LEMMA TypeRequest ==
  ASSUME TypeOK, NEW p \in Pack, NEW i \in ChunkIndex, Request(p, i)
  PROVE  TypeOK'
<1> DEFINE count == IF p \in loadedPacks THEN chunkCount[p]
                                          ELSE RoundedUpChunks(pathSize[p])
<1>1. count \in Nat
  BY ChunkCounts DEF Request, TypeOK
<1>2. InPack(i, count) => i \in Nat /\ <<p, i>> \in Chunk
  BY BoundAssumption DEF InPack, ChunkIndex, Chunk
<1> HIDE DEF count
<1>3. chunkCount' \in [Pack -> Nat] /\ want' \in [Pack -> SUBSET Nat]
  BY <1>1, <1>2 DEF Request, TypeOK, count
<1>4. pendingChunks' \in Seq(Chunk) /\ asked' \in Seq(Chunk)
  BY <1>2, AppendProperties DEF Request, TypeOK, count
<1>5. packQueue' \in Seq(Pack)
  BY AppendProperties DEF Request, TypeOK
<1> QED BY <1>3, <1>4, <1>5 DEF Request, TypeOK, fileVars

LEMMA TypeSendChunk ==
  ASSUME TypeOK, SendChunk
  PROVE  TypeOK'
<1>1. pendingChunks # <<>>
  BY DEF SendChunk, Readable
<1>2. /\ HeadPack \in Pack /\ HeadIndex \in 0 .. MaxIndex
      /\ Tail(pendingChunks) \in Seq(Chunk) /\ startOffset \in Nat
      /\ readSize \in Int /\ chunkSize \in Int
  BY <1>1, HeadType
<1>3. wire' \in Seq(Message)
  <2>1. [packId |-> HeadPack, chunkIndex |-> HeadIndex,
         progress |-> startOffset, size |-> readSize] \in Message
    BY <1>2, BoundAssumption DEF SendChunk, Message
  <2> QED BY <2>1, AppendProperties DEF SendChunk, TypeOK
<1>4. PICK n \in nextToSend[HeadPack] .. chunkCount[HeadPack] :
        /\ nextToSend' = [nextToSend EXCEPT ![HeadPack] = n]
        /\ IF n >= chunkCount[HeadPack]
           THEN packQueue' = NextPackQueue /\ currentPack' = NextCurrentPack
           ELSE UNCHANGED <<packQueue, currentPack>>
  BY DEF SendChunk
<1>5. n \in Nat
  BY <1>2, <1>4 DEF TypeOK
<1>6. packQueue' \in Seq(Pack) /\ currentPack' \in Pack \cup {NoPack}
  BY <1>4, NextQueueType DEF TypeOK
<1>7. nextToSend' \in [Pack -> Nat]
  BY <1>4, <1>5 DEF TypeOK
<1>8. sent' \in [Pack -> SUBSET Nat] /\ streamFailed' \in [Pack -> BOOLEAN]
  BY <1>2, BoundAssumption DEF SendChunk, TypeOK
<1> QED BY <1>2, <1>3, <1>6, <1>7, <1>8 DEF SendChunk, TypeOK, fileVars, historyVars

\* Every step keeps the types.
LEMMA TypeStep == TypeOK /\ [Next]_vars => TypeOK'
<1> SUFFICES ASSUME TypeOK, [Next]_vars
             PROVE  TypeOK'
  OBVIOUS
<1> USE DEF metaVars, queueVars, fileVars, historyVars
<1>1. CASE Refuse
  BY <1>1, BoundAssumption DEF Refuse, TypeOK
<1>2. CASE \E entries \in Entries : SendPacks(entries)
  BY <1>2, TypeSendPacks
<1>3. CASE RequestUnknown \/ Lost
  BY <1>3 DEF RequestUnknown, Lost, TypeOK
<1>4. ASSUME NEW p \in Pack, RequestMissing(p) PROVE TypeOK'
  BY <1>4 DEF RequestMissing, TypeOK
<1>5. ASSUME NEW p \in Pack, NEW i \in ChunkIndex, Request(p, i) PROVE TypeOK'
  BY <1>5, TypeRequest
<1>6. CASE FinishQueue
  BY <1>6 DEF FinishQueue, TypeOK
<1>7. CASE SkipChunk
  BY <1>7, HeadTailProperties DEF SkipChunk, TypeOK
<1>8. CASE SendChunk
  BY <1>8, TypeSendChunk
<1>9. CASE GiveUp
  BY <1>9, HeadTailProperties DEF GiveUp, Readable, TypeOK
<1>10. CASE FailChunk
  BY <1>10, HeadTailProperties DEF FailChunk, Readable, TypeOK
<1>11. CASE ChangeFiles
  <2> SUFFICES ASSUME NEW p \in Pack,
                      \/ \E n \in Nat : Rewrite(p, n) \/ Replace(p, n)
                      \/ Remove(p) \/ ShortReadElsewhere(p)
               PROVE  TypeOK'
    BY <1>11, SizeAssumption DEF ChangeFiles
  <2>1. ASSUME NEW n \in Nat, Rewrite(p, n) PROVE TypeOK'
    BY <2>1 DEF Rewrite, TypeOK
  <2>2. ASSUME NEW n \in Nat, Replace(p, n) PROVE TypeOK'
    BY <2>2 DEF Replace, TypeOK
  <2>3. CASE Remove(p)
    BY <2>3 DEF Remove, TypeOK
  <2>4. CASE ShortReadElsewhere(p)
    BY <2>4 DEF ShortReadElsewhere, TypeOK
  <2> QED BY <2>1, <2>2, <2>3, <2>4
<1>12. CASE UNCHANGED vars
  BY <1>12 DEF vars, TypeOK
<1> QED BY <1>1, <1>2, <1>3, <1>4, <1>5, <1>6, <1>7, <1>8, <1>9, <1>10, <1>11, <1>12
        DEF Next, Handle, Loop

\* The variables of a session always hold values of their types.
THEOREM TypeCorrect == Spec => []TypeOK
BY TypeInit, TypeStep, PTL DEF Spec

-----------------------------------------------------------------------------
(* The bookkeeping of the chunks: what the session's tables say of each      *)
(* other, whatever happens on disk.                                          *)

\* A pack that is not loaded has no state; only chunks that were asked for and
\* exist are sent.
Loading ==
  \A p \in Pack :
    /\ p \notin loadedPacks => want[p] = {} /\ nextToSend[p] = 0
    /\ sent[p] \subseteq want[p]
    /\ \A i \in want[p] : i < chunkCount[p]

Bookkeeping ==
  Loading /\ NextToSendIsFirstUnsent /\ PendingInRange /\ CurrentPackQueued

\* Steps that leave the tables alone, except for taking the queue's head.
LEMMA BookkeepingFrame ==
  ASSUME TypeOK, Bookkeeping,
         UNCHANGED <<metaVars, packQueue, currentPack>>,
         \/ UNCHANGED pendingChunks
         \/ pendingChunks # <<>> /\ pendingChunks' = Tail(pendingChunks)
  PROVE  Bookkeeping'
<1>1. Loading' /\ NextToSendIsFirstUnsent' /\ CurrentPackQueued'
  BY DEF Bookkeeping, Loading, NextToSendIsFirstUnsent, CurrentPackQueued, metaVars, Elements
<1>2. ASSUME NEW k \in DOMAIN pendingChunks'
      PROVE  \E j \in DOMAIN pendingChunks : pendingChunks'[k] = pendingChunks[j]
  <2>1. CASE UNCHANGED pendingChunks
    BY <2>1
  <2>2. CASE pendingChunks # <<>> /\ pendingChunks' = Tail(pendingChunks)
    <3>1. /\ Len(pendingChunks) \in Nat /\ DOMAIN pendingChunks = 1 .. Len(pendingChunks)
          /\ pendingChunks' \in Seq(Chunk)
          /\ Len(pendingChunks') = Len(pendingChunks) - 1
          /\ \A j \in 1 .. Len(pendingChunks) - 1 : pendingChunks'[j] = pendingChunks[j + 1]
      BY <2>2, HeadTailProperties, LenProperties DEF TypeOK
    <3>2. k \in 1 .. Len(pendingChunks) - 1
      BY <3>1, LenProperties
    <3> QED BY <3>1, <3>2
  <2> QED BY <2>1, <2>2
<1>3. PendingInRange'
  BY <1>2 DEF Bookkeeping, PendingInRange, metaVars
<1> QED BY <1>1, <1>3 DEF Bookkeeping

LEMMA BookkeepingInit == Init => Bookkeeping
BY DEF Init, Bookkeeping, Loading, NextToSendIsFirstUnsent, PendingInRange, CurrentPackQueued

\* A repeated SendPacks response finds its packs loaded and changes nothing of
\* theirs; the others begin empty.
LEMMA BookkeepingSendPacks ==
  ASSUME TypeOK, Bookkeeping, NEW entries \in Entries, SendPacks(entries)
  PROVE  Bookkeeping'
<1>0. PICK n \in 0 .. Len(entries) :
        LET new == NewlyLoaded({entries[i] : i \in 1 .. n})
        IN  /\ \A i \in 1 .. n : entries[i] \in Pack /\ pathSize[entries[i]] # NoFile
            /\ packQueue' = packQueue \o SubSeq(entries, 1, n)
            /\ loadedPacks' = loadedPacks \cup new
            /\ chunkCount' = [p \in Pack |-> IF p \in new THEN CeilChunks(pathSize[p])
                                                          ELSE chunkCount[p]]
            /\ want' = Constructed(new, want, {})
            /\ sent' = Constructed(new, sent, {})
            /\ nextToSend' = Constructed(new, nextToSend, 0)
            /\ UNCHANGED <<pendingChunks, currentPack>>
  BY DEF SendPacks
<1> DEFINE new == NewlyLoaded({entries[i] : i \in 1 .. n})
<1>1. /\ new \subseteq Pack /\ new \cap loadedPacks = {}
      /\ \A i \in 1 .. n : entries[i] \in Pack
      /\ \A p \in new : pathSize[p] # NoFile
      /\ packQueue' = packQueue \o SubSeq(entries, 1, n)
      /\ loadedPacks' = loadedPacks \cup new
      /\ chunkCount' = [p \in Pack |-> IF p \in new THEN CeilChunks(pathSize[p])
                                                    ELSE chunkCount[p]]
      /\ want' = Constructed(new, want, {})
      /\ sent' = Constructed(new, sent, {})
      /\ nextToSend' = Constructed(new, nextToSend, 0)
      /\ UNCHANGED <<pendingChunks, currentPack>>
  <2>1. /\ new \subseteq Pack /\ new \cap loadedPacks = {}
        /\ \A p \in new : pathSize[p] # NoFile
    BY <1>0 DEF NewlyLoaded
  <2> QED BY <1>0, <2>1
<1> HIDE DEF new
<1>2. \A p \in new : CeilChunks(pathSize[p]) \in Nat
  BY <1>1, ChunkCounts DEF TypeOK
<1>3. \A p \in Pack : IF p \in new
        THEN /\ want'[p] = {} /\ sent'[p] = {} /\ nextToSend'[p] = 0
             /\ chunkCount'[p] \in Nat
        ELSE UNCHANGED <<want[p], sent[p], nextToSend[p], chunkCount[p]>>
  BY <1>1, <1>2 DEF Constructed, TypeOK
<1>4. Loading'
  BY <1>1, <1>3 DEF Bookkeeping, Loading
<1>5. NextToSendIsFirstUnsent'
  BY <1>1, <1>3 DEF Bookkeeping, NextToSendIsFirstUnsent, TypeOK
<1>6. PendingInRange'
  BY <1>1, <1>3 DEF Bookkeeping, PendingInRange, TypeOK
<1>7. CurrentPackQueued'
  <2>1. n \in Nat /\ SubSeq(entries, 1, n) \in Seq(Pack)
    <3>1. Len(entries) \in Nat
      BY BoundAssumption DEF Entries
    <3> QED BY <1>1, <3>1, SubSeqProperties
  <2>2. Elements(packQueue) \subseteq Elements(packQueue')
    BY <1>1, <2>1, ConcatKeeps DEF TypeOK
  <2> QED BY <1>1, <2>2 DEF Bookkeeping, CurrentPackQueued
<1> QED BY <1>4, <1>5, <1>6, <1>7 DEF Bookkeeping

\* A request adds one chunk of a pack that is loaded by then.
LEMMA BookkeepingRequest ==
  ASSUME TypeOK, Bookkeeping, NEW p \in Pack, NEW i \in ChunkIndex, Request(p, i)
  PROVE  Bookkeeping'
<1> DEFINE count == IF p \in loadedPacks THEN chunkCount[p]
                                          ELSE RoundedUpChunks(pathSize[p])
<1>1. count \in Nat
  BY ChunkCounts DEF Request, TypeOK
<1>2. /\ loadedPacks' = loadedPacks \cup {p}
      /\ chunkCount' = [chunkCount EXCEPT ![p] = count]
      /\ want' = [want EXCEPT ![p] = IF InPack(i, count) THEN @ \cup {i} ELSE @]
      /\ pendingChunks' = IF InPack(i, count) THEN Append(pendingChunks, <<p, i>>)
                                              ELSE pendingChunks
      /\ currentPack' = IF currentPack = NoPack THEN p ELSE currentPack
      /\ packQueue' = IF p \in Elements(packQueue) THEN packQueue ELSE Append(packQueue, p)
      /\ UNCHANGED <<sent, nextToSend>>
  BY DEF Request
<1>3. p \in loadedPacks => count = chunkCount[p]
  OBVIOUS
<1> HIDE DEF count
<1>4. \A q \in Pack \ {p} : UNCHANGED <<want[q], chunkCount[q]>>
  BY <1>2 DEF TypeOK
<1>5. /\ chunkCount'[p] = count
      /\ want'[p] = IF InPack(i, count) THEN want[p] \cup {i} ELSE want[p]
  BY <1>2 DEF TypeOK
<1>6. Loading'
  <2>1. ASSUME NEW j \in want'[p] PROVE j < chunkCount'[p]
    BY <1>3, <1>5, <2>1 DEF InPack, Bookkeeping, Loading
  <2> QED BY <1>2, <1>4, <1>5, <2>1 DEF Bookkeeping, Loading
<1>7. NextToSendIsFirstUnsent'
  <2>1. \A q \in loadedPacks : chunkCount'[q] = chunkCount[q]
    BY <1>3, <1>4, <1>5 DEF TypeOK
  <2>2. p \notin loadedPacks => sent[p] = {} /\ nextToSend[p] = 0
    BY DEF Bookkeeping, Loading
  <2> QED BY <1>1, <1>2, <1>5, <2>1, <2>2 DEF Bookkeeping, NextToSendIsFirstUnsent
<1>8. PendingInRange'
  <2>1. ASSUME NEW q \in loadedPacks, NEW j \in want[q], j < chunkCount[q]
        PROVE  q \in loadedPacks' /\ j \in want'[q] /\ j < chunkCount'[q]
    BY <1>2, <1>3, <1>4, <1>5, <2>1 DEF TypeOK
  <2>2. CASE ~InPack(i, count)
    BY <1>2, <2>1, <2>2 DEF Bookkeeping, PendingInRange
  <2>3. CASE InPack(i, count)
    <3>1. ASSUME NEW k \in DOMAIN pendingChunks'
          PROVE  \/ k \in DOMAIN pendingChunks /\ pendingChunks'[k] = pendingChunks[k]
                 \/ pendingChunks'[k] = <<p, i>>
      <4>1. <<p, i>> \in Chunk
        BY <2>3, BoundAssumption DEF InPack, ChunkIndex, Chunk
      <4> QED BY <1>2, <2>3, <4>1, AppendProperties, LenProperties DEF TypeOK
    <3>2. p \in loadedPacks' /\ i \in want'[p] /\ i < chunkCount'[p]
      BY <1>2, <1>5, <2>3 DEF InPack
    <3> QED BY <2>1, <3>1, <3>2 DEF Bookkeeping, PendingInRange
  <2> QED BY <2>2, <2>3
<1>9. CurrentPackQueued'
  <2>1. p \in Elements(packQueue') /\ Elements(packQueue) \subseteq Elements(packQueue')
    <3>1. CASE p \in Elements(packQueue)
      BY <1>2, <3>1
    <3>2. CASE p \notin Elements(packQueue)
      <4>1. packQueue' = Append(packQueue, p)
        BY <1>2, <3>2
      <4>2. /\ Len(packQueue) \in Nat /\ DOMAIN packQueue = 1 .. Len(packQueue)
            /\ DOMAIN packQueue' = 1 .. Len(packQueue) + 1
            /\ packQueue'[Len(packQueue) + 1] = p
            /\ \A k \in 1 .. Len(packQueue) : packQueue'[k] = packQueue[k]
        BY <4>1, AppendProperties, LenProperties DEF TypeOK
      <4> QED BY <4>2 DEF Elements
    <3> QED BY <3>1, <3>2
  <2> QED BY <1>2, <2>1 DEF Bookkeeping, CurrentPackQueued
<1> QED BY <1>6, <1>7, <1>8, <1>9 DEF Bookkeeping

\* What nextPack leaves current is queued.
LEMMA NextPackQueued ==
  ASSUME TypeOK
  PROVE  NextCurrentPack # NoPack => NextCurrentPack \in Elements(NextPackQueue)
<1>1. NextPackQueue \in Seq(Pack)
  BY NextQueueType DEF TypeOK
<1>2. CASE NextPackQueue = <<>>
  BY <1>2 DEF NextCurrentPack
<1>3. CASE NextPackQueue # <<>>
  <2>1. 1 \in DOMAIN NextPackQueue /\ Head(NextPackQueue) = NextPackQueue[1]
    BY <1>1, <1>3, EmptySeq, LenProperties
  <2> QED BY <1>3, <2>1 DEF NextCurrentPack, Elements
<1> QED BY <1>2, <1>3

LEMMA BookkeepingSendChunk ==
  ASSUME TypeOK, Bookkeeping, SendChunk
  PROVE  Bookkeeping'
<1> DEFINE p == HeadPack
           i == HeadIndex
<1>1. pendingChunks # <<>> /\ p \in loadedPacks /\ i \notin sent[p]
  BY DEF SendChunk, Readable
<1>2. /\ p \in Pack /\ i \in 0 .. MaxIndex /\ i \in Nat
  BY <1>1, HeadType, BoundAssumption
<1>3. i < chunkCount[p] /\ i \in want[p]
  <2>1. 1 \in DOMAIN pendingChunks /\ pendingChunks[1] = <<p, i>>
    BY <1>1, HeadType, EmptySeq, LenProperties DEF TypeOK
  <2> HIDE DEF p, i
  <2> QED BY <2>1 DEF Bookkeeping, PendingInRange
<1>4. PICK n \in nextToSend[p] .. chunkCount[p] :
        /\ StopsAt(p, sent'[p], n)
        /\ nextToSend' = [nextToSend EXCEPT ![p] = n]
        /\ IF n >= chunkCount[p]
           THEN packQueue' = NextPackQueue /\ currentPack' = NextCurrentPack
           ELSE UNCHANGED <<packQueue, currentPack>>
  BY DEF SendChunk
<1>5. /\ pendingChunks' = Tail(pendingChunks)
      /\ sent' = [sent EXCEPT ![p] = @ \cup {i}]
      /\ UNCHANGED <<loadedPacks, chunkCount, want>>
  BY DEF SendChunk
<1> HIDE DEF p, i
<1>6. sent'[p] = sent[p] \cup {i} /\ \A q \in Pack \ {p} : sent'[q] = sent[q]
  BY <1>2, <1>5 DEF TypeOK
<1>7. nextToSend'[p] = n /\ \A q \in Pack \ {p} : nextToSend'[q] = nextToSend[q]
  BY <1>2, <1>4 DEF TypeOK
<1>8. nextToSend[p] \in Nat /\ chunkCount[p] \in Nat /\ n \in Nat
  BY <1>2, <1>4 DEF TypeOK
<1>9. Loading'
  BY <1>1, <1>3, <1>5, <1>6, <1>7 DEF Bookkeeping, Loading
<1>10. NextToSendIsFirstUnsent'
  <2>1. \A k \in 0 .. n - 1 : k \in sent'[p]
    <3> TAKE k \in 0 .. n - 1
    <3>1. CASE k < nextToSend[p]
      BY <1>1, <1>6, <1>8, <3>1 DEF Bookkeeping, NextToSendIsFirstUnsent
    <3>2. CASE k >= nextToSend[p]
      BY <1>4, <1>8, <3>2 DEF StopsAt
    <3> QED BY <1>8, <3>1, <3>2
  <2>2. \A k \in sent'[p] : k < chunkCount[p]
    BY <1>2, <1>3, <1>6 DEF Bookkeeping, Loading
  <2>3. n \notin sent'[p] /\ n <= chunkCount[p]
    BY <1>4, <1>8, <2>2 DEF StopsAt
  <2>4. \A q \in loadedPacks : q \in Pack
    BY DEF TypeOK
  <2> QED BY <1>5, <1>6, <1>7, <2>1, <2>3, <2>4 DEF Bookkeeping, NextToSendIsFirstUnsent
<1>11. PendingInRange'
  <2>1. /\ Len(pendingChunks) \in Nat /\ DOMAIN pendingChunks = 1 .. Len(pendingChunks)
        /\ pendingChunks' \in Seq(Chunk)
        /\ Len(pendingChunks') = Len(pendingChunks) - 1
        /\ \A j \in 1 .. Len(pendingChunks) - 1 : pendingChunks'[j] = pendingChunks[j + 1]
    BY <1>1, <1>5, HeadTailProperties, LenProperties DEF TypeOK
  <2>2. DOMAIN pendingChunks' = 1 .. Len(pendingChunks) - 1
    BY <2>1, LenProperties
  <2> QED BY <1>5, <2>1, <2>2 DEF Bookkeeping, PendingInRange
<1>12. CurrentPackQueued'
  BY <1>4, NextPackQueued DEF Bookkeeping, CurrentPackQueued
<1> QED BY <1>9, <1>10, <1>11, <1>12 DEF Bookkeeping

\* Every step keeps the tables consistent.
LEMMA BookkeepingStep == TypeOK /\ Bookkeeping /\ [Next]_vars => Bookkeeping'
<1> SUFFICES ASSUME TypeOK, Bookkeeping, [Next]_vars
             PROVE  Bookkeeping'
  OBVIOUS
<1>1. CASE Refuse
  BY <1>1, BookkeepingFrame DEF Refuse, queueVars
<1>2. CASE \E entries \in Entries : SendPacks(entries)
  BY <1>2, BookkeepingSendPacks
<1>3. CASE RequestUnknown \/ Lost
  BY <1>3, BookkeepingFrame DEF RequestUnknown, Lost, queueVars
<1>4. ASSUME NEW p \in Pack, RequestMissing(p) PROVE Bookkeeping'
  BY <1>4, BookkeepingFrame DEF RequestMissing, queueVars
<1>5. ASSUME NEW p \in Pack, NEW i \in ChunkIndex, Request(p, i) PROVE Bookkeeping'
  BY <1>5, BookkeepingRequest
<1>6. CASE FinishQueue
  BY <1>6, BookkeepingFrame DEF FinishQueue
<1>7. CASE SkipChunk
  BY <1>7, BookkeepingFrame DEF SkipChunk
<1>8. CASE SendChunk
  BY <1>8, BookkeepingSendChunk
<1>9. CASE GiveUp
  BY <1>9, BookkeepingFrame DEF GiveUp, Readable
<1>10. CASE FailChunk
  BY <1>10, BookkeepingFrame DEF FailChunk, Readable
<1>11. CASE ChangeFiles
  BY <1>11, BookkeepingFrame DEF ChangeFiles, Rewrite, Replace, Remove, ShortReadElsewhere, queueVars
<1>12. CASE UNCHANGED vars
  BY <1>12, BookkeepingFrame DEF vars, queueVars
<1> QED BY <1>1, <1>2, <1>3, <1>4, <1>5, <1>6, <1>7, <1>8, <1>9, <1>10, <1>11, <1>12
        DEF Next, Handle, Loop

LEMMA BookkeepingCorrect == Spec => [](TypeOK /\ Bookkeeping)
BY TypeInit, TypeStep, BookkeepingInit, BookkeepingStep, PTL DEF Spec

\* finished() says the truth: nextToSend is the first chunk not sent, whatever
\* the order of the requests.
THEOREM FinishedIsTrue == Spec => []NextToSendIsFirstUnsent
<1>1. TypeOK /\ Bookkeeping => NextToSendIsFirstUnsent
  BY DEF Bookkeeping
<1> QED BY <1>1, BookkeepingCorrect, PTL

\* nextPack leaves a current pack that is queued, whichever pack was finished.
THEOREM CurrentIsQueued == Spec => []CurrentPackQueued
<1>1. TypeOK /\ Bookkeeping => CurrentPackQueued
  BY DEF Bookkeeping
<1> QED BY <1>1, BookkeepingCorrect, PTL

\* The branches of processChunkQueue for unloaded packs and for indices outside
\* the pack are dead: what is queued exists and was asked for.
THEOREM PendingExists == Spec => []PendingInRange
<1>1. TypeOK /\ Bookkeeping => PendingInRange
  BY DEF Bookkeeping
<1> QED BY <1>1, BookkeepingCorrect, PTL

-----------------------------------------------------------------------------
(* What is loaded and sent stays so.                                         *)

KeepsMetadata ==
  \A p \in loadedPacks : /\ p \in loadedPacks'
                         /\ chunkCount'[p] = chunkCount[p]
                         /\ sent[p] \subseteq sent'[p]
                         /\ want[p] \subseteq want'[p]
                         /\ nextToSend[p] <= nextToSend'[p]

LEMMA SameMetadata ==
  ASSUME TypeOK, UNCHANGED metaVars
  PROVE  KeepsMetadata
BY DEF KeepsMetadata, metaVars, TypeOK

\* emplace adds entries and replaces none.
LEMMA SendPacksKeeps ==
  ASSUME TypeOK, NEW entries \in Entries, SendPacks(entries)
  PROVE  KeepsMetadata
<1>1. PICK n \in 0 .. Len(entries) :
        LET new == NewlyLoaded({entries[i] : i \in 1 .. n})
        IN  /\ loadedPacks' = loadedPacks \cup new
            /\ chunkCount' = [p \in Pack |-> IF p \in new THEN CeilChunks(pathSize[p])
                                                          ELSE chunkCount[p]]
            /\ want' = Constructed(new, want, {})
            /\ sent' = Constructed(new, sent, {})
            /\ nextToSend' = Constructed(new, nextToSend, 0)
  BY DEF SendPacks
<1> DEFINE new == NewlyLoaded({entries[i] : i \in 1 .. n})
<1>2. new \cap loadedPacks = {}
  BY DEF NewlyLoaded
<1> HIDE DEF new
<1>3. \A p \in loadedPacks :
        /\ p \in loadedPacks'
        /\ UNCHANGED <<want[p], sent[p], nextToSend[p], chunkCount[p]>>
  BY <1>1, <1>2 DEF Constructed, TypeOK, new
<1> QED BY <1>3 DEF KeepsMetadata, TypeOK

LEMMA SendChunkKeeps ==
  ASSUME TypeOK, SendChunk
  PROVE  KeepsMetadata
<1>1. HeadPack \in Pack
  BY HeadType DEF SendChunk, Readable
<1>2. PICK n \in nextToSend[HeadPack] .. chunkCount[HeadPack] :
        nextToSend' = [nextToSend EXCEPT ![HeadPack] = n]
  BY DEF SendChunk
<1>3. /\ sent' = [sent EXCEPT ![HeadPack] = @ \cup {HeadIndex}]
      /\ UNCHANGED <<loadedPacks, chunkCount, want>>
  BY DEF SendChunk
<1> QED BY <1>1, <1>2, <1>3 DEF KeepsMetadata, TypeOK

LEMMA MetadataStep == TypeOK /\ [Next]_vars => [KeepsMetadata]_vars
<1> SUFFICES ASSUME TypeOK, [Next]_vars
             PROVE  KeepsMetadata
  OBVIOUS
<1>1. CASE \E entries \in Entries : SendPacks(entries)
  BY <1>1, SendPacksKeeps
<1>2. ASSUME NEW p \in Pack, NEW i \in ChunkIndex, Request(p, i) PROVE KeepsMetadata
  BY <1>2 DEF Request, KeepsMetadata, TypeOK
<1>3. CASE SendChunk
  BY <1>3, SendChunkKeeps
<1>4. CASE Refuse \/ RequestUnknown \/ Lost \/ (\E p \in Pack : RequestMissing(p))
  BY <1>4, SameMetadata DEF Refuse, RequestUnknown, Lost, RequestMissing
<1>5. CASE FinishQueue \/ SkipChunk \/ GiveUp \/ FailChunk
  BY <1>5, SameMetadata DEF FinishQueue, SkipChunk, GiveUp, FailChunk
<1>6. CASE ChangeFiles
  BY <1>6, SameMetadata DEF ChangeFiles, Rewrite, Replace, Remove, ShortReadElsewhere
<1>7. CASE UNCHANGED vars
  BY <1>7, SameMetadata DEF vars
<1> QED BY <1>1, <1>2, <1>3, <1>4, <1>5, <1>6, <1>7 DEF Next, Handle, Loop

\* A pack keeps its chunk count and a sent chunk stays sent, however often the
\* client repeats SendPacks.
THEOREM MetadataCorrect == Spec => MetadataIsKept
<1>1. Spec => [][KeepsMetadata]_vars
  BY TypeCorrect, MetadataStep, PTL DEF Spec
<1>2. [KeepsMetadata]_vars <=> [\A p \in loadedPacks :
                                  /\ p \in loadedPacks'
                                  /\ chunkCount'[p] = chunkCount[p]
                                  /\ sent[p] \subseteq sent'[p]
                                  /\ want[p] \subseteq want'[p]
                                  /\ nextToSend[p] <= nextToSend'[p]]_vars
  BY DEF KeepsMetadata
<1> QED BY <1>1, <1>2, PTL DEF MetadataIsKept

-----------------------------------------------------------------------------
(* Delivery *)

\* The loop has a chunk to send: its request is the last that was noted.
Owed == pendingChunks # <<>> /\ HeadIndex \notin sent[HeadPack]

\* One request at a time is in the queue, and none outside the loop.
QueueShape ==
  /\ Len(pendingChunks) <= 1
  /\ ~queueProcessing => pendingChunks = <<>>

AskedOnce ==
  /\ \A j, k \in DOMAIN asked : asked[j] = asked[k] => j = k
  /\ \A p \in Pack, i \in 0 .. MaxIndex : <<p, i>> \in Elements(asked) <=> i \in want[p]

SentOnce ==
  /\ \A j, k \in DOMAIN served : served[j] = served[k] => j = k
  /\ \A p \in Pack, i \in 0 .. MaxIndex : <<p, i>> \in Elements(served) <=> i \in sent[p]

InOrder ==
  ~broken =>
    /\ \A k \in DOMAIN served : k \in DOMAIN asked /\ served[k] = asked[k]
    /\ Len(asked) = IF Owed THEN Len(wire) + 1 ELSE Len(wire)
    /\ Owed => asked[Len(asked)] = Head(pendingChunks)

Order == QueueShape /\ AskedOnce /\ SentOnce /\ InOrder

\* The inductive invariant of the delivery.
IInv == TypeOK /\ Bookkeeping /\ Order

-----------------------------------------------------------------------------
LEMMA ServedShape ==
  ASSUME TypeOK
  PROVE  /\ Len(wire) \in Nat /\ DOMAIN wire = 1 .. Len(wire)
         /\ DOMAIN served = 1 .. Len(wire) /\ served \in Seq(Pack \X Nat)
         /\ Len(served) = Len(wire)
<1>1. Len(wire) \in Nat /\ DOMAIN wire = 1 .. Len(wire)
  BY LenProperties DEF TypeOK
<1>2. \A k \in DOMAIN wire : wire[k] \in Message
  BY <1>1, ElementOfSeq DEF TypeOK
<1>3. served \in [1 .. Len(wire) -> Pack \X Nat]
  BY <1>1, <1>2 DEF served, chunkOf, Message
<1>4. served \in Seq(Pack \X Nat) /\ DOMAIN served = 1 .. Len(wire)
  BY <1>1, <1>3, SeqDef
<1> QED BY <1>1, <1>4, LenProperties

LEMMA AskedShape ==
  ASSUME TypeOK
  PROVE  Len(asked) \in Nat /\ DOMAIN asked = 1 .. Len(asked)
BY LenProperties DEF TypeOK

\* A chunk that is sent comes behind what was served before.
LEMMA ServedGrows ==
  ASSUME TypeOK, SendChunk
  PROVE  /\ HeadPack \in Pack /\ HeadIndex \in 0 .. MaxIndex
         /\ Len(wire') = Len(wire) + 1 /\ DOMAIN served' = 1 .. Len(wire) + 1
         /\ \A k \in 1 .. Len(wire) : served'[k] = served[k]
         /\ served'[Len(wire) + 1] = <<HeadPack, HeadIndex>>
<1> DEFINE m == [packId |-> HeadPack, chunkIndex |-> HeadIndex,
                 progress |-> startOffset, size |-> readSize]
<1>1. wire' = Append(wire, m) /\ pendingChunks # <<>>
  BY DEF SendChunk, Readable
<1>2. HeadPack \in Pack /\ HeadIndex \in 0 .. MaxIndex
  BY <1>1, HeadType
<1>3. m \in Message
  BY <1>1, <1>2, HeadType, BoundAssumption DEF Message, SendChunk
<1>4. chunkOf(m) = <<HeadPack, HeadIndex>>
  BY DEF chunkOf
<1> HIDE DEF m
<1>5. /\ Len(wire) \in Nat /\ wire' \in Seq(Message)
      /\ Len(wire') = Len(wire) + 1 /\ wire'[Len(wire) + 1] = m
      /\ \A k \in 1 .. Len(wire) : wire'[k] = wire[k]
      /\ DOMAIN wire = 1 .. Len(wire) /\ DOMAIN wire' = 1 .. Len(wire) + 1
  BY <1>1, <1>3, AppendProperties, LenProperties DEF TypeOK
<1>6. \A k \in 1 .. Len(wire) + 1 : served'[k] = chunkOf(wire'[k])
  BY <1>5 DEF served, chunkOf
<1>7. \A k \in 1 .. Len(wire) : served[k] = chunkOf(wire[k])
  BY <1>5 DEF served
<1>8. DOMAIN served' = 1 .. Len(wire) + 1
  BY <1>5 DEF served
<1> QED BY <1>2, <1>4, <1>5, <1>6, <1>7, <1>8

LEMMA OrderInit == Init => Order
<1> SUFFICES ASSUME Init PROVE Order
  OBVIOUS
<1>1. /\ asked = <<>> /\ wire = <<>> /\ pendingChunks = <<>>
      /\ \A p \in Pack : want[p] = {} /\ sent[p] = {}
  BY DEF Init
<1>2. DOMAIN asked = {} /\ DOMAIN served = {} /\ Len(asked) = 0 /\ Len(wire) = 0
      /\ Len(pendingChunks) = 0
  BY <1>1 DEF served
<1> QED BY <1>1, <1>2 DEF Order, QueueShape, AskedOnce, SentOnce, InOrder, Owed, Elements

\* Steps that touch neither the chunks nor the queue; a session may break.
LEMMA OrderFrame ==
  ASSUME IInv,
         UNCHANGED <<pendingChunks, queueProcessing, wire, asked>>,
         UNCHANGED <<want, sent>>,
         broken => broken'
  PROVE  Order'
<1>1. UNCHANGED served /\ Len(wire') = Len(wire)
  BY DEF served, chunkOf
<1> QED BY <1>1 DEF IInv, Order, QueueShape, AskedOnce, SentOnce, InOrder, Owed, Elements,
                    HeadPack, HeadIndex

\* SendPacks gives empty metadata to packs that had none.
LEMMA OrderSendPacks ==
  ASSUME IInv, NEW entries \in Entries, SendPacks(entries)
  PROVE  Order'
<1>1. PICK n \in 0 .. Len(entries) :
        LET new == NewlyLoaded({entries[i] : i \in 1 .. n})
            stopped == n < Len(entries)
        IN  /\ Idle
            /\ marked' = (marked \/ (stopped /\ entries[n + 1] \notin Pack))
            /\ want' = Constructed(new, want, {})
            /\ sent' = Constructed(new, sent, {})
            /\ UNCHANGED <<pendingChunks, queueProcessing, wire, asked>>
  BY DEF SendPacks
<1> DEFINE new == NewlyLoaded({entries[i] : i \in 1 .. n})
<1>2. new \cap loadedPacks = {}
  BY DEF NewlyLoaded
<1>3. \A p \in Pack : p \notin loadedPacks => want[p] = {} /\ sent[p] = {}
  BY DEF IInv, Bookkeeping, Loading
<1> HIDE DEF new
<1>4. want' = want /\ sent' = sent
  <2>1. \A p \in Pack : want'[p] = want[p] /\ sent'[p] = sent[p]
    BY <1>1, <1>2, <1>3 DEF Constructed, new
  <2>2. want' = [p \in Pack |-> want'[p]] /\ sent' = [p \in Pack |-> sent'[p]]
    BY <1>1 DEF Constructed
  <2>3. want = [p \in Pack |-> want[p]] /\ sent = [p \in Pack |-> sent[p]]
    BY DEF IInv, TypeOK
  <2> QED BY <2>1, <2>2, <2>3
<1>5. broken => broken'
  BY <1>1 DEF broken, Idle
<1> QED BY <1>1, <1>4, <1>5, OrderFrame

\* A request outside the loop finds everything served; if it names a new chunk
\* that chunk is the only one owed.
LEMMA OrderRequest ==
  ASSUME IInv, NEW p \in Pack, NEW i \in ChunkIndex, Request(p, i)
  PROVE  Order'
<1> DEFINE count == IF p \in loadedPacks THEN chunkCount[p]
                                          ELSE RoundedUpChunks(pathSize[p])
           valid == InPack(i, count)
           first == valid /\ i \notin want[p]
<1>1. /\ ~queueProcessing /\ pendingChunks = <<>>
      /\ want' = [want EXCEPT ![p] = IF valid THEN @ \cup {i} ELSE @]
      /\ pendingChunks' = IF valid THEN Append(pendingChunks, <<p, i>>) ELSE pendingChunks
      /\ asked' = IF first THEN Append(asked, <<p, i>>) ELSE asked
      /\ queueProcessing'
      /\ UNCHANGED <<sent, wire, marked, aborted>>
  BY DEF Request, Idle, IInv, Order, QueueShape
<1>2. TypeOK /\ AskedOnce /\ SentOnce /\ InOrder /\ ~Owed
  BY <1>1 DEF IInv, Order, Owed
<1>3. UNCHANGED served /\ Len(wire') = Len(wire) /\ broken' = broken
  BY <1>1 DEF served, chunkOf, broken
<1>4. valid => i \in 0 .. MaxIndex
  BY BoundAssumption DEF InPack, ChunkIndex
<1> HIDE DEF count, valid
<1>5. CASE ~valid
  <2>1. UNCHANGED <<pendingChunks, asked>>
    BY <1>1, <1>5
  <2>2. want' = want
    BY <1>1, <1>2, <1>5 DEF TypeOK
  <2> QED BY <1>1, <1>2, <1>3, <2>1, <2>2
          DEF IInv, Order, QueueShape, AskedOnce, SentOnce, InOrder, Owed
<1>6. CASE valid
  <2>1. /\ pendingChunks' = <<<<p, i>>>>
        /\ Len(pendingChunks') = 1 /\ Head(pendingChunks') = <<p, i>>
        /\ HeadPack' = p /\ HeadIndex' = i /\ pendingChunks' # <<>>
    BY <1>1, <1>6 DEF HeadPack, HeadIndex
  <2>2. /\ want'[p] = want[p] \cup {i}
        /\ \A q \in Pack \ {p} : want'[q] = want[q]
    BY <1>1, <1>2, <1>6 DEF TypeOK
  <2>3. QueueShape'
    BY <1>1, <2>1 DEF QueueShape
  <2>4. SentOnce'
    BY <1>1, <1>2, <1>3 DEF SentOnce
  <2>5. CASE i \in want[p]
    <3>1. asked' = asked
      BY <1>1, <2>5
    <3>2. AskedOnce'
      BY <1>2, <2>2, <2>5, <3>1 DEF AskedOnce
    <3>3. InOrder'
      <4> SUFFICES ASSUME ~broken' PROVE InOrder'
        BY DEF InOrder
      <4>1. /\ \A k \in DOMAIN served : k \in DOMAIN asked /\ served[k] = asked[k]
            /\ Len(asked) = Len(wire)
        BY <1>2, <1>3 DEF InOrder
      <4>2. i \in sent[p]
        <5>1. PICK k \in DOMAIN asked : asked[k] = <<p, i>>
          BY <1>2, <1>4, <1>6, <2>5 DEF AskedOnce, Elements
        <5>2. k \in DOMAIN served /\ served[k] = <<p, i>>
          BY <1>2, <4>1, <5>1, AskedShape, ServedShape
        <5> QED BY <1>2, <1>4, <1>6, <5>2 DEF SentOnce, Elements
      <4>3. ~Owed'
        BY <1>1, <2>1, <4>2 DEF Owed
      <4> QED BY <1>3, <3>1, <4>1, <4>3 DEF InOrder
    <3> QED BY <2>3, <2>4, <3>2, <3>3 DEF Order
  <2>6. CASE i \notin want[p]
    <3>1. asked' = Append(asked, <<p, i>>) /\ <<p, i>> \in Chunk
      BY <1>1, <1>4, <1>6, <2>6 DEF Chunk
    <3>2. /\ Len(asked) \in Nat /\ DOMAIN asked = 1 .. Len(asked)
          /\ Len(asked') = Len(asked) + 1 /\ DOMAIN asked' = 1 .. Len(asked) + 1
          /\ asked'[Len(asked) + 1] = <<p, i>>
          /\ \A k \in 1 .. Len(asked) : asked'[k] = asked[k]
      BY <1>2, <3>1, AppendProperties, LenProperties DEF TypeOK
    <3>3. i \notin sent[p]
      BY <2>6 DEF IInv, Bookkeeping, Loading
    <3>4. \A k \in DOMAIN asked : asked[k] # <<p, i>>
      BY <1>2, <1>4, <1>6, <2>6 DEF AskedOnce, Elements
    <3>5. AskedOnce'
      <4>1. ASSUME NEW j \in DOMAIN asked', NEW k \in DOMAIN asked', asked'[j] = asked'[k]
            PROVE  j = k
        BY <1>2, <3>2, <3>4, <4>1 DEF AskedOnce
      <4>2. ASSUME NEW q \in Pack, NEW l \in 0 .. MaxIndex
            PROVE  <<q, l>> \in Elements(asked') <=> l \in want'[q]
        <5>1. <<q, l>> \in Elements(asked') <=>
                <<q, l>> \in Elements(asked) \/ <<q, l>> = <<p, i>>
          BY <3>2 DEF Elements
        <5>2. l \in want'[q] <=> l \in want[q] \/ (q = p /\ l = i)
          BY <2>2
        <5> QED BY <1>2, <5>1, <5>2 DEF AskedOnce
      <4>3. Elements(asked') = Elements(asked)'
        BY DEF Elements
      <4> QED BY <4>1, <4>2, <4>3 DEF AskedOnce
    <3>6. InOrder'
      <4>1. Owed'
        BY <1>1, <2>1, <3>3 DEF Owed
      <4>2. ~broken =>
              /\ \A k \in DOMAIN served : k \in DOMAIN asked' /\ served[k] = asked'[k]
              /\ Len(asked') = Len(wire) + 1
        BY <1>2, <3>2 DEF InOrder
      <4> QED BY <1>3, <2>1, <3>2, <4>1, <4>2 DEF InOrder
    <3> QED BY <2>3, <2>4, <3>5, <3>6 DEF Order
  <2> QED BY <2>5, <2>6
<1> QED BY <1>5, <1>6

\* The chunk at the head exists and was asked for.
LEMMA HeadPending ==
  ASSUME IInv, pendingChunks # <<>>
  PROVE  HeadPack \in loadedPacks /\ HeadIndex \in want[HeadPack]
<1>1. 1 \in DOMAIN pendingChunks /\ pendingChunks[1] = <<HeadPack, HeadIndex>>
  BY HeadType, EmptySeq, LenProperties DEF IInv, TypeOK
<1>2. pendingChunks[1][1] = HeadPack /\ pendingChunks[1][2] = HeadIndex
  BY <1>1
<1> QED BY <1>1, <1>2 DEF IInv, Bookkeeping, PendingInRange

\* Taking the only request from the queue empties it.
LEMMA QueueEmptied ==
  ASSUME IInv, pendingChunks # <<>>, pendingChunks' = Tail(pendingChunks)
  PROVE  pendingChunks' = <<>>
<1>1. pendingChunks \in Seq(Chunk) /\ Len(pendingChunks) <= 1
  BY DEF IInv, TypeOK, Order, QueueShape
<1>2. pendingChunks' \in Seq(Chunk) /\ Len(pendingChunks') = Len(pendingChunks) - 1
      /\ Len(pendingChunks) \in Nat
  BY <1>1, HeadTailProperties, LenProperties
<1>3. Len(pendingChunks') = 0
  BY <1>1, <1>2, LenProperties
<1> QED BY <1>2, <1>3, EmptySeq

LEMMA EmptyOwesNothing ==
  ASSUME pendingChunks' = <<>>
  PROVE  QueueShape' /\ ~Owed'
BY DEF QueueShape, Owed

\* The loop drops a request that was served, or fails on one and breaks the
\* session.
LEMMA OrderDrop ==
  ASSUME IInv, pendingChunks # <<>>, pendingChunks' = Tail(pendingChunks),
         UNCHANGED <<want, sent, wire, asked>>,
         broken => broken',
         ~Owed \/ broken'
  PROVE  Order'
<1>1. pendingChunks' = <<>>
  BY QueueEmptied
<1>2. UNCHANGED served /\ Len(wire') = Len(wire)
  BY DEF served, chunkOf
<1>3. QueueShape' /\ ~Owed'
  BY <1>1, EmptyOwesNothing
<1>4. AskedOnce' /\ SentOnce'
  BY <1>2 DEF IInv, Order, AskedOnce, SentOnce, Elements
<1>5. InOrder'
  BY <1>2, <1>3 DEF IInv, Order, InOrder
<1> QED BY <1>3, <1>4, <1>5 DEF Order

LEMMA OrderSendChunk ==
  ASSUME IInv, SendChunk
  PROVE  Order'
<1> DEFINE p == HeadPack
           i == HeadIndex
           n == Len(wire)
<1>1. TypeOK /\ AskedOnce /\ SentOnce /\ InOrder
  BY DEF IInv, Order
<1>2. /\ pendingChunks # <<>> /\ i \notin sent[p]
      /\ pendingChunks' = Tail(pendingChunks)
      /\ sent' = [sent EXCEPT ![p] = @ \cup {i}]
      /\ UNCHANGED <<want, queueProcessing, marked, aborted, asked>>
  BY DEF SendChunk, Readable, historyVars
<1>3. /\ p \in Pack /\ i \in 0 .. MaxIndex
      /\ Len(wire') = n + 1 /\ DOMAIN served' = 1 .. n + 1
      /\ \A k \in 1 .. n : served'[k] = served[k]
      /\ served'[n + 1] = <<p, i>>
  BY <1>1, ServedGrows
<1>4. Head(pendingChunks) = <<p, i>> /\ Owed
  BY <1>1, <1>2, HeadType DEF Owed
<1>5. pendingChunks' = <<>>
  BY <1>2, QueueEmptied
<1>6. n \in Nat /\ DOMAIN served = 1 .. n
  BY <1>1, ServedShape
<1>7. broken' = broken
  BY <1>2 DEF broken
<1> HIDE DEF p, i, n
<1>8. QueueShape' /\ ~Owed'
  BY <1>5, EmptyOwesNothing
<1>9. AskedOnce'
  BY <1>1, <1>2 DEF AskedOnce, Elements
<1>10. SentOnce'
  <2>1. \A k \in 1 .. n : served[k] # <<p, i>>
    BY <1>1, <1>2, <1>3, <1>6 DEF SentOnce, Elements
  <2>2. ASSUME NEW j \in DOMAIN served', NEW k \in DOMAIN served', served'[j] = served'[k]
        PROVE  j = k
    BY <1>1, <1>3, <1>6, <2>1, <2>2 DEF SentOnce
  <2>3. ASSUME NEW q \in Pack, NEW l \in 0 .. MaxIndex
        PROVE  <<q, l>> \in Elements(served)' <=> l \in sent'[q]
    <3>1. <<q, l>> \in Elements(served)' <=>
            <<q, l>> \in Elements(served) \/ <<q, l>> = <<p, i>>
      BY <1>3, <1>6 DEF Elements
    <3>2. l \in sent'[q] <=> l \in sent[q] \/ (q = p /\ l = i)
      BY <1>1, <1>2, <1>3 DEF TypeOK
    <3> QED BY <1>1, <3>1, <3>2 DEF SentOnce
  <2> QED BY <2>2, <2>3 DEF SentOnce
<1>11. InOrder'
  <2>1. ~broken =>
          /\ \A k \in 1 .. n : k \in DOMAIN asked /\ served[k] = asked[k]
          /\ Len(asked) = n + 1 /\ asked[n + 1] = <<p, i>>
    BY <1>1, <1>4, <1>6 DEF InOrder, n
  <2>2. Len(asked) \in Nat /\ DOMAIN asked = 1 .. Len(asked)
    BY <1>1, AskedShape
  <2>3. ASSUME ~broken, NEW k \in DOMAIN served'
        PROVE  k \in DOMAIN asked' /\ served'[k] = asked'[k]
    BY <1>2, <1>3, <1>6, <2>1, <2>2, <2>3
  <2>4. ~broken => Len(asked') = Len(wire')
    BY <1>2, <1>3, <2>1
  <2> QED BY <1>7, <1>8, <2>3, <2>4 DEF InOrder
<1> QED BY <1>8, <1>9, <1>10, <1>11 DEF Order

\* Every step keeps the order.
LEMMA OrderStep == IInv /\ [Next]_vars => Order'
<1> SUFFICES ASSUME IInv, [Next]_vars
             PROVE  Order'
  OBVIOUS
<1>1. CASE Refuse
  BY <1>1, OrderFrame DEF Refuse, metaVars, queueVars, broken
<1>2. CASE \E entries \in Entries : SendPacks(entries)
  BY <1>2, OrderSendPacks
<1>3. CASE RequestUnknown \/ Lost
  BY <1>3, OrderFrame DEF RequestUnknown, Lost, metaVars, queueVars, broken
<1>4. ASSUME NEW p \in Pack, RequestMissing(p) PROVE Order'
  BY <1>4, OrderFrame DEF RequestMissing, metaVars, queueVars, historyVars, broken
<1>5. ASSUME NEW p \in Pack, NEW i \in ChunkIndex, Request(p, i) PROVE Order'
  BY <1>5, OrderRequest
<1>6. CASE FinishQueue
  <2>1. /\ pendingChunks = <<>> /\ UNCHANGED <<pendingChunks, want, sent, wire, asked>>
        /\ broken' = broken
    BY <1>6 DEF FinishQueue, QueueDrained, metaVars, historyVars, broken
  <2>2. UNCHANGED served /\ Len(wire') = Len(wire)
    BY <2>1 DEF served, chunkOf
  <2> QED BY <2>1, <2>2 DEF IInv, Order, QueueShape, AskedOnce, SentOnce, InOrder, Owed, Elements
<1>7. CASE SkipChunk
  <2>1. HeadPack \in loadedPacks
    BY <1>7, HeadPending DEF SkipChunk
  <2>2. ~Owed
    BY <1>7, <2>1 DEF SkipChunk, Owed
  <2> QED BY <1>7, <2>2, OrderDrop DEF SkipChunk, metaVars, historyVars, broken
<1>8. CASE SendChunk
  BY <1>8, OrderSendChunk
<1>9. CASE GiveUp
  BY <1>9, OrderDrop DEF GiveUp, Readable, metaVars, historyVars, broken
<1>10. CASE FailChunk
  BY <1>10, OrderDrop DEF FailChunk, Readable, metaVars, historyVars, broken
<1>11. CASE ChangeFiles
  BY <1>11, OrderFrame
     DEF ChangeFiles, Rewrite, Replace, Remove, ShortReadElsewhere, metaVars, queueVars,
         historyVars, broken
<1>12. CASE UNCHANGED vars
  BY <1>12, OrderFrame DEF vars, metaVars, queueVars, historyVars, broken
<1> QED BY <1>1, <1>2, <1>3, <1>4, <1>5, <1>6, <1>7, <1>8, <1>9, <1>10, <1>11, <1>12
        DEF Next, Handle, Loop

LEMMA Invariance == Spec => []IInv
<1>1. Init => IInv
  BY TypeInit, BookkeepingInit, OrderInit DEF IInv
<1>2. IInv /\ [Next]_vars => IInv'
  BY TypeStep, BookkeepingStep, OrderStep DEF IInv
<1> QED BY <1>1, <1>2, PTL DEF Spec

-----------------------------------------------------------------------------
(* What follows from the invariant.                                          *)

\* No chunk is sent twice, and a healthy session sends the chunks in the order
\* in which they were first asked for.
THEOREM ServedInOrder == Spec => []ServedOnceInOrder
<1>1. IInv => ServedOnceInOrder
  <2> SUFFICES ASSUME IInv PROVE ServedOnceInOrder
    OBVIOUS
  <2>1. Len(asked) \in Nat /\ Len(wire) \in Nat /\ Len(served) = Len(wire)
    BY AskedShape, ServedShape DEF IInv
  <2>2. ~broken => Len(served) <= Len(asked)
    BY <2>1 DEF IInv, Order, InOrder
  <2> QED BY <2>2 DEF IInv, Order, SentOnce, InOrder, ServedOnceInOrder
<1> QED BY <1>1, Invariance, PTL

\* A healthy session that waits for its next packet owes nothing.
THEOREM NothingForgotten == Spec => []IdleMeansServed
<1>1. IInv => IdleMeansServed
  <2> SUFFICES ASSUME IInv, Idle, ~broken
               PROVE  served = asked /\ pendingChunks = <<>>
    BY DEF IdleMeansServed
  <2>1. pendingChunks = <<>> /\ ~Owed
    BY DEF IInv, Order, QueueShape, Idle, Owed
  <2>2. /\ \A k \in DOMAIN served : served[k] = asked[k]
        /\ Len(asked) = Len(wire)
    BY <2>1 DEF IInv, Order, InOrder
  <2>3. /\ DOMAIN served = 1 .. Len(wire) /\ DOMAIN asked = 1 .. Len(asked)
        /\ served \in Seq(Pack \X Nat) /\ Len(served) = Len(wire)
        /\ asked \in Seq(Chunk)
    BY AskedShape, ServedShape DEF IInv, TypeOK
  <2>4. served = asked
    <3>1. served = [k \in DOMAIN served |-> served[k]]
      BY DEF served
    <3>2. asked = [k \in DOMAIN asked |-> asked[k]]
      BY <2>3, SeqDef
    <3> QED BY <2>2, <2>3, <3>1, <3>2
  <2> QED BY <2>1, <2>4
<1> QED BY <1>1, Invariance, PTL

-----------------------------------------------------------------------------
(* The transfer takes only steps of ChunkDelivery.                           *)

\* A step that touches neither the requests nor the packets sent is a stutter
\* of the promise, or the break of the session.
LEMMA BreakOrStutter ==
  ASSUME UNCHANGED <<asked, wire>>, marked => marked', aborted => aborted'
  PROVE  [Delivery!Next]_(Delivery!vars)
<1>1. UNCHANGED served
  BY DEF served, chunkOf
<1>2. CASE broken
  <2>1. broken' = broken
    BY <1>2 DEF broken
  <2> QED BY <1>1, <2>1 DEF Delivery!vars
<1>3. CASE ~broken /\ ~broken'
  <2>1. broken' = broken
    BY <1>3 DEF broken
  <2> QED BY <1>1, <2>1 DEF Delivery!vars
<1>4. CASE ~broken /\ broken'
  <2>1. broken' = TRUE
    BY <1>4 DEF broken
  <2>2. Delivery!Break
    BY <1>1, <1>4, <2>1 DEF Delivery!Break
  <2> QED BY <2>2 DEF Delivery!Next
<1> QED BY <1>2, <1>3, <1>4

LEMMA RequestAsks ==
  ASSUME IInv, NEW p \in Pack, NEW i \in ChunkIndex, Request(p, i)
  PROVE  [Delivery!Next]_(Delivery!vars)
<1> DEFINE count == IF p \in loadedPacks THEN chunkCount[p]
                                          ELSE RoundedUpChunks(pathSize[p])
           first == InPack(i, count) /\ i \notin want[p]
<1>1. /\ asked' = IF first THEN Append(asked, <<p, i>>) ELSE asked
      /\ UNCHANGED <<wire, marked, aborted>>
  BY DEF Request
<1>2. CASE ~first
  BY <1>1, <1>2, BreakOrStutter
<1>3. CASE first
  <2>1. i \in 0 .. MaxIndex /\ <<p, i>> \in Chunk
    BY <1>3, BoundAssumption DEF InPack, ChunkIndex, Chunk
  <2>2. ~Delivery!InSeq(<<p, i>>, asked)
    BY <1>3, <2>1 DEF IInv, Order, AskedOnce, Elements, Delivery!InSeq
  <2>3. asked' = Append(asked, <<p, i>>) /\ UNCHANGED <<served, broken>>
    BY <1>1, <1>3 DEF served, chunkOf, broken
  <2>4. Delivery!Ask(<<p, i>>)
    BY <2>2, <2>3 DEF Delivery!Ask
  <2> QED BY <2>1, <2>4 DEF Delivery!Next
<1> QED BY <1>2, <1>3

LEMMA SendChunkServes ==
  ASSUME IInv, SendChunk
  PROVE  [Delivery!Next]_(Delivery!vars)
<1> DEFINE c == <<HeadPack, HeadIndex>>
<1>1. /\ HeadPack \in Pack /\ HeadIndex \in 0 .. MaxIndex
      /\ DOMAIN served' = 1 .. Len(wire) + 1
      /\ \A k \in 1 .. Len(wire) : served'[k] = served[k]
      /\ served'[Len(wire) + 1] = c
  BY ServedGrows DEF IInv
<1>2. /\ Len(wire) \in Nat /\ DOMAIN served = 1 .. Len(wire)
      /\ served \in Seq(Pack \X Nat) /\ Len(served) = Len(wire)
  BY ServedShape DEF IInv
<1>3. c \in Pack \X Nat /\ c \in Chunk
  BY <1>1, BoundAssumption DEF Chunk
<1>4. /\ Head(pendingChunks) = c /\ Owed /\ HeadIndex \notin sent[HeadPack]
      /\ UNCHANGED <<asked, marked, aborted>>
  BY HeadType DEF SendChunk, Readable, Owed, historyVars, IInv
<1> HIDE DEF c
<1>5. served' = Append(served, c)
  <2> DEFINE grown == Append(served, c)
  <2>1. grown \in Seq(Pack \X Nat) /\ DOMAIN grown = 1 .. Len(wire) + 1
        /\ grown[Len(wire) + 1] = c
        /\ \A k \in 1 .. Len(wire) : grown[k] = served[k]
    BY <1>2, <1>3, AppendProperties, LenProperties
  <2> HIDE DEF grown
  <2>2. grown = [k \in DOMAIN grown |-> grown[k]]
    BY <2>1, SeqDef
  <2>3. served' = [k \in DOMAIN served' |-> served'[k]]
    BY DEF served
  <2>4. \A k \in 1 .. Len(wire) + 1 : served'[k] = grown[k]
    BY <1>1, <1>2, <2>1
  <2>5. served' = grown
    BY <1>1, <2>1, <2>2, <2>3, <2>4
  <2> QED BY <2>5 DEF grown
<1>6. broken' = broken /\ asked' = asked
  BY <1>4 DEF broken
<1>7. CASE ~broken
  <2>1. Len(asked) = Len(wire) + 1 /\ asked[Len(asked)] = c
    BY <1>4, <1>7 DEF IInv, Order, InOrder
  <2>2. Delivery!Serve
    BY <1>2, <1>5, <1>6, <1>7, <2>1 DEF Delivery!Serve
  <2> QED BY <2>2 DEF Delivery!Next
<1>8. CASE broken
  <2>1. HeadIndex \in want[HeadPack]
    BY <1>1, <1>4, HeadPending DEF Owed
  <2>2. Delivery!InSeq(c, asked) /\ ~Delivery!InSeq(c, served)
    BY <1>1, <1>4, <2>1 DEF IInv, Order, AskedOnce, SentOnce, Elements, Delivery!InSeq, c
  <2>3. Delivery!ServeBroken(c)
    BY <1>5, <1>6, <1>8, <2>2 DEF Delivery!ServeBroken
  <2> QED BY <1>3, <2>3 DEF Delivery!Next
<1> QED BY <1>7, <1>8

LEMMA DeliveryStep == IInv /\ [Next]_vars => [Delivery!Next]_(Delivery!vars)
<1> SUFFICES ASSUME IInv, [Next]_vars
             PROVE  [Delivery!Next]_(Delivery!vars)
  OBVIOUS
<1>1. CASE Refuse \/ RequestUnknown \/ Lost
  <2>1. UNCHANGED <<asked, wire, aborted>> /\ (marked => marked')
    BY <1>1 DEF Refuse, RequestUnknown, Lost
  <2> QED BY <2>1, BreakOrStutter
<1>2. CASE \E p \in Pack : RequestMissing(p)
  <2>1. UNCHANGED <<asked, wire, marked>> /\ ~aborted
    BY <1>2 DEF RequestMissing, Idle, historyVars
  <2> QED BY <2>1, BreakOrStutter
<1>3. ASSUME NEW entries \in Entries, SendPacks(entries)
      PROVE  [Delivery!Next]_(Delivery!vars)
  <2>1. UNCHANGED <<asked, wire>> /\ (marked => marked') /\ ~aborted
    BY <1>3 DEF SendPacks, Idle
  <2> QED BY <2>1, BreakOrStutter
<1>4. ASSUME NEW p \in Pack, NEW i \in ChunkIndex, Request(p, i)
      PROVE  [Delivery!Next]_(Delivery!vars)
  BY <1>4, RequestAsks
<1>5. CASE SendChunk
  BY <1>5, SendChunkServes
<1>6. CASE FinishQueue \/ SkipChunk \/ GiveUp \/ FailChunk
  BY <1>6, BreakOrStutter DEF FinishQueue, SkipChunk, GiveUp, FailChunk, historyVars
<1>7. CASE ChangeFiles
  BY <1>7, BreakOrStutter
     DEF ChangeFiles, Rewrite, Replace, Remove, ShortReadElsewhere, historyVars
<1>8. CASE UNCHANGED vars
  BY <1>8, BreakOrStutter DEF vars, historyVars
<1> QED BY <1>1, <1>2, <1>3, <1>4, <1>5, <1>6, <1>7, <1>8 DEF Next, Handle, Loop

\* The transfer implements the safety part of ChunkDelivery: whatever clients
\* send and administrators do to the files, every step is one the promise
\* allows.  (Its liveness is left to the model checker.)
THEOREM TransferDelivers == Spec => Delivery!Init /\ [][Delivery!Next]_(Delivery!vars)
<1>1. Init => Delivery!Init
  BY DEF Init, Delivery!Init, served, broken
<1> QED BY <1>1, Invariance, DeliveryStep, PTL DEF Spec

-----------------------------------------------------------------------------
(* The archives nobody touches *)

\* The tables of a pack agree with the archive the server loaded, and a read of
\* it has never failed.
AsLoaded ==
  \A p \in Pack \ changed :
    /\ pathSize[p] = InitialSize[p] /\ streamSize[p] = InitialSize[p]
    /\ streamFailed[p] = FALSE
    /\ p \in loadedPacks => chunkCount[p] = CeilChunks(InitialSize[p])

WantedExist == \A p \in Pack : want[p] \subseteq 0 .. MaxIndex

\* The chunk a message carries begins where it should and has its full length.
Carried(m) ==
  /\ m.progress = m.chunkIndex * MaxChunkSize
  /\ m.progress < InitialSize[m.packId]
  /\ m.size = LeastOf(MaxChunkSize, InitialSize[m.packId] - m.progress)

WireLengths == \A k \in DOMAIN wire : wire[k].packId \notin changed => Carried(wire[k])

Files == AsLoaded /\ WantedExist /\ WireLengths /\ AnnouncedCountHolds /\ OnlyChangedFilesHurt

FilesInv == IInv /\ Files

-----------------------------------------------------------------------------
(* Arithmetic of chunks *)

\* The chunks below the count are those that begin inside the archive.
LEMMA BeginsInside ==
  ASSUME NEW n \in Nat \ {0}, NEW i \in Nat
  PROVE  i < CeilChunks(n) <=> i * MaxChunkSize < n
<1> DEFINE q == (n - 1) \div MaxChunkSize
           M == MaxChunkSize
<1>1. n - 1 \in Nat /\ M \in Nat /\ M >= 1
  BY SizeAssumption
<1>2. q \in Nat /\ q * M <= n - 1 /\ n - 1 < q * M + M
  BY <1>1, DivChunk
<1>3. CeilChunks(n) = q + 1
  BY DEF CeilChunks
<1> HIDE DEF q, M
<1>4. i <= q => i * M <= q * M
  BY <1>1, <1>2, Z3
<1>5. i >= q + 1 => i * M >= q * M + M
  BY <1>1, <1>2, Z3
<1>6. i * M \in Nat /\ q * M \in Nat
  BY <1>1, <1>2, Z3
<1>7. i <= q \/ i >= q + 1
  BY <1>2
<1>8. i < q + 1 <=> i * M < n
  BY <1>1, <1>2, <1>4, <1>5, <1>6, <1>7
<1> QED BY <1>3, <1>8 DEF M

\* A byte lies in one chunk only.
LEMMA ChunkOfByte ==
  ASSUME NEW b \in Nat, NEW i \in Nat, NEW j \in Nat,
         i * MaxChunkSize <= b, b < i * MaxChunkSize + MaxChunkSize,
         j * MaxChunkSize <= b, b < j * MaxChunkSize + MaxChunkSize
  PROVE  i = j
<1> DEFINE M == MaxChunkSize
<1>1. M \in Nat /\ M >= 1
  BY SizeAssumption
<1> HIDE DEF M
<1>2. i < j => i * M + M <= j * M
  BY <1>1, Z3
<1>3. j < i => j * M + M <= i * M
  BY <1>1, Z3
<1>4. i * M \in Nat /\ j * M \in Nat
  BY <1>1, Z3
<1> QED BY <1>1, <1>2, <1>3, <1>4 DEF M

-----------------------------------------------------------------------------
(* The read of a pack that nobody touched *)

\* The chunk at the head begins inside the archive, and all of it is read.
LEMMA UntouchedRead ==
  ASSUME IInv, AsLoaded, Readable, HeadPack \notin changed
  PROVE  /\ ~ReadThrows
         /\ startOffset < InitialSize[HeadPack]
         /\ readSize = LeastOf(MaxChunkSize, InitialSize[HeadPack] - startOffset)
         /\ readSize = chunkSize /\ readSize > 0
<1> DEFINE p == HeadPack
           i == HeadIndex
           size == InitialSize[p]
<1>1. pendingChunks # <<>> /\ p \in loadedPacks /\ p \in Pack /\ i \in Nat
      /\ Head(pendingChunks) = <<p, i>>
  BY HeadType, BoundAssumption DEF IInv, Readable
<1>2. i < chunkCount[p]
  <2>1. 1 \in DOMAIN pendingChunks /\ pendingChunks[1] = <<p, i>>
    BY <1>1, EmptySeq, LenProperties DEF TypeOK, IInv
  <2> HIDE DEF p, i
  <2> QED BY <2>1 DEF IInv, Bookkeeping, PendingInRange
<1>3. size \in Nat \ {0} /\ MaxChunkSize \in Nat \ {0}
  BY <1>1, SizeAssumption
<1>4. pathSize[p] = size /\ streamSize[p] = size /\ streamFailed[p] = FALSE
      /\ chunkCount[p] = CeilChunks(size)
  BY <1>1 DEF AsLoaded
<1>5. startOffset \in Nat /\ startOffset < size
  <2>1. startOffset = i * MaxChunkSize
    BY DEF startOffset
  <2>2. startOffset \in Nat
    BY HeadType, <1>1 DEF IInv
  <2> HIDE DEF p, i, size
  <2> QED BY <1>1, <1>2, <1>3, <1>4, <2>1, <2>2, BeginsInside
<1>6. chunkSize = LeastOf(MaxChunkSize, size - startOffset)
  BY <1>3, <1>4, <1>5 DEF chunkSize
<1>7. chunkSize \in Nat /\ chunkSize >= 1 /\ chunkSize <= size - startOffset
  BY <1>3, <1>5, <1>6 DEF LeastOf
<1>8. readSize = chunkSize
  BY <1>3, <1>4, <1>5, <1>7 DEF readSize, LeastOf
<1>9. ~ReadThrows
  BY <1>3, <1>4, <1>7 DEF ReadThrows, NoFile
<1> QED BY <1>5, <1>6, <1>7, <1>8, <1>9

-----------------------------------------------------------------------------
(* The invariant *)

LEMMA FilesInit == Init => Files
<1> SUFFICES ASSUME Init PROVE Files
  OBVIOUS
<1>1. AsLoaded /\ WantedExist /\ AnnouncedCountHolds /\ OnlyChangedFilesHurt
  BY DEF Init, AsLoaded, WantedExist, AnnouncedCountHolds, OnlyChangedFilesHurt
<1>2. WireLengths
  BY DEF Init, WireLengths
<1> QED BY <1>1, <1>2 DEF Files

\* Steps that leave files, counts and messages alone and hurt nobody.
LEMMA FilesFrame ==
  ASSUME FilesInv,
         UNCHANGED <<loadedPacks, chunkCount, want, fileVars, streamFailed, announced, wire>>,
         OnlyChangedFilesHurt'
  PROVE  Files'
BY DEF FilesInv, Files, AsLoaded, WantedExist, WireLengths, Carried, AnnouncedCountHolds, fileVars

LEMMA FilesSendPacks ==
  ASSUME FilesInv, NEW entries \in Entries, SendPacks(entries)
  PROVE  Files'
<1>1. PICK n \in 0 .. Len(entries) :
        LET done == {entries[i] : i \in 1 .. n}
            new == NewlyLoaded(done)
            stopped == n < Len(entries)
        IN
        /\ Idle
        /\ \A i \in 1 .. n : entries[i] \in Pack /\ pathSize[entries[i]] # NoFile
        /\ stopped => (entries[n + 1] \in Pack => pathSize[entries[n + 1]] = NoFile)
        /\ loadedPacks' = loadedPacks \cup new
        /\ chunkCount' = [p \in Pack |-> IF p \in new THEN CeilChunks(pathSize[p])
                                                      ELSE chunkCount[p]]
        /\ announced' = [p \in Pack |-> IF p \in done THEN CeilChunks(pathSize[p])
                                                      ELSE announced[p]]
        /\ marked' = (marked \/ (stopped /\ entries[n + 1] \notin Pack))
        /\ provoked' = (provoked \/ (stopped /\ entries[n + 1] \notin Pack))
        /\ aborted' = (stopped /\ entries[n + 1] \in Pack)
        /\ want' = Constructed(new, want, {})
        /\ UNCHANGED <<fileVars, streamFailed, wire>>
  BY DEF SendPacks
<1> DEFINE done == {entries[i] : i \in 1 .. n}
           new == NewlyLoaded(done)
<1>2. done \subseteq Pack /\ new = done \ loadedPacks
  BY <1>1 DEF NewlyLoaded
<1>3. /\ loadedPacks' = loadedPacks \cup new
      /\ chunkCount' = [p \in Pack |-> IF p \in new THEN CeilChunks(pathSize[p])
                                                    ELSE chunkCount[p]]
      /\ announced' = [p \in Pack |-> IF p \in done THEN CeilChunks(pathSize[p])
                                                    ELSE announced[p]]
      /\ want' = Constructed(new, want, {})
      /\ UNCHANGED <<pathSize, streamSize, changed, streamFailed, wire>>
  BY <1>1 DEF fileVars
<1>4. UNCHANGED <<pathSize, streamSize, changed, streamFailed, wire>>
  BY <1>3
<1> HIDE DEF done, new
<1>5. AsLoaded'
  BY <1>2, <1>3 DEF FilesInv, Files, AsLoaded
<1>6. WantedExist'
  BY <1>2, <1>3 DEF FilesInv, Files, WantedExist, Constructed
<1>7. AnnouncedCountHolds'
  BY <1>2, <1>3 DEF FilesInv, Files, AsLoaded, AnnouncedCountHolds
<1>8. WireLengths'
  BY <1>4 DEF FilesInv, Files, WireLengths, Carried
<1>9. OnlyChangedFilesHurt'
  <2>1. changed = {} => \A p \in Pack : pathSize[p] # NoFile
    BY SizeAssumption DEF FilesInv, Files, AsLoaded, NoFile
  <2> QED BY <1>1, <1>4, <2>1 DEF FilesInv, Files, OnlyChangedFilesHurt
<1> QED BY <1>5, <1>6, <1>7, <1>8, <1>9 DEF Files

LEMMA FilesRequest ==
  ASSUME FilesInv, NEW p \in Pack, NEW i \in ChunkIndex, Request(p, i)
  PROVE  Files'
<1> DEFINE count == IF p \in loadedPacks THEN chunkCount[p]
                                          ELSE RoundedUpChunks(pathSize[p])
<1>1. /\ loadedPacks' = loadedPacks \cup {p}
      /\ chunkCount' = [chunkCount EXCEPT ![p] = count]
      /\ want' = [want EXCEPT ![p] = IF InPack(i, count) THEN @ \cup {i} ELSE @]
      /\ UNCHANGED <<announced, pathSize, streamSize, changed, streamFailed, wire,
                     marked, aborted, provoked>>
  BY DEF Request, fileVars
<1>2. p \notin changed => count = CeilChunks(InitialSize[p])
  BY SizeAssumption, ChunkCounts DEF FilesInv, Files, AsLoaded
<1>3. p \in loadedPacks => count = chunkCount[p]
  OBVIOUS
<1>4. InPack(i, count) => i \in 0 .. MaxIndex
  BY BoundAssumption DEF InPack, ChunkIndex
<1> HIDE DEF count
<1>5. AsLoaded'
  BY <1>1, <1>2 DEF FilesInv, Files, AsLoaded, IInv, TypeOK
<1>6. WantedExist'
  BY <1>1, <1>4 DEF FilesInv, Files, WantedExist, IInv, TypeOK
<1>7. AnnouncedCountHolds'
  BY <1>1, <1>3 DEF FilesInv, Files, AnnouncedCountHolds, IInv, TypeOK
<1>8. WireLengths' /\ OnlyChangedFilesHurt'
  BY <1>1 DEF FilesInv, Files, WireLengths, Carried, OnlyChangedFilesHurt
<1> QED BY <1>5, <1>6, <1>7, <1>8 DEF Files

LEMMA FilesSendChunk ==
  ASSUME FilesInv, SendChunk
  PROVE  Files'
<1> DEFINE m == [packId |-> HeadPack, chunkIndex |-> HeadIndex,
                 progress |-> startOffset, size |-> readSize]
<1>1. /\ Readable
      /\ wire' = Append(wire, m)
      /\ streamFailed' = [streamFailed EXCEPT ![HeadPack] = readSize < chunkSize]
      /\ UNCHANGED <<loadedPacks, chunkCount, want, marked, aborted, pathSize, streamSize,
                     changed, announced, provoked>>
  BY DEF SendChunk, fileVars, historyVars
<1>2. HeadPack \in Pack
  BY <1>1, HeadType DEF FilesInv, IInv, Readable
<1>3. HeadPack \notin changed => Carried(m) /\ readSize = chunkSize /\ chunkSize \in Int
  <2> SUFFICES ASSUME HeadPack \notin changed
               PROVE  Carried(m) /\ readSize = chunkSize /\ chunkSize \in Int
    OBVIOUS
  <2>1. /\ startOffset < InitialSize[HeadPack]
        /\ readSize = LeastOf(MaxChunkSize, InitialSize[HeadPack] - startOffset)
        /\ readSize = chunkSize
    BY <1>1, UntouchedRead DEF FilesInv, Files
  <2>2. chunkSize \in Int
    BY <1>1, HeadType DEF FilesInv, IInv, Readable
  <2> QED BY <2>1, <2>2 DEF Carried, startOffset
<1>4. m \in Message
  BY <1>1, <1>2, HeadType, BoundAssumption DEF FilesInv, IInv, Readable, Message, SendChunk
<1>5. m.packId = HeadPack
  OBVIOUS
<1> HIDE DEF m
<1>6. WireLengths'
  <2>1. /\ Len(wire) \in Nat /\ wire'[Len(wire) + 1] = m
        /\ \A k \in 1 .. Len(wire) : wire'[k] = wire[k]
        /\ DOMAIN wire = 1 .. Len(wire) /\ DOMAIN wire' = 1 .. Len(wire) + 1
    BY <1>1, <1>4, AppendProperties, LenProperties DEF FilesInv, IInv, TypeOK
  <2>2. \A k \in DOMAIN wire' : k \in 1 .. Len(wire) \/ k = Len(wire) + 1
    BY <2>1
  <2>3. \A k \in 1 .. Len(wire) : wire[k].packId \notin changed => Carried(wire[k])
    BY <2>1 DEF FilesInv, Files, WireLengths
  <2>4. \A k \in DOMAIN wire' : wire'[k].packId \notin changed => Carried(wire'[k])
    BY <1>3, <1>5, <2>1, <2>2, <2>3
  <2>5. UNCHANGED changed
    BY <1>1
  <2> QED BY <2>4, <2>5 DEF WireLengths, Carried
<1>7. AsLoaded'
  BY <1>1, <1>2, <1>3 DEF FilesInv, Files, AsLoaded, IInv, TypeOK
<1>8. WantedExist' /\ AnnouncedCountHolds' /\ OnlyChangedFilesHurt'
  BY <1>1 DEF FilesInv, Files, WantedExist, AnnouncedCountHolds, OnlyChangedFilesHurt
<1> QED BY <1>6, <1>7, <1>8 DEF Files

\* The loop gives up only on a pack somebody touched.
LEMMA FilesGiveUp ==
  ASSUME FilesInv, GiveUp \/ FailChunk
  PROVE  Files'
<1>1. /\ Readable /\ HeadPack \in changed
      /\ UNCHANGED <<loadedPacks, chunkCount, want, pathSize, streamSize, changed,
                     announced, wire>>
      /\ \A p \in Pack \ {HeadPack} : streamFailed'[p] = streamFailed[p]
  BY UntouchedRead DEF GiveUp, FailChunk, metaVars, fileVars, FilesInv, Files, IInv, TypeOK
<1>2. AsLoaded'
  BY <1>1 DEF FilesInv, Files, AsLoaded
<1>3. WantedExist' /\ WireLengths' /\ AnnouncedCountHolds'
  BY <1>1 DEF FilesInv, Files, WantedExist, WireLengths, Carried, AnnouncedCountHolds
<1>4. OnlyChangedFilesHurt'
  BY <1>1 DEF OnlyChangedFilesHurt
<1> QED BY <1>2, <1>3, <1>4 DEF Files

LEMMA FilesChange ==
  ASSUME FilesInv, NEW p \in Pack,
         \/ \E n \in Nat : Rewrite(p, n) \/ Replace(p, n)
         \/ Remove(p) \/ ShortReadElsewhere(p)
  PROVE  Files'
<1>1. /\ p \in changed' /\ changed \subseteq changed'
      /\ \A q \in Pack \ {p} : /\ pathSize'[q] = pathSize[q] /\ streamSize'[q] = streamSize[q]
                               /\ streamFailed'[q] = streamFailed[q]
      /\ UNCHANGED <<loadedPacks, chunkCount, want, announced, wire>>
  BY DEF Rewrite, Replace, Remove, ShortReadElsewhere, fileVars, metaVars, FilesInv, IInv, TypeOK
<1>2. AsLoaded'
  BY <1>1 DEF FilesInv, Files, AsLoaded
<1>3. WantedExist' /\ WireLengths' /\ AnnouncedCountHolds'
  BY <1>1 DEF FilesInv, Files, WantedExist, WireLengths, Carried, AnnouncedCountHolds
<1>4. OnlyChangedFilesHurt'
  BY <1>1 DEF OnlyChangedFilesHurt
<1> QED BY <1>2, <1>3, <1>4 DEF Files

LEMMA FilesStep == FilesInv /\ [Next]_vars => Files'
<1> SUFFICES ASSUME FilesInv, [Next]_vars
             PROVE  Files'
  OBVIOUS
<1>0. OnlyChangedFilesHurt
  BY DEF FilesInv, Files
<1>1. CASE Refuse \/ RequestUnknown \/ Lost
  <2>1. OnlyChangedFilesHurt'
    BY <1>0, <1>1 DEF Refuse, RequestUnknown, Lost, OnlyChangedFilesHurt, fileVars
  <2> QED BY <1>1, <2>1, FilesFrame DEF Refuse, RequestUnknown, Lost, metaVars
<1>2. ASSUME NEW entries \in Entries, SendPacks(entries) PROVE Files'
  BY <1>2, FilesSendPacks
<1>3. ASSUME NEW p \in Pack, RequestMissing(p) PROVE Files'
  <2>1. p \in changed
    BY <1>3, SizeAssumption DEF RequestMissing, FilesInv, Files, AsLoaded, NoFile
  <2>2. OnlyChangedFilesHurt'
    BY <1>3, <2>1 DEF RequestMissing, OnlyChangedFilesHurt, fileVars
  <2> QED BY <1>3, <2>2, FilesFrame DEF RequestMissing, metaVars
<1>4. ASSUME NEW p \in Pack, NEW i \in ChunkIndex, Request(p, i) PROVE Files'
  BY <1>4, FilesRequest
<1>5. CASE FinishQueue \/ SkipChunk
  <2>1. OnlyChangedFilesHurt'
    BY <1>0, <1>5 DEF FinishQueue, SkipChunk, OnlyChangedFilesHurt, fileVars, historyVars
  <2> QED BY <1>5, <2>1, FilesFrame DEF FinishQueue, SkipChunk, metaVars
<1>6. CASE SendChunk
  BY <1>6, FilesSendChunk
<1>7. CASE GiveUp \/ FailChunk
  BY <1>7, FilesGiveUp
<1>8. CASE ChangeFiles
  BY <1>8, FilesChange, SizeAssumption DEF ChangeFiles
<1>9. CASE UNCHANGED vars
  <2>1. OnlyChangedFilesHurt'
    BY <1>0, <1>9 DEF vars, OnlyChangedFilesHurt, fileVars, historyVars
  <2> QED BY <1>9, <2>1, FilesFrame DEF vars, metaVars
<1> QED BY <1>1, <1>2, <1>3, <1>4, <1>5, <1>6, <1>7, <1>8, <1>9 DEF Next, Handle, Loop

LEMMA FilesCorrect == Spec => []FilesInv
<1>1. Init => FilesInv
  BY TypeInit, BookkeepingInit, OrderInit, FilesInit DEF FilesInv, IInv
<1>2. FilesInv /\ [Next]_vars => FilesInv'
  BY TypeStep, BookkeepingStep, OrderStep, FilesStep DEF FilesInv, IInv
<1> QED BY <1>1, <1>2, PTL DEF Spec

-----------------------------------------------------------------------------
(* What follows *)

\* The chunk count a client was told is the one its requests are checked
\* against, whichever handler loaded the pack, as long as nobody touched it.
THEOREM AnnouncedIsChecked == Spec => []AnnouncedCountHolds
<1>1. FilesInv => AnnouncedCountHolds
  BY DEF FilesInv, Files
<1> QED BY <1>1, FilesCorrect, PTL

\* While the archives are left alone nothing a client sends makes a handler
\* throw, and no session is marked that its client did not provoke.
THEOREM ClientsCannotHurt == Spec => []OnlyChangedFilesHurt
<1>1. FilesInv => OnlyChangedFilesHurt
  BY DEF FilesInv, Files
<1> QED BY <1>1, FilesCorrect, PTL

\* A finished pack that nobody touched arrived whole: every byte of it in
\* exactly one chunk.
THEOREM FinishedIsWhole == Spec => []FinishedPackIsWhole
<1>1. FilesInv => FinishedPackIsWhole
  <2> SUFFICES ASSUME FilesInv, NEW p \in loadedPacks \ changed,
                      nextToSend[p] >= chunkCount[p]
               PROVE  /\ \A b \in 0 .. InitialSize[p] - 1 : Cardinality(Covering(p, b)) = 1
                      /\ \A k \in DOMAIN wire :
                           wire[k].packId = p => wire[k].progress + wire[k].size <= InitialSize[p]
    BY DEF FinishedPackIsWhole
  <2> DEFINE size == InitialSize[p]
  <2>1. p \in Pack /\ size \in Nat \ {0} /\ MaxChunkSize \in Nat \ {0}
        /\ chunkCount[p] = CeilChunks(size) /\ nextToSend[p] \in Nat
    BY SizeAssumption DEF FilesInv, Files, IInv, TypeOK, AsLoaded
  <2>2. \A k \in DOMAIN wire :
          /\ wire[k].packId = p => Carried(wire[k])
          /\ wire[k].chunkIndex \in Nat /\ wire[k].progress \in Nat
          /\ served[k] = <<wire[k].packId, wire[k].chunkIndex>>
    <3>1. \A k \in DOMAIN wire : wire[k] \in Message
      BY ServedShape, ElementOfSeq DEF FilesInv, IInv, TypeOK
    <3> QED BY <3>1 DEF FilesInv, Files, WireLengths, served, chunkOf, Message
  <2>3. ASSUME NEW k \in DOMAIN wire, wire[k].packId = p
        PROVE  wire[k].progress + wire[k].size <= size
    <3>1. wire[k].progress \in Nat /\ Carried(wire[k])
      BY <2>2, <2>3
    <3> QED BY <2>1, <2>3, <3>1 DEF Carried, LeastOf
  <2>4. ASSUME NEW b \in 0 .. size - 1
        PROVE  Cardinality(Covering(p, b)) = 1
    <3> DEFINE i == b \div MaxChunkSize
    <3>1. b \in Nat /\ b < size
      BY <2>1
    <3>2. i \in Nat /\ i * MaxChunkSize <= b /\ b < i * MaxChunkSize + MaxChunkSize
      BY <3>1, DivChunk
    <3> HIDE DEF i
    <3>3. i * MaxChunkSize \in Nat
      BY <2>1, <3>2, Z3
    <3>4. i < chunkCount[p]
      <4>1. i * MaxChunkSize < size
        BY <2>1, <3>1, <3>2, <3>3
      <4> HIDE DEF size
      <4> QED BY <2>1, <3>2, <4>1, BeginsInside
    <3>5. i \in sent[p]
      <4>1. i \in 0 .. nextToSend[p] - 1
        <5>1. chunkCount[p] \in Nat
          BY <2>1 DEF FilesInv, IInv, TypeOK
        <5> QED BY <2>1, <3>2, <3>4, <5>1
      <4> QED BY <4>1 DEF FilesInv, IInv, Bookkeeping, NextToSendIsFirstUnsent
    <3>6. i \in 0 .. MaxIndex
      BY <2>1, <3>5 DEF FilesInv, Files, WantedExist, IInv, Bookkeeping, Loading
    <3>7. PICK k \in DOMAIN wire : served[k] = <<p, i>>
      <4>1. <<p, i>> \in Elements(served)
        BY <2>1, <3>5, <3>6 DEF FilesInv, IInv, Order, SentOnce
      <4> QED BY <4>1, ServedShape DEF Elements, FilesInv, IInv
    <3>8. wire[k].packId = p /\ wire[k].chunkIndex = i
      BY <2>2, <3>7
    <3>9. k \in Covering(p, b)
      <4>1. Carried(wire[k]) /\ wire[k].progress = i * MaxChunkSize
        BY <2>2, <3>8 DEF Carried
      <4>2. wire[k].size = LeastOf(MaxChunkSize, size - i * MaxChunkSize)
        BY <3>8, <4>1 DEF Carried
      <4>3. b < i * MaxChunkSize + wire[k].size
        BY <2>1, <3>1, <3>2, <3>3, <4>2 DEF LeastOf
      <4> QED BY <3>2, <3>8, <4>1, <4>3 DEF Covering
    <3>10. ASSUME NEW j \in Covering(p, b) PROVE j = k
      <4>1. j \in DOMAIN wire /\ wire[j].packId = p /\ wire[j].progress <= b
            /\ b < wire[j].progress + wire[j].size
        BY <3>10 DEF Covering
      <4> DEFINE c == wire[j].chunkIndex
      <4>2. /\ c \in Nat /\ served[j] = <<p, c>>
            /\ wire[j].progress = c * MaxChunkSize
            /\ wire[j].size = LeastOf(MaxChunkSize, size - c * MaxChunkSize)
        BY <2>2, <4>1 DEF Carried
      <4> HIDE DEF c
      <4>3. c * MaxChunkSize \in Nat
        BY <2>1, <4>2, Z3
      <4>4. c * MaxChunkSize <= b /\ b < c * MaxChunkSize + MaxChunkSize
        BY <2>1, <3>1, <4>1, <4>2, <4>3 DEF LeastOf
      <4>5. c = i
        BY <3>1, <3>2, <4>2, <4>4, ChunkOfByte
      <4> QED BY <3>7, <4>1, <4>2, <4>5, ServedShape DEF FilesInv, IInv, Order, SentOnce
    <3>11. Covering(p, b) = {k}
      BY <3>9, <3>10
    <3> QED BY <3>11, FS_Singleton
  <2> QED BY <2>3, <2>4
<1> QED BY <1>1, FilesCorrect, PTL

-----------------------------------------------------------------------------
(* Several sessions *)

\* The members of session c are those the thread works with.
Here(c) ==
  /\ Of(c).loadedPacks = loadedPacks /\ Of(c).chunkCount = chunkCount
  /\ Of(c).want = want /\ Of(c).sent = sent /\ Of(c).nextToSend = nextToSend
  /\ Of(c).packQueue = packQueue /\ Of(c).pendingChunks = pendingChunks
  /\ Of(c).currentPack = currentPack /\ Of(c).queueProcessing = queueProcessing
  /\ Of(c).marked = marked /\ Of(c).aborted = aborted
  /\ Of(c).announced = announced /\ Of(c).wire = wire
  /\ Of(c).asked = asked /\ Of(c).provoked = provoked

\* A step leaves the members of session c alone.
Untouched(c) ==
  UNCHANGED <<Of(c).loadedPacks, Of(c).chunkCount, Of(c).want, Of(c).sent,
              Of(c).nextToSend, Of(c).packQueue, Of(c).pendingChunks,
              Of(c).currentPack, Of(c).queueProcessing, Of(c).marked, Of(c).aborted,
              Of(c).announced, Of(c).wire, Of(c).asked, Of(c).provoked>>

-----------------------------------------------------------------------------
(* The invariant *)

Table ==
  /\ this \in Connection /\ DOMAIN saved = Connection
  /\ sessions \subseteq Connection

\* The thread left the other sessions in no handler, and none of them threw.
OthersIdle == \A c \in Connection \ {this} : ~Of(c).queueProcessing /\ ~Of(c).aborted

Archives ==
  /\ changed \subseteq Mutable
  /\ pathSize \in [Pack -> Nat \cup {NoFile}] /\ streamSize \in [Pack -> Nat]
  /\ streamFailed \in [Pack -> BOOLEAN]
  /\ \A p \in Pack \ changed :
       pathSize[p] = InitialSize[p] /\ streamSize[p] = InitialSize[p]

\* What session members m hold of an archive nobody touched is true of it: the
\* chunk count, and that a chunk in the queue begins inside of it.
Counted(m) ==
  /\ m.loadedPacks \subseteq Pack /\ m.chunkCount \in [Pack -> Nat]
  /\ \A p \in m.loadedPacks \ changed : m.chunkCount[p] = CeilChunks(InitialSize[p])

Begins(chunk) ==
  chunk[1] \notin changed => chunk[2] * MaxChunkSize < InitialSize[chunk[1]]

Queued(m) ==
  /\ m.pendingChunks \in Seq(Chunk)
  /\ \A k \in DOMAIN m.pendingChunks : Begins(m.pendingChunks[k])

AllKnow == \A c \in Connection : Counted(Of(c)) /\ Queued(Of(c))

ServerInv == Table /\ OthersIdle /\ Archives /\ AllKnow

-----------------------------------------------------------------------------
(* The session the thread is in *)

LEMMA ThisIsHere == \A c : c = this => Here(c)
BY DEF Here, Of, Members

LEMMA ThisIsHereNext == \A c : c = this' => Here(c)'
BY DEF Here, Of, Members

LEMMA OthersKept ==
  ASSUME NEW c, c # this, UNCHANGED <<this, saved>>
  PROVE  Untouched(c)
BY DEF Untouched, Of

\* The operators of Transfer(c) that look at no variable.
LEMMA SameOperators ==
  ASSUME NEW c
  PROVE  /\ Transfer(c)!NoFile = NoFile /\ Transfer(c)!Entries = Entries
         /\ Transfer(c)!ChunkIndex = ChunkIndex
         /\ \A s : Transfer(c)!Elements(s) = Elements(s)
         /\ \A s, x : Transfer(c)!Without(s, x) = Without(s, x)
         /\ \A m, n : Transfer(c)!LeastOf(m, n) = LeastOf(m, n)
         /\ \A i, n : Transfer(c)!InPack(i, n) = InPack(i, n)
         /\ \A n : Transfer(c)!RoundedUpChunks(n) = RoundedUpChunks(n)
         /\ \A n : Transfer(c)!CeilChunks(n) = CeilChunks(n)
         /\ \A new, f, init : Transfer(c)!Constructed(new, f, init) = Constructed(new, f, init)
<1>1. \A s, x : Transfer(c)!Without(s, x) = Without(s, x)
  BY DEF Without, Transfer!Without, Positions, Transfer!Positions, Rank, Transfer!Rank,
         Cardinality, Transfer!Cardinality
<1> QED
  BY <1>1 DEF NoFile, Transfer!NoFile, Entries, Transfer!Entries, ChunkIndex,
              Transfer!ChunkIndex, Elements, Transfer!Elements, LeastOf, Transfer!LeastOf,
              InPack, Transfer!InPack, RoundedUpChunks, Transfer!RoundedUpChunks,
              CeilChunks, Transfer!CeilChunks, Constructed, Transfer!Constructed

\* The steps that change few members.
LEMMA OwnSmallSteps ==
  ASSUME NEW c, Here(c), Here(c)'
  PROVE  /\ Refuse => Transfer(c)!Refuse
         /\ RequestUnknown => Transfer(c)!RequestUnknown
         /\ Lost => Transfer(c)!Lost
         /\ \A p : RequestMissing(p) => Transfer(c)!RequestMissing(p)
         /\ FinishQueue => Transfer(c)!FinishQueue
         /\ SkipChunk => Transfer(c)!SkipChunk
<1> USE DEF Here, metaVars, queueVars, fileVars, historyVars, Transfer!metaVars,
            Transfer!queueVars, Transfer!fileVars, Transfer!historyVars
<1>1. /\ Idle <=> Transfer(c)!Idle
      /\ Running <=> Transfer(c)!Running
      /\ HeadPack = Transfer(c)!HeadPack /\ HeadIndex = Transfer(c)!HeadIndex
      /\ QueueDrained <=> Transfer(c)!QueueDrained
  BY DEF Idle, Transfer!Idle, Running, Transfer!Running, HeadPack, Transfer!HeadPack,
         HeadIndex, Transfer!HeadIndex, QueueDrained, Transfer!QueueDrained
<1>2. Refuse => Transfer(c)!Refuse
  BY <1>1 DEF Refuse, Transfer!Refuse
<1>3. RequestUnknown => Transfer(c)!RequestUnknown
  BY <1>1 DEF RequestUnknown, Transfer!RequestUnknown
<1>4. Lost => Transfer(c)!Lost
  BY <1>1 DEF Lost, Transfer!Lost
<1>5. ASSUME NEW p, RequestMissing(p)
      PROVE  Transfer(c)!RequestMissing(p)
  BY <1>1, <1>5, SameOperators DEF RequestMissing, Transfer!RequestMissing
<1>6. FinishQueue => Transfer(c)!FinishQueue
  BY <1>1 DEF FinishQueue, Transfer!FinishQueue
<1>7. SkipChunk => Transfer(c)!SkipChunk
  BY <1>1 DEF SkipChunk, Transfer!SkipChunk
<1> QED BY <1>2, <1>3, <1>4, <1>5, <1>6, <1>7

LEMMA OwnRequest ==
  ASSUME NEW c, Here(c), Here(c)', NEW p \in Pack, NEW i \in ChunkIndex, Request(p, i)
  PROVE  Transfer(c)!Request(p, i)
<1> DEFINE count == IF p \in Of(c).loadedPacks THEN Of(c).chunkCount[p]
                    ELSE Transfer(c)!RoundedUpChunks(pathSize[p])
           valid == Transfer(c)!InPack(i, count)
           first == valid /\ i \notin Of(c).want[p]
           here == IF p \in loadedPacks THEN chunkCount[p] ELSE RoundedUpChunks(pathSize[p])
<1>1. count = here
  BY SameOperators DEF Here
<1>2. valid = InPack(i, here)
  BY <1>1, SameOperators
<1>3. first = (InPack(i, here) /\ i \notin want[p])
  BY <1>2 DEF Here
<1>4. Transfer(c)!Elements(packQueue) = Elements(packQueue)
  BY SameOperators
<1> HIDE DEF count, valid, first
<1>5. Transfer(c)!Idle /\ (p \in Of(c).loadedPacks \/ pathSize[p] # Transfer(c)!NoFile)
  BY SameOperators DEF Request, Here, Idle, Transfer!Idle
<1>6. /\ Of(c)'.loadedPacks = Of(c).loadedPacks \cup {p}
      /\ Of(c)'.chunkCount = [Of(c).chunkCount EXCEPT ![p] = count]
  BY <1>1 DEF Request, Here
<1>7. Of(c)'.want = [Of(c).want EXCEPT ![p] = IF valid THEN @ \cup {i} ELSE @]
  BY <1>2 DEF Request, Here
<1>8. Of(c)'.pendingChunks = IF valid THEN Append(Of(c).pendingChunks, <<p, i>>)
                             ELSE Of(c).pendingChunks
  BY <1>2 DEF Request, Here
<1>9. Of(c)'.currentPack = IF Of(c).currentPack = NoPack THEN p ELSE Of(c).currentPack
  BY DEF Request, Here
<1>10. Of(c)'.packQueue = IF p \in Transfer(c)!Elements(Of(c).packQueue) THEN Of(c).packQueue
                          ELSE Append(Of(c).packQueue, p)
  BY <1>4, Zenon DEF Request, Here
<1>11. Of(c)'.queueProcessing = TRUE
  BY DEF Request, Here
<1>12. Of(c)'.asked = IF first THEN Append(Of(c).asked, <<p, i>>) ELSE Of(c).asked
  BY <1>3 DEF Request, Here
<1>13. UNCHANGED <<Of(c).sent, Of(c).nextToSend, Of(c).marked, Of(c).aborted,
                   Transfer(c)!fileVars, streamFailed, Of(c).announced, Of(c).wire,
                   Of(c).provoked>>
  BY DEF Request, Here, fileVars, Transfer!fileVars
<1> QED
  BY <1>5, <1>6, <1>7, <1>8, <1>9, <1>10, <1>11, <1>12, <1>13
     DEF Transfer!Request, count, valid, first

LEMMA OwnSendPacks ==
  ASSUME NEW c, Here(c), Here(c)', NEW entries \in Entries, SendPacks(entries)
  PROVE  Transfer(c)!SendPacks(entries)
<1>1. PICK n \in 0 .. Len(entries) :
        LET done == {entries[i] : i \in 1 .. n}
            new == NewlyLoaded(done)
            stopped == n < Len(entries)
        IN
        /\ Idle
        /\ Len(packQueue) + Len(entries) <= PackQueueBound
        /\ \A i \in 1 .. n : entries[i] \in Pack /\ pathSize[entries[i]] # NoFile
        /\ stopped => (entries[n + 1] \in Pack => pathSize[entries[n + 1]] = NoFile)
        /\ packQueue' = packQueue \o SubSeq(entries, 1, n)
        /\ loadedPacks' = loadedPacks \cup new
        /\ chunkCount' = [p \in Pack |-> IF p \in new THEN CeilChunks(pathSize[p])
                                                      ELSE chunkCount[p]]
        /\ announced' = [p \in Pack |-> IF p \in done THEN CeilChunks(pathSize[p])
                                                      ELSE announced[p]]
        /\ marked' = (marked \/ (stopped /\ entries[n + 1] \notin Pack))
        /\ provoked' = (provoked \/ (stopped /\ entries[n + 1] \notin Pack))
        /\ aborted' = (stopped /\ entries[n + 1] \in Pack)
        /\ want' = Constructed(new, want, {})
        /\ sent' = Constructed(new, sent, {})
        /\ nextToSend' = Constructed(new, nextToSend, 0)
        /\ UNCHANGED <<pendingChunks, currentPack, queueProcessing, fileVars,
                       streamFailed, wire, asked>>
  BY DEF SendPacks
<1> DEFINE done == {entries[i] : i \in 1 .. n}
           new == Transfer(c)!NewlyLoaded(done)
           stopped == n < Len(entries)
<1>2. new = NewlyLoaded(done)
  BY DEF NewlyLoaded, Transfer!NewlyLoaded, Here
<1> HIDE DEF done, new, stopped
<1>3. /\ Transfer(c)!Idle
      /\ Len(Of(c).packQueue) + Len(entries) <= PackQueueBound
      /\ \A i \in 1 .. n : entries[i] \in Pack /\ pathSize[entries[i]] # Transfer(c)!NoFile
      /\ stopped => (entries[n + 1] \in Pack => pathSize[entries[n + 1]] = Transfer(c)!NoFile)
  BY <1>1, SameOperators DEF Here, Idle, Transfer!Idle, stopped
<1>4. /\ Of(c)'.packQueue = Of(c).packQueue \o SubSeq(entries, 1, n)
      /\ Of(c)'.loadedPacks = Of(c).loadedPacks \cup new
  BY <1>1, <1>2 DEF Here, done
<1>5. Of(c)'.chunkCount = [p \in Pack |-> IF p \in new THEN Transfer(c)!CeilChunks(pathSize[p])
                                                       ELSE Of(c).chunkCount[p]]
  <2>1. chunkCount' = [p \in Pack |-> IF p \in new THEN CeilChunks(pathSize[p])
                                                   ELSE chunkCount[p]]
    BY <1>1, <1>2 DEF done
  <2>2. \A p : Transfer(c)!CeilChunks(pathSize[p]) = CeilChunks(pathSize[p])
    BY SameOperators
  <2>3. Of(c)'.chunkCount = chunkCount' /\ Of(c).chunkCount = chunkCount
    BY DEF Here
  <2> QED BY <2>1, <2>2, <2>3
<1>6. Of(c)'.announced = [p \in Pack |-> IF p \in done THEN Transfer(c)!CeilChunks(pathSize[p])
                                                       ELSE Of(c).announced[p]]
  <2>1. announced' = [p \in Pack |-> IF p \in done THEN CeilChunks(pathSize[p])
                                                   ELSE announced[p]]
    BY <1>1 DEF done
  <2>2. \A p : Transfer(c)!CeilChunks(pathSize[p]) = CeilChunks(pathSize[p])
    BY SameOperators
  <2>3. Of(c)'.announced = announced' /\ Of(c).announced = announced
    BY DEF Here
  <2> QED BY <2>1, <2>2, <2>3
<1>7. /\ Of(c)'.marked = (Of(c).marked \/ (stopped /\ entries[n + 1] \notin Pack))
      /\ Of(c)'.provoked = (Of(c).provoked \/ (stopped /\ entries[n + 1] \notin Pack))
      /\ Of(c)'.aborted = (stopped /\ entries[n + 1] \in Pack)
  BY <1>1, Zenon DEF Here, stopped
<1>8. /\ Of(c)'.want = Transfer(c)!Constructed(new, Of(c).want, {})
      /\ Of(c)'.sent = Transfer(c)!Constructed(new, Of(c).sent, {})
      /\ Of(c)'.nextToSend = Transfer(c)!Constructed(new, Of(c).nextToSend, 0)
  <2>1. /\ want' = Constructed(new, want, {})
        /\ sent' = Constructed(new, sent, {})
        /\ nextToSend' = Constructed(new, nextToSend, 0)
    BY <1>1, <1>2, Zenon DEF done
  <2>2. /\ Transfer(c)!Constructed(new, want, {}) = Constructed(new, want, {})
        /\ Transfer(c)!Constructed(new, sent, {}) = Constructed(new, sent, {})
        /\ Transfer(c)!Constructed(new, nextToSend, 0) = Constructed(new, nextToSend, 0)
    BY SameOperators
  <2> QED BY <2>1, <2>2 DEF Here
<1>9. UNCHANGED <<Of(c).pendingChunks, Of(c).currentPack, Of(c).queueProcessing,
                  Transfer(c)!fileVars, streamFailed, Of(c).wire, Of(c).asked>>
  BY <1>1 DEF Here, fileVars, Transfer!fileVars
<1> QED
  BY <1>3, <1>4, <1>5, <1>6, <1>7, <1>8, <1>9
     DEF Transfer!SendPacks, done, new, stopped

\* The reads of the loop.
LEMMA OwnRead ==
  ASSUME NEW c, Here(c)
  PROVE  /\ HeadPack = Transfer(c)!HeadPack /\ HeadIndex = Transfer(c)!HeadIndex
         /\ startOffset = Transfer(c)!startOffset
         /\ chunkSize = Transfer(c)!chunkSize /\ readSize = Transfer(c)!readSize
         /\ Readable <=> Transfer(c)!Readable
         /\ ReadThrows <=> Transfer(c)!ReadThrows
         /\ NextPackQueue = Transfer(c)!NextPackQueue
         /\ NextCurrentPack = Transfer(c)!NextCurrentPack
<1>1. HeadPack = Transfer(c)!HeadPack /\ HeadIndex = Transfer(c)!HeadIndex
  BY DEF Here, HeadPack, Transfer!HeadPack, HeadIndex, Transfer!HeadIndex
<1>2. startOffset = Transfer(c)!startOffset
  BY <1>1 DEF startOffset, Transfer!startOffset
<1>3. chunkSize = Transfer(c)!chunkSize
  BY <1>1, <1>2, SameOperators DEF chunkSize, Transfer!chunkSize
<1>4. readSize = Transfer(c)!readSize
  BY <1>1, <1>2, <1>3, SameOperators DEF readSize, Transfer!readSize
<1>5. Readable <=> Transfer(c)!Readable
  BY <1>1 DEF Here, Readable, Transfer!Readable, Running, Transfer!Running
<1>6. ReadThrows <=> Transfer(c)!ReadThrows
  BY <1>1, <1>3, SameOperators DEF ReadThrows, Transfer!ReadThrows
<1>7. NextPackQueue = Transfer(c)!NextPackQueue
  <2>1. Transfer(c)!Without(packQueue, currentPack) = Without(packQueue, currentPack)
    BY SameOperators
  <2> QED BY <2>1 DEF Here, NextPackQueue, Transfer!NextPackQueue
<1>8. NextCurrentPack = Transfer(c)!NextCurrentPack
  BY <1>7 DEF NextCurrentPack, Transfer!NextCurrentPack
<1> QED BY <1>1, <1>2, <1>3, <1>4, <1>5, <1>6, <1>7, <1>8

LEMMA OwnSendChunk ==
  ASSUME NEW c, Here(c), Here(c)', SendChunk
  PROVE  Transfer(c)!SendChunk
<1> DEFINE p == Transfer(c)!HeadPack
           i == Transfer(c)!HeadIndex
<1>1. /\ HeadPack = p /\ HeadIndex = i
      /\ startOffset = Transfer(c)!startOffset
      /\ chunkSize = Transfer(c)!chunkSize /\ readSize = Transfer(c)!readSize
      /\ NextPackQueue = Transfer(c)!NextPackQueue
      /\ NextCurrentPack = Transfer(c)!NextCurrentPack
  BY OwnRead
<1> HIDE DEF p, i
<1>2. Transfer(c)!Readable /\ ~Transfer(c)!ReadThrows /\ Transfer(c)!readSize > 0
  BY OwnRead DEF SendChunk
<1>3. /\ Of(c)'.pendingChunks = Tail(Of(c).pendingChunks)
      /\ Of(c)'.wire = Append(Of(c).wire, [packId |-> p, chunkIndex |-> i,
                           progress |-> Transfer(c)!startOffset,
                           size |-> Transfer(c)!readSize])
  BY <1>1 DEF SendChunk, Here
<1>4. /\ streamFailed' = [streamFailed EXCEPT ![p] = Transfer(c)!readSize < Transfer(c)!chunkSize]
      /\ Of(c)'.sent = [Of(c).sent EXCEPT ![p] = @ \cup {i}]
  BY <1>1 DEF SendChunk, Here
<1>5. PICK n \in nextToSend[HeadPack] .. chunkCount[HeadPack] :
        /\ StopsAt(HeadPack, sent'[HeadPack], n)
        /\ nextToSend' = [nextToSend EXCEPT ![HeadPack] = n]
        /\ IF n >= chunkCount[HeadPack]
           THEN packQueue' = NextPackQueue /\ currentPack' = NextCurrentPack
           ELSE UNCHANGED <<packQueue, currentPack>>
  BY DEF SendChunk
<1>6. n \in Of(c).nextToSend[p] .. Of(c).chunkCount[p]
  BY <1>1, <1>5 DEF Here
<1>7. Transfer(c)!StopsAt(p, Of(c)'.sent[p], n)
  BY <1>1, <1>5 DEF Here, StopsAt, Transfer!StopsAt
<1>8. Of(c)'.nextToSend = [Of(c).nextToSend EXCEPT ![p] = n]
  BY <1>1, <1>5 DEF Here
<1>9. IF n >= Of(c).chunkCount[p]
      THEN /\ Of(c)'.packQueue = Transfer(c)!NextPackQueue
           /\ Of(c)'.currentPack = Transfer(c)!NextCurrentPack
      ELSE UNCHANGED <<Of(c).packQueue, Of(c).currentPack>>
  BY <1>1, <1>5 DEF Here
<1>10. UNCHANGED <<Of(c).loadedPacks, Of(c).chunkCount, Of(c).want, Of(c).queueProcessing,
                   Of(c).marked, Of(c).aborted, Transfer(c)!fileVars, Of(c).announced,
                   Transfer(c)!historyVars>>
  BY DEF SendChunk, Here, fileVars, Transfer!fileVars, historyVars, Transfer!historyVars
<1> QED
  BY <1>2, <1>3, <1>4, <1>6, <1>7, <1>8, <1>9, <1>10 DEF Transfer!SendChunk, p, i

LEMMA OwnFailures ==
  ASSUME NEW c, Here(c), Here(c)'
  PROVE  /\ GiveUp => Transfer(c)!GiveUp
         /\ FailChunk => Transfer(c)!FailChunk
<1> USE DEF Here, metaVars, fileVars, historyVars, Transfer!metaVars,
            Transfer!fileVars, Transfer!historyVars
<1>1. GiveUp => Transfer(c)!GiveUp
  BY OwnRead DEF GiveUp, Transfer!GiveUp
<1>2. FailChunk => Transfer(c)!FailChunk
  BY OwnRead DEF FailChunk, Transfer!FailChunk
<1> QED BY <1>1, <1>2

\* Whatever the session the thread is in does is a step of ResourcePackTransfer.
LEMMA OwnStep ==
  ASSUME NEW c, Here(c), Here(c)', Handle \/ Loop
  PROVE  Transfer(c)!Next
<1>1. ASSUME Handle
      PROVE  Transfer(c)!Handle
  BY <1>1, OwnSmallSteps, OwnSendPacks, OwnRequest, SameOperators DEF Handle, Transfer!Handle
<1>2. ASSUME Loop
      PROVE  Transfer(c)!Loop
  BY <1>2, OwnSmallSteps, OwnSendChunk, OwnFailures DEF Loop, Transfer!Loop
<1> QED BY <1>1, <1>2 DEF Transfer!Next

-----------------------------------------------------------------------------
(* What a read finds *)

LEMMA HeadOfQueue ==
  ASSUME Queued(Members), pendingChunks # <<>>
  PROVE  /\ HeadPack \in Pack /\ HeadIndex \in 0 .. MaxIndex
         /\ HeadPack \notin changed => HeadIndex * MaxChunkSize < InitialSize[HeadPack]
         /\ Tail(pendingChunks) \in Seq(Chunk)
         /\ \A k \in DOMAIN Tail(pendingChunks) : Begins(Tail(pendingChunks)[k])
<1>1. /\ pendingChunks \in Seq(Chunk)
      /\ \A k \in DOMAIN pendingChunks : Begins(pendingChunks[k])
  BY DEF Queued, Members
<1>2. 1 \in DOMAIN pendingChunks /\ Head(pendingChunks) = pendingChunks[1]
      /\ pendingChunks[1] \in Chunk
  BY <1>1, EmptySeq, LenProperties, HeadTailProperties, ElementOfSeq
<1>3. HeadPack \in Pack /\ HeadIndex \in 0 .. MaxIndex
  BY <1>2 DEF HeadPack, HeadIndex, Chunk
<1>4. HeadPack \notin changed => HeadIndex * MaxChunkSize < InitialSize[HeadPack]
  BY <1>1, <1>2 DEF Begins, HeadPack, HeadIndex
<1>5. /\ Tail(pendingChunks) \in Seq(Chunk)
      /\ \A k \in DOMAIN Tail(pendingChunks) :
           k + 1 \in DOMAIN pendingChunks /\ Tail(pendingChunks)[k] = pendingChunks[k + 1]
  BY <1>1, HeadTailProperties, LenProperties
<1> QED BY <1>1, <1>3, <1>4, <1>5

\* A read comes back short only from an archive somebody touched.
LEMMA ShortOnlyWhenChanged ==
  ASSUME Archives, Queued(Members), Readable, readSize < chunkSize
  PROVE  HeadPack \in changed
<1> DEFINE p == HeadPack
           size == InitialSize[p]
<1> SUFFICES ASSUME p \notin changed PROVE FALSE
  OBVIOUS
<1>1. p \in Pack /\ HeadIndex \in Nat /\ HeadIndex * MaxChunkSize < size
  BY HeadOfQueue, BoundAssumption DEF Readable
<1>2. size \in Nat /\ MaxChunkSize \in Nat /\ MaxChunkSize > 0
  BY <1>1, SizeAssumption
<1>3. startOffset \in Nat /\ startOffset < size
  <2>1. HeadIndex * MaxChunkSize \in Nat
    BY <1>1, <1>2, Z3
  <2> QED BY <1>1, <2>1 DEF startOffset
<1>4. pathSize[p] = size /\ streamSize[p] = size
  BY <1>1 DEF Archives
<1>5. chunkSize = LeastOf(MaxChunkSize, size - startOffset)
  BY <1>2, <1>3, <1>4 DEF chunkSize
<1>6. chunkSize \in Nat /\ chunkSize <= size - startOffset
  BY <1>2, <1>3, <1>5 DEF LeastOf
<1>7. readSize = chunkSize
  BY <1>2, <1>3, <1>4, <1>6 DEF readSize, LeastOf
<1> QED BY <1>6, <1>7

-----------------------------------------------------------------------------
(* The other sessions *)

LEMMA OtherStutters ==
  ASSUME NEW c, Untouched(c), UNCHANGED sharedVars
  PROVE  UNCHANGED Transfer(c)!vars
BY DEF Untouched, sharedVars, fileVars, Transfer!vars, Transfer!metaVars, Transfer!queueVars,
       Transfer!fileVars, Transfer!historyVars

LEMMA OtherHears ==
  ASSUME ServerInv, NEW c \in Connection \ {this}, Untouched(c), UNCHANGED fileVars,
         NEW p \in changed, streamFailed' = [streamFailed EXCEPT ![p] = TRUE]
  PROVE  Transfer(c)!Next
<1>1. ~Of(c).queueProcessing /\ ~Of(c).aborted
  BY DEF ServerInv, OthersIdle
<1>2. Transfer(c)!ShortReadElsewhere(p)
  BY <1>1 DEF Untouched, fileVars, Transfer!ShortReadElsewhere, Transfer!metaVars,
              Transfer!queueVars, Transfer!fileVars, Transfer!historyVars
<1>3. p \in Mutable
  BY DEF ServerInv, Archives
<1> QED BY <1>2, <1>3 DEF Transfer!Next, Transfer!ChangeFiles

LEMMA OtherStep ==
  ASSUME ServerInv, NEW c \in Connection \ {this}, Session
  PROVE  Transfer(c)!Next \/ UNCHANGED Transfer(c)!vars
<1>1. Untouched(c)
  BY OthersKept DEF Session, tableVars
<1>2. Queued(Members) /\ Archives
  BY DEF ServerInv, Table, AllKnow, Of
<1>3. CASE UNCHANGED sharedVars
  BY <1>1, <1>3, OtherStutters
<1>4. CASE SendChunk
  <2>1. /\ Readable /\ ~ReadThrows
        /\ streamFailed' = [streamFailed EXCEPT ![HeadPack] = readSize < chunkSize]
        /\ UNCHANGED fileVars
    BY <1>4 DEF SendChunk
  <2>2. CASE readSize < chunkSize
    <3>1. HeadPack \in changed
      BY <1>2, <2>1, <2>2, ShortOnlyWhenChanged
    <3>2. streamFailed' = [streamFailed EXCEPT ![HeadPack] = TRUE]
      BY <2>1, <2>2
    <3> QED BY <1>1, <2>1, <3>1, <3>2, OtherHears
  <2>3. CASE ~(readSize < chunkSize)
    <3>1. HeadPack \in Pack /\ streamFailed[HeadPack] = FALSE
      BY <1>2, <2>1, HeadOfQueue DEF Readable, ReadThrows, Archives
    <3>2. streamFailed' = [streamFailed EXCEPT ![HeadPack] = FALSE]
      <4>1. (readSize < chunkSize) = FALSE
        BY <2>3
      <4> QED BY <2>1, <4>1, Zenon
    <3>3. streamFailed' = streamFailed
      BY <1>2, <3>1, <3>2 DEF Archives
    <3> QED BY <1>1, <2>1, <3>3, OtherStutters DEF sharedVars
  <2> QED BY <2>2, <2>3
<1>5. CASE GiveUp
  <2>1. /\ Readable /\ ~ReadThrows /\ readSize = 0
        /\ streamFailed' = [streamFailed EXCEPT ![HeadPack] = TRUE]
        /\ UNCHANGED fileVars
    BY <1>5 DEF GiveUp
  <2>2. HeadPack \in Pack
    BY <1>2, <2>1, HeadOfQueue DEF Readable
  <2>3. HeadPack \in changed
    <3>1. chunkSize \in Int
      <4>1. HeadIndex \in Int /\ MaxChunkSize \in Int
        BY <1>2, <2>1, HeadOfQueue, SizeAssumption, BoundAssumption DEF Readable
      <4>2. HeadIndex * MaxChunkSize \in Int
        BY <4>1, Z3
      <4>3. pathSize[HeadPack] \in Int /\ startOffset \in Int
        BY <1>2, <2>2, <4>1, <4>2 DEF Archives, NoFile, startOffset
      <4> QED BY <4>1, <4>3 DEF chunkSize, LeastOf
    <3>2. readSize < chunkSize
      BY <2>1, <3>1 DEF ReadThrows
    <3> QED BY <1>2, <2>1, <3>2, ShortOnlyWhenChanged
  <2> QED BY <1>1, <2>1, <2>3, OtherHears
<1>6. Handle \/ FinishQueue \/ SkipChunk \/ FailChunk => UNCHANGED sharedVars
  BY DEF Handle, Refuse, SendPacks, RequestUnknown, Lost, RequestMissing, Request,
         FinishQueue, SkipChunk, FailChunk, sharedVars
<1> QED BY <1>3, <1>4, <1>5, <1>6 DEF Session, Loop

\* What somebody does to the archives every session sees.
LEMMA FilesStepOfAll ==
  ASSUME ServerInv, NEW c \in Connection, TouchFiles
  PROVE  Transfer(c)!Next
<1>1. PICK p \in Mutable : Remove(p) \/ \E n \in NewSizes : Rewrite(p, n) \/ Replace(p, n)
  BY DEF TouchFiles
<1>2. UNCHANGED <<ownVars, this, saved>>
  BY <1>1 DEF TouchFiles, tableVars, Remove, Rewrite, Replace, ownVars
<1>3. Untouched(c)
  <2>1. CASE c = this
    BY <1>2, <2>1 DEF Untouched, Of, Members, ownVars, metaVars, queueVars, historyVars
  <2>2. CASE c # this
    BY <1>2, <2>2, OthersKept
  <2> QED BY <2>1, <2>2
<1>4. ~Of(c).aborted
  <2>1. CASE c = this
    BY <1>1, <2>1, ThisIsHere DEF Here, Remove, Rewrite, Replace
  <2>2. CASE c # this
    BY <2>2 DEF ServerInv, OthersIdle
  <2> QED BY <2>1, <2>2
<1> USE DEF Untouched, Transfer!metaVars, Transfer!queueVars, Transfer!historyVars
<1>5. Remove(p) => Transfer(c)!Remove(p)
  BY <1>3, <1>4, SameOperators DEF Remove, Transfer!Remove
<1>6. \A n : Rewrite(p, n) => Transfer(c)!Rewrite(p, n)
  BY <1>3, <1>4, SameOperators DEF Rewrite, Transfer!Rewrite
<1>7. \A n : Replace(p, n) => Transfer(c)!Replace(p, n)
  BY <1>3, <1>4, SameOperators DEF Replace, Transfer!Replace
<1> HIDE DEF Untouched
<1> QED BY <1>1, <1>5, <1>6, <1>7 DEF Transfer!Next, Transfer!ChangeFiles

-----------------------------------------------------------------------------
(* The invariant holds *)

LEMMA InvInit == ServerInit => ServerInv
<1> SUFFICES ASSUME ServerInit PROVE ServerInv
  OBVIOUS
<1>1. Table
  BY DEF ServerInit, Table
<1>2. \A c \in Connection : Of(c) = Members
  BY DEF ServerInit, Of
<1>3. OthersIdle
  BY <1>2 DEF ServerInit, Init, OthersIdle, Members
<1>4. Archives
  BY SizeAssumption DEF ServerInit, Init, Archives
<1>5. Counted(Members) /\ Queued(Members)
  BY EmptySeq DEF ServerInit, Init, Counted, Queued, Members
<1> QED BY <1>1, <1>2, <1>3, <1>4, <1>5 DEF ServerInv, AllKnow

LEMMA ArchivesStep ==
  ASSUME Archives, Queued(Members), [Handle \/ Loop \/ TouchFiles]_sharedVars
  PROVE  Archives'
<1>1. CASE UNCHANGED sharedVars
  BY <1>1 DEF sharedVars, fileVars, Archives
<1>2. CASE Handle \/ FinishQueue \/ SkipChunk \/ FailChunk
  <2>1. UNCHANGED sharedVars
    BY <1>2 DEF Handle, Refuse, SendPacks, RequestUnknown, Lost, RequestMissing, Request,
                FinishQueue, SkipChunk, FailChunk, sharedVars
  <2> QED BY <1>1, <2>1
<1>3. CASE SendChunk \/ GiveUp
  <2>1. /\ UNCHANGED fileVars
        /\ \E b \in BOOLEAN : streamFailed' = [streamFailed EXCEPT ![HeadPack] = b]
    <3>1. CASE SendChunk
      <4>1. (readSize < chunkSize) \in BOOLEAN
        OBVIOUS
      <4> QED BY <3>1, <4>1, Zenon DEF SendChunk
    <3>2. CASE GiveUp
      BY <3>2 DEF GiveUp
    <3> QED BY <1>3, <3>1, <3>2
  <2> QED BY <2>1 DEF fileVars, Archives
<1>4. CASE TouchFiles
  <2>1. PICK p \in Mutable : Remove(p) \/ \E n \in NewSizes : Rewrite(p, n) \/ Replace(p, n)
    BY <1>4 DEF TouchFiles
  <2>2. p \in Pack /\ NewSizes \subseteq Nat
    BY SizeAssumption
  <2>3. CASE Remove(p)
    BY <2>2, <2>3 DEF Remove, Archives
  <2>4. ASSUME NEW n \in NewSizes, Rewrite(p, n)
        PROVE  Archives'
    BY <2>2, <2>4 DEF Rewrite, Archives
  <2>5. ASSUME NEW n \in NewSizes, Replace(p, n)
        PROVE  Archives'
    BY <2>2, <2>5 DEF Replace, Archives
  <2> QED BY <2>1, <2>3, <2>4, <2>5
<1> QED BY <1>1, <1>2, <1>3, <1>4 DEF Loop

\* What is known of an archive stays known as long as nobody touches it.
LEMMA KnowsUntouched ==
  ASSUME NEW c, Untouched(c), changed \subseteq changed', Counted(Of(c)), Queued(Of(c))
  PROVE  Counted(Of(c))' /\ Queued(Of(c))'
BY DEF Untouched, Counted, Queued, Begins

\* The thread's session learns nothing wrong.
LEMMA KnowsSendPacks ==
  ASSUME Archives, Counted(Members), Queued(Members), NEW entries \in Entries,
         SendPacks(entries)
  PROVE  Counted(Members)' /\ Queued(Members)'
<1>1. PICK n \in 0 .. Len(entries) :
        LET new == NewlyLoaded({entries[i] : i \in 1 .. n})
        IN  /\ \A i \in 1 .. n : entries[i] \in Pack /\ pathSize[entries[i]] # NoFile
            /\ loadedPacks' = loadedPacks \cup new
            /\ chunkCount' = [p \in Pack |-> IF p \in new THEN CeilChunks(pathSize[p])
                                                          ELSE chunkCount[p]]
            /\ UNCHANGED <<pendingChunks, changed>>
  BY DEF SendPacks, fileVars
<1> DEFINE new == NewlyLoaded({entries[i] : i \in 1 .. n})
<1>2. \A p \in new : p \in Pack /\ pathSize[p] \in Nat
  BY <1>1 DEF NewlyLoaded, Archives, NoFile
<1>3. \A p \in new : CeilChunks(pathSize[p]) \in Nat
  BY <1>2, ChunkCounts
<1> HIDE DEF new
<1>4. Counted(Members)'
  <2>1. loadedPacks' \subseteq Pack /\ chunkCount' \in [Pack -> Nat]
    BY <1>1, <1>2, <1>3 DEF Counted, Members, new
  <2>2. ASSUME NEW p \in loadedPacks' \ changed'
        PROVE  chunkCount'[p] = CeilChunks(InitialSize[p])
    BY <1>1, <1>2, <2>1, <2>2 DEF Counted, Members, Archives, new
  <2> QED BY <2>1, <2>2 DEF Counted, Members
<1> QED BY <1>1, <1>4 DEF Queued, Begins, Members

LEMMA KnowsRequest ==
  ASSUME Archives, Counted(Members), Queued(Members), NEW p \in Pack,
         NEW i \in ChunkIndex, Request(p, i)
  PROVE  Counted(Members)' /\ Queued(Members)'
<1> DEFINE count == IF p \in loadedPacks THEN chunkCount[p]
                                          ELSE RoundedUpChunks(pathSize[p])
<1>1. /\ p \in loadedPacks \/ pathSize[p] # NoFile
      /\ loadedPacks' = loadedPacks \cup {p}
      /\ chunkCount' = [chunkCount EXCEPT ![p] = count]
      /\ pendingChunks' = IF InPack(i, count) THEN Append(pendingChunks, <<p, i>>)
                                              ELSE pendingChunks
      /\ UNCHANGED changed
  BY DEF Request, fileVars
<1>2. count \in Nat /\ (p \notin changed => count = CeilChunks(InitialSize[p]))
  <2>1. CASE p \in loadedPacks
    BY <2>1 DEF Counted, Members
  <2>2. CASE p \notin loadedPacks
    <3>1. pathSize[p] \in Nat
      BY <1>1, <2>2 DEF Archives, NoFile
    <3>2. RoundedUpChunks(pathSize[p]) = CeilChunks(pathSize[p])
          /\ CeilChunks(pathSize[p]) \in Nat
      BY <3>1, ChunkCounts
    <3> QED BY <2>2, <3>2 DEF Archives
  <2> QED BY <2>1, <2>2
<1> HIDE DEF count
<1>3. Counted(Members)'
  <2>1. loadedPacks' \subseteq Pack /\ chunkCount' \in [Pack -> Nat]
    BY <1>1, <1>2 DEF Counted, Members
  <2>2. ASSUME NEW q \in loadedPacks' \ changed'
        PROVE  chunkCount'[q] = CeilChunks(InitialSize[q])
    BY <1>1, <1>2, <2>1, <2>2 DEF Counted, Members
  <2> QED BY <2>1, <2>2 DEF Counted, Members
<1>4. Queued(Members)'
  <2>1. CASE ~InPack(i, count)
    BY <1>1, <2>1 DEF Queued, Begins, Members
  <2>2. CASE InPack(i, count)
    <3>1. <<p, i>> \in Chunk /\ i \in Nat /\ i < count
      BY <1>2, <2>2, BoundAssumption DEF InPack, Chunk, ChunkIndex
    <3>2. p \notin changed => i * MaxChunkSize < InitialSize[p]
      <4> HIDE DEF ChunkIndex
      <4>1. InitialSize[p] \in Nat \ {0}
        BY SizeAssumption
      <4> QED BY <1>2, <3>1, <4>1, BeginsInside
    <3>3. /\ pendingChunks \in Seq(Chunk)
          /\ \A k \in DOMAIN pendingChunks : Begins(pendingChunks[k])
      BY DEF Queued, Members
    <3>4. Begins(<<p, i>>)
      BY <3>2 DEF Begins
    <3>5. pendingChunks' = Append(pendingChunks, <<p, i>>)
      BY <1>1, <2>2
    <3>6. pendingChunks' \in Seq(Chunk) /\ \A k \in DOMAIN pendingChunks' : Begins(pendingChunks'[k])
      BY <3>1, <3>3, <3>4, <3>5, AppendProperties, LenProperties
    <3> QED BY <1>1, <3>6 DEF Queued, Begins, Members
  <2> QED BY <2>1, <2>2
<1> QED BY <1>3, <1>4

LEMMA KnowsOwn ==
  ASSUME Archives, Counted(Members), Queued(Members), Handle \/ Loop
  PROVE  Counted(Members)' /\ Queued(Members)'
<1>1. CASE \E entries \in Entries : SendPacks(entries)
  BY <1>1, KnowsSendPacks
<1>2. CASE \E p \in Pack, i \in ChunkIndex : Request(p, i)
  BY <1>2, KnowsRequest
<1>3. CASE UNCHANGED <<loadedPacks, chunkCount, pendingChunks, changed>>
  BY <1>3 DEF Counted, Queued, Begins, Members
<1>4. CASE SkipChunk \/ SendChunk \/ GiveUp \/ FailChunk
  <2>1. /\ pendingChunks # <<>> /\ pendingChunks' = Tail(pendingChunks)
        /\ UNCHANGED <<loadedPacks, chunkCount, changed>>
    BY <1>4 DEF SkipChunk, SendChunk, GiveUp, FailChunk, Readable, metaVars, fileVars
  <2>2. /\ Tail(pendingChunks) \in Seq(Chunk)
        /\ \A k \in DOMAIN Tail(pendingChunks) : Begins(Tail(pendingChunks)[k])
    BY <2>1, HeadOfQueue
  <2> QED BY <2>1, <2>2 DEF Counted, Queued, Begins, Members
<1>5. Refuse \/ RequestUnknown \/ Lost \/ FinishQueue \/ (\E p \in Pack : RequestMissing(p))
        => UNCHANGED <<loadedPacks, chunkCount, pendingChunks, changed>>
  BY DEF Refuse, RequestUnknown, Lost, FinishQueue, RequestMissing, metaVars, queueVars, fileVars
<1> QED BY <1>1, <1>2, <1>3, <1>4, <1>5 DEF Handle, Loop

\* What a change of the table does to the members of the sessions: nothing.
LEMMA TableStep ==
  ASSUME Table, NEW c \in Connection,
         \/ \E d \in Connection : OnConnect(d) \/ Enter(d)
         \/ Cleanup
  PROVE  Untouched(c) /\ UNCHANGED sharedVars
<1>1. CASE Cleanup \/ \E d \in Connection : OnConnect(d)
  <2>1. UNCHANGED <<vars, this, saved>>
    BY <1>1 DEF Cleanup, OnConnect
  <2>2. UNCHANGED Members
    BY <2>1 DEF vars, metaVars, queueVars, historyVars, Members
  <2> QED BY <2>1, <2>2 DEF vars, sharedVars, Untouched, Of
<1>2. ASSUME NEW d \in Connection, Enter(d)
      PROVE  Untouched(c) /\ UNCHANGED sharedVars
  <2>1. d # this /\ this' = d /\ saved' = [saved EXCEPT ![this] = Members]
        /\ UNCHANGED sharedVars
    BY <1>2 DEF Enter
  <2>2. CASE c = d
    <3>1. Of(c) = saved[d] /\ Here(c)'
      BY <2>1, <2>2, ThisIsHereNext DEF Of
    <3> QED BY <1>2, <2>1, <3>1 DEF Enter, Here, Untouched
  <2>3. CASE c # d
    <3>1. Of(c)' = Of(c)
      BY <2>1, <2>3 DEF Table, Of
    <3> QED BY <2>1, <3>1 DEF Untouched
  <2> QED BY <2>2, <2>3
<1> QED BY <1>1, <1>2

LEMMA InvStep == ServerInv /\ [ServerNext]_serverVars => ServerInv'
<1> SUFFICES ASSUME ServerInv, [ServerNext]_serverVars
             PROVE  ServerInv'
  OBVIOUS
<1>1. Table /\ OthersIdle /\ Archives /\ AllKnow /\ Counted(Members) /\ Queued(Members)
      /\ Of(this) = Members /\ this \in Connection
  BY DEF ServerInv, AllKnow, Table, Of
<1>2. CASE \/ \E d \in Connection : OnConnect(d) \/ Enter(d)
           \/ Cleanup
  <2>1. \A c \in Connection : Untouched(c) /\ UNCHANGED sharedVars
    BY <1>1, <1>2, TableStep
  <2>2. UNCHANGED sharedVars
    BY <1>1, <2>1
  <2>3. Archives'
    BY <1>1, <2>2, ArchivesStep
  <2>4. Table'
    BY <1>1, <1>2 DEF Table, OnConnect, Enter, Cleanup
  <2>5. OthersIdle'
    <3>1. UNCHANGED this \/ (Idle /\ this' \in Connection)
      BY <1>1, <1>2 DEF OnConnect, Enter, HandlerIsDone, Cleanup, Table
    <3>2. Idle => ~Of(this).queueProcessing /\ ~Of(this).aborted
      BY <1>1 DEF Idle, Members
    <3>3. ASSUME NEW c \in Connection, c # this'
          PROVE  ~Of(c)'.queueProcessing /\ ~Of(c)'.aborted
      <4>1. ~Of(c).queueProcessing /\ ~Of(c).aborted
        BY <1>1, <3>1, <3>2, <3>3 DEF OthersIdle
      <4> QED BY <2>1, <4>1 DEF Untouched
    <3> QED BY <3>3 DEF OthersIdle
  <2>6. AllKnow'
    BY <1>1, <2>1, <2>2, KnowsUntouched DEF AllKnow, sharedVars, fileVars
  <2> QED BY <2>3, <2>4, <2>5, <2>6 DEF ServerInv
<1>3. CASE Session \/ TouchFiles
  <2>1. UNCHANGED tableVars /\ (Handle \/ Loop \/ TouchFiles)
    BY <1>3 DEF Session, TouchFiles
  <2>2. Archives'
    BY <1>1, <2>1, ArchivesStep
  <2>3. Table'
    BY <1>1, <2>1 DEF Table, tableVars
  <2>4. \A c \in Connection \ {this} : Untouched(c)
    BY <2>1, OthersKept DEF tableVars
  <2>5. OthersIdle'
    BY <1>1, <2>1, <2>4 DEF OthersIdle, Untouched, tableVars
  <2>6. changed \subseteq changed'
    BY <2>1 DEF Handle, Refuse, SendPacks, RequestUnknown, Lost, RequestMissing, Request, Loop,
                FinishQueue, SkipChunk, SendChunk, GiveUp, FailChunk, TouchFiles, Remove,
                Rewrite, Replace, fileVars
  <2>7. Counted(Members)' /\ Queued(Members)'
    <3>1. CASE Handle \/ Loop
      BY <1>1, <3>1, KnowsOwn
    <3>2. CASE TouchFiles
      <4>1. UNCHANGED <<loadedPacks, chunkCount, pendingChunks>>
        BY <3>2 DEF TouchFiles, Remove, Rewrite, Replace, metaVars, queueVars
      <4> QED BY <1>1, <2>6, <4>1 DEF Counted, Queued, Begins, Members
    <3> QED BY <2>1, <3>1, <3>2
  <2>8. AllKnow'
    <3>1. ASSUME NEW c \in Connection
          PROVE  Counted(Of(c))' /\ Queued(Of(c))'
      <4>1. CASE c = this
        <5>1. Of(c)' = Members'
          BY <2>1, <4>1 DEF Of, tableVars
        <5> QED BY <2>7, <5>1 DEF Counted, Queued, Begins
      <4>2. CASE c # this
        BY <1>1, <2>4, <2>6, <4>2, KnowsUntouched DEF AllKnow
      <4> QED BY <4>1, <4>2
    <3> QED BY <3>1 DEF AllKnow
  <2> QED BY <2>2, <2>3, <2>5, <2>8 DEF ServerInv
<1>4. CASE UNCHANGED serverVars
  <2>1. UNCHANGED <<this, saved, sessions>> /\ UNCHANGED sharedVars /\ UNCHANGED Members
    BY <1>4 DEF serverVars, tableVars, vars, metaVars, queueVars, historyVars, sharedVars, Members
  <2>2. Archives'
    BY <1>1, <2>1, ArchivesStep
  <2>3. \A c \in Connection : Untouched(c)
    BY <2>1 DEF Untouched, Of
  <2>4. AllKnow'
    BY <1>1, <2>1, <2>3, KnowsUntouched DEF AllKnow, sharedVars, fileVars
  <2>5. Table' /\ OthersIdle'
    BY <1>1, <2>1, <2>3 DEF Table, OthersIdle, Untouched
  <2> QED BY <2>2, <2>4, <2>5 DEF ServerInv
<1> QED BY <1>2, <1>3, <1>4 DEF ServerNext

-----------------------------------------------------------------------------
\* EachSessionTransfers of ServerSessions: the handlers and the loop of one
\* session, the table and the changes of the archives are, for every session,
\* steps of ResourcePackTransfer or none at all, however many sessions there are.
THEOREM SessionsTransfer == ServerSpec => EachSessionTransfers
<1> DEFINE Each == \A c \in Connection : [Transfer(c)!Next]_(Transfer(c)!vars)
<1>1. ServerInit => \A c \in Connection : Transfer(c)!Init
  <2> SUFFICES ASSUME ServerInit, NEW c \in Connection
               PROVE  Transfer(c)!Init
    OBVIOUS
  <2>1. Of(c) = Members
    BY DEF ServerInit, Of
  <2> QED BY <2>1 DEF ServerInit, Init, Members, Transfer!Init
<1>2. ServerInv /\ [ServerNext]_serverVars => Each
  <2> SUFFICES ASSUME ServerInv, [ServerNext]_serverVars, NEW c \in Connection
               PROVE  Transfer(c)!Next \/ UNCHANGED Transfer(c)!vars
    OBVIOUS
  <2>1. CASE \/ \E d \in Connection : OnConnect(d) \/ Enter(d)
             \/ Cleanup
    BY <2>1, TableStep, OtherStutters DEF ServerInv
  <2>2. CASE Session
    <3>1. CASE c = this
      <4>1. c = this' /\ (Handle \/ Loop)
        BY <2>2, <3>1 DEF Session, tableVars
      <4> QED BY <3>1, <4>1, ThisIsHere, ThisIsHereNext, OwnStep
    <3>2. CASE c # this
      BY <2>2, <3>2, OtherStep
    <3> QED BY <3>1, <3>2
  <2>3. CASE TouchFiles
    BY <2>3, FilesStepOfAll
  <2>4. CASE UNCHANGED serverVars
    <3>1. UNCHANGED <<this, saved>> /\ UNCHANGED sharedVars /\ UNCHANGED Members
      BY <2>4 DEF serverVars, tableVars, vars, metaVars, queueVars, historyVars, sharedVars,
                  Members
    <3> QED BY <3>1, OtherStutters DEF Untouched, Of
  <2> QED BY <2>1, <2>2, <2>3, <2>4 DEF ServerNext
<1> HIDE DEF Each
<1>3. ServerSpec => [][Each]_serverVars
  BY <1>2, InvInit, InvStep, PTL DEF ServerSpec
<1> QED BY <1>1, <1>3, PTL DEF ServerSpec, EachSessionTransfers, Each
=============================================================================
