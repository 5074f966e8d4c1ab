------------------------ MODULE ResourcePackTransfer ------------------------
(***************************************************************************)
(* The resource-pack download of one client session:                       *)
(* NetworkSession::handleResourcePackClientResponse,                       *)
(* handleResourcePackChunkRequest, processChunkQueue and nextPack          *)
(* (src/network/session/network_session.cpp), with the pack metadata of    *)
(* ResourcePackMeta.hpp and the file reads of ZippedResourcePack.          *)
(*                                                                         *)
(* The server handles packets on one thread.  The two handlers are one     *)
(* action each; the loop of processChunkQueue is one action per iteration, *)
(* because every iteration asks the file system for the size and the bytes *)
(* of the pack, and the archive on disk may be changed, replaced or        *)
(* removed by an administrator between two iterations.  While the loop     *)
(* runs (queueProcessing) no other packet of the session is handled.       *)
(*                                                                         *)
(* Bytes are abstracted to offsets and lengths.  The responses Completed   *)
(* and HaveAllPacks touch none of this state.                              *)
(***************************************************************************)
EXTENDS Integers, Sequences, FiniteSets

CONSTANTS
  Pack,            \* packs the ResourcePackFactory has registered
  UnknownPack,     \* an id getPackById does not find (the nil id among them)
  NoPack,          \* the nil uuid of currentPack
  MaxChunkSize,    \* ResourcePackFactory::getMaxChunkSize()
  InitialSize,     \* size of each pack's archive when the server loaded it
  Mutable,         \* packs whose archive somebody changes while the server runs
  NewSizes,        \* sizes such a change may produce
  MaxIndex,        \* chunkIndex is a signed integer: -MaxIndex-1 .. MaxIndex
  ForceResources,  \* Server::shouldForceResources()
  MaxEntries,      \* bound: entries of one SendPacks response
  PackQueueBound   \* bound: length of packQueue that SendPacks may reach

ASSUME PackAssumption == NoPack \notin Pack /\ UnknownPack \notin Pack
ASSUME SizeAssumption ==
  /\ MaxChunkSize \in Nat \ {0}            \* setMaxChunkSize rejects the others
  /\ InitialSize \in [Pack -> Nat \ {0}]   \* a loaded archive holds a manifest
  /\ NewSizes \subseteq Nat
  /\ Mutable \subseteq Pack
ASSUME BoundAssumption ==
  /\ MaxIndex \in Nat /\ MaxEntries \in Nat /\ PackQueueBound \in Nat
  /\ ForceResources \in BOOLEAN

NoFile == -1                               \* the archive's path does not exist
ChunkIndex == -(MaxIndex + 1) .. MaxIndex
Chunk == Pack \X (0 .. MaxIndex)          \* the chunks a request can name

VARIABLES
  loadedPacks,     \* keys of NetworkSession::loadedPacks
  chunkCount,      \* ResourcePackMeta::chunkCount of a loaded pack
  want,            \* the chunks with ResourcePackChunkState::want
  sent,            \* the chunks with ResourcePackChunkState::sent
  nextToSend,      \* ResourcePackMeta::nextToSend
  packQueue, pendingChunks, currentPack, queueProcessing,
  marked,          \* NetworkSession::markedForDisconnect
  aborted,         \* an exception left the handler: nothing catches it
  pathSize,        \* std::filesystem::file_size(filePath), or NoFile
  streamSize,      \* bytes that can be read through the open fileStream
  changed,         \* packs whose archive was touched since the server loaded it
  streamFailed,    \* failbit of fileStream
  announced,       \* chunkCount of the last ResourcePackDataInfo, -1 before it
  wire,            \* the ResourcePackChunkData packets sent, in order
  \* history variables, read by properties only
  asked,           \* the chunks in the order in which want was first set
  provoked         \* the client left or did something a session is dropped for

metaVars == <<loadedPacks, chunkCount, want, sent, nextToSend>>
queueVars == <<packQueue, pendingChunks, currentPack, queueProcessing>>
fileVars == <<pathSize, streamSize, changed>>
historyVars == <<asked, provoked>>
vars == <<metaVars, queueVars, marked, aborted, fileVars, streamFailed,
          announced, wire, historyVars>>

-----------------------------------------------------------------------------
\* Definitions named Bug... are deliberate faults, used only to see that the
\* properties notice them; no specification refers to them.

BugFloorChunks(size) == size \div MaxChunkSize
BugOneMoreChunk(size) == (size \div MaxChunkSize) + 1

\* static_cast<int>(std::ceil(double(size) / maxChunkSize)) of SendPacks
CeilChunks(size) == IF size = 0 THEN 0 ELSE ((size - 1) \div MaxChunkSize) + 1

\* (getPackSize() + maxSize - 1) / maxSize of a chunk request
RoundedUpChunks(size) == (size + MaxChunkSize - 1) \div MaxChunkSize

\* request.chunkIndex >= 0 && request.chunkIndex < chunkCount
BugNegativeInPack(i, count) == i < count
InPack(i, count) == 0 <= i /\ i < count

LeastOf(m, n) == IF m <= n THEN m ELSE n

Elements(s) == {s[i] : i \in DOMAIN s}

\* std::remove / erase: s without any occurrence of x, in the same order.
Positions(s, x) == {i \in DOMAIN s : s[i] # x}
Rank(K, i) == Cardinality({j \in K : j <= i})
Without(s, x) ==
  LET keep == Positions(s, x)
  IN  [n \in 1 .. Cardinality(keep) |-> s[CHOOSE i \in keep : Rank(keep, i) = n]]

\* nextPack(): the pack that leaves the queue is currentPack, whichever pack
\* was finished; the front of what is left becomes current.
NextPackQueue ==
  IF packQueue = <<>> THEN <<>>
  ELSE IF Head(packQueue) = currentPack THEN Tail(packQueue)
  ELSE Without(packQueue, currentPack)

BugOldHead == IF NextPackQueue = <<>> THEN NoPack ELSE Head(packQueue)
NextCurrentPack == IF NextPackQueue = <<>> THEN NoPack ELSE Head(NextPackQueue)

-----------------------------------------------------------------------------
Init ==
  /\ loadedPacks = {}
  /\ chunkCount = [p \in Pack |-> 0]
  /\ want = [p \in Pack |-> {}]
  /\ sent = [p \in Pack |-> {}]
  /\ nextToSend = [p \in Pack |-> 0]
  /\ packQueue = <<>> /\ pendingChunks = <<>>
  /\ currentPack = NoPack /\ queueProcessing = FALSE
  /\ marked = FALSE /\ aborted = FALSE
  /\ pathSize = InitialSize /\ streamSize = InitialSize /\ changed = {}
  /\ streamFailed = [p \in Pack |-> FALSE]
  /\ announced = [p \in Pack |-> -1]
  /\ wire = <<>>
  /\ asked = <<>> /\ provoked = FALSE

\* The thread is free to handle the session's next packet.
Idle == ~queueProcessing /\ ~aborted

-----------------------------------------------------------------------------
(* ResourcePackClientResponse *)

\* Refused
Refuse ==
  /\ Idle
  /\ marked' = (marked \/ ForceResources)
  /\ provoked' = (provoked \/ ForceResources)
  /\ UNCHANGED <<metaVars, queueVars, aborted, fileVars, streamFailed,
                 announced, wire, asked>>

\* loadedPacks.emplace(id, meta) leaves a loaded pack as it is: the packs that
\* get new metadata, and the value f of a pack after that.
BugReplaceMeta(ids) == ids
NewlyLoaded(ids) == ids \ loadedPacks
Constructed(new, f, init) == [p \in Pack |-> IF p \in new THEN init ELSE f[p]]

\* SendPacks.  The entries are handled one by one up to the first id the
\* factory does not know, which marks the session, or the first archive whose
\* size cannot be read, where file_size throws; the entries before it have
\* their full effect.
SendPacks(entries) ==
  \E n \in 0 .. Len(entries) :
    LET done == {entries[i] : i \in 1 .. n}
        new == NewlyLoaded(done)
        stopped == n < Len(entries)
    IN
    /\ Idle
    /\ Len(packQueue) + Len(entries) <= PackQueueBound
    /\ \A i \in 1 .. n : entries[i] \in Pack /\ pathSize[entries[i]] # NoFile
    /\ stopped => (entries[n + 1] \in Pack => pathSize[entries[n + 1]] = NoFile)
    /\ packQueue' = packQueue \o SubSeq(entries, 1, n)
    /\ loadedPacks' = loadedPacks \cup new
    /\ chunkCount' = [p \in Pack |-> IF p \in new THEN CeilChunks(pathSize[p])
                                                  ELSE chunkCount[p]]
    /\ announced' = [p \in Pack |-> IF p \in done THEN CeilChunks(pathSize[p])
                                                  ELSE announced[p]]
    /\ marked' = (marked \/ (stopped /\ entries[n + 1] \notin Pack))
    /\ provoked' = (provoked \/ (stopped /\ entries[n + 1] \notin Pack))
    /\ aborted' = (stopped /\ entries[n + 1] \in Pack)
    /\ want' = Constructed(new, want, {})
    /\ sent' = Constructed(new, sent, {})
    /\ nextToSend' = Constructed(new, nextToSend, 0)
    /\ UNCHANGED <<pendingChunks, currentPack, queueProcessing, fileVars,
                   streamFailed, wire, asked>>

-----------------------------------------------------------------------------
(* ResourcePackChunkRequest *)

\* A pack nobody registered: the session is marked, nothing else happens.
RequestUnknown ==
  /\ Idle
  /\ marked' = TRUE /\ provoked' = TRUE
  /\ UNCHANGED <<metaVars, queueVars, aborted, fileVars, streamFailed,
                 announced, wire, asked>>

\* A registered pack that is not loaded and whose archive is gone: file_size
\* throws out of the handler.
RequestMissing(p) ==
  /\ Idle
  /\ p \notin loadedPacks /\ pathSize[p] = NoFile
  /\ aborted' = TRUE
  /\ UNCHANGED <<metaVars, queueVars, marked, fileVars, streamFailed,
                 announced, wire, historyVars>>

\* A request the session can look at.  It loads the pack if needed, notes the
\* chunk when the index is one of the pack's, puts the pack in the pack queue
\* and enters the loop of processChunkQueue.
Request(p, i) ==
  LET count == IF p \in loadedPacks THEN chunkCount[p]
                                    ELSE RoundedUpChunks(pathSize[p])
      valid == InPack(i, count)
      first == valid /\ i \notin want[p]
  IN
  /\ Idle
  /\ p \in loadedPacks \/ pathSize[p] # NoFile
  /\ loadedPacks' = loadedPacks \cup {p}
  /\ chunkCount' = [chunkCount EXCEPT ![p] = count]
  /\ want' = [want EXCEPT ![p] = IF valid THEN @ \cup {i} ELSE @]
  /\ pendingChunks' = IF valid THEN Append(pendingChunks, <<p, i>>) ELSE pendingChunks
  /\ currentPack' = IF currentPack = NoPack THEN p ELSE currentPack
  /\ packQueue' = IF p \in Elements(packQueue) THEN packQueue ELSE Append(packQueue, p)
  /\ queueProcessing' = TRUE
  /\ asked' = IF first THEN Append(asked, <<p, i>>) ELSE asked
  /\ UNCHANGED <<sent, nextToSend, marked, aborted, fileVars, streamFailed,
                 announced, wire, provoked>>

-----------------------------------------------------------------------------
(* RaknetConnections::onDisconnect: the client is gone *)

Lost ==
  /\ Idle
  /\ marked' = TRUE /\ provoked' = TRUE
  /\ UNCHANGED <<metaVars, queueVars, aborted, fileVars, streamFailed,
                 announced, wire, asked>>

-----------------------------------------------------------------------------
(* The loop of processChunkQueue *)

Running == queueProcessing /\ ~aborted
HeadPack == Head(pendingChunks)[1]
HeadIndex == Head(pendingChunks)[2]

startOffset == HeadIndex * MaxChunkSize

\* min(maxChunkSize, getPackSize() - startOffset): the difference is unsigned,
\* so an offset behind the end of a file that shrank wraps to a huge length.
chunkSize == IF startOffset > pathSize[HeadPack] THEN MaxChunkSize
             ELSE LeastOf(MaxChunkSize, pathSize[HeadPack] - startOffset)

\* gcount() after seekg and read of chunkSize bytes
readSize == IF startOffset >= streamSize[HeadPack] THEN 0
            ELSE LeastOf(chunkSize, streamSize[HeadPack] - startOffset)

\* getPackSize throws, or getPackChunkString does: an empty length, or a
\* stream whose failbit an earlier short read has left set.
ReadThrows ==
  \/ pathSize[HeadPack] = NoFile
  \/ chunkSize < 1
  \/ streamFailed[HeadPack]

\* The head is a chunk to read: its pack is loaded and it was not sent before.
\* (An index outside the pack, which would mark the session, never gets into
\* the queue: PendingInRange.)
BugSendAgain == Running /\ pendingChunks # <<>> /\ HeadPack \in loadedPacks
Readable ==
  /\ Running /\ pendingChunks # <<>>
  /\ HeadPack \in loadedPacks
  /\ HeadIndex \notin sent[HeadPack]

\* while (!pendingChunks.empty())
BugLeaveLast == Len(pendingChunks) <= 1
QueueDrained == pendingChunks = <<>>

FinishQueue ==
  /\ Running /\ QueueDrained
  /\ queueProcessing' = FALSE
  /\ UNCHANGED <<metaVars, packQueue, pendingChunks, currentPack, marked, aborted,
                 fileVars, streamFailed, announced, wire, historyVars>>

BugSkipInPlace ==
  /\ Running /\ pendingChunks # <<>>
  /\ HeadIndex \in sent[HeadPack]
  /\ UNCHANGED vars

SkipChunk ==
  /\ Running /\ pendingChunks # <<>>
  /\ HeadPack \in loadedPacks => HeadIndex \in sent[HeadPack]
  /\ pendingChunks' = Tail(pendingChunks)
  /\ UNCHANGED <<metaVars, packQueue, currentPack, queueProcessing, marked, aborted,
                 fileVars, streamFailed, announced, wire, historyVars>>

\* Where the loop over the sent chunks leaves nextToSend.
BugAfterIndex(p, s, n) == n = HeadIndex + 1
StopsAt(p, s, n) ==
  /\ \A k \in nextToSend[p] .. n - 1 : k \in s
  /\ n = chunkCount[p] \/ n \notin s

\* A chunk is read and sent; a short read leaves the failbit set.
SendChunk ==
  /\ Readable /\ ~ReadThrows /\ readSize > 0
  /\ pendingChunks' = Tail(pendingChunks)
  /\ wire' = Append(wire, [packId |-> HeadPack, chunkIndex |-> HeadIndex,
                           progress |-> startOffset, size |-> readSize])
  /\ streamFailed' = [streamFailed EXCEPT ![HeadPack] = readSize < chunkSize]
  /\ sent' = [sent EXCEPT ![HeadPack] = @ \cup {HeadIndex}]
  /\ \E n \in nextToSend[HeadPack] .. chunkCount[HeadPack] :
       /\ StopsAt(HeadPack, sent'[HeadPack], n)
       /\ nextToSend' = [nextToSend EXCEPT ![HeadPack] = n]
       /\ IF n >= chunkCount[HeadPack]
          THEN packQueue' = NextPackQueue /\ currentPack' = NextCurrentPack
          ELSE UNCHANGED <<packQueue, currentPack>>
  /\ UNCHANGED <<loadedPacks, chunkCount, want, queueProcessing, marked, aborted,
                 fileVars, announced, historyVars>>

\* Nothing could be read: the session is marked and the loop is left with the
\* rest of the requests still pending.
GiveUp ==
  /\ Readable /\ ~ReadThrows /\ readSize = 0
  /\ pendingChunks' = Tail(pendingChunks)
  /\ streamFailed' = [streamFailed EXCEPT ![HeadPack] = TRUE]
  /\ marked' = TRUE
  /\ queueProcessing' = FALSE
  /\ UNCHANGED <<metaVars, packQueue, currentPack, aborted, fileVars, announced,
                 wire, historyVars>>

\* The exception passes through catch (...), which resets the flag, and on
\* through onRaw, the poll loop and Server::run: the process terminates.
FailChunk ==
  /\ Readable /\ ReadThrows
  /\ pendingChunks' = Tail(pendingChunks)
  /\ queueProcessing' = FALSE
  /\ aborted' = TRUE
  /\ UNCHANGED <<metaVars, packQueue, currentPack, marked, fileVars, streamFailed,
                 announced, wire, historyVars>>

Loop == FinishQueue \/ SkipChunk \/ SendChunk \/ GiveUp \/ FailChunk

-----------------------------------------------------------------------------
(* The environment: the archives on disk and the other sessions *)

\* The archive is rewritten in place: the open stream reads the new file.
Rewrite(p, n) ==
  /\ ~aborted /\ pathSize[p] # NoFile
  /\ pathSize' = [pathSize EXCEPT ![p] = n]
  /\ streamSize' = [streamSize EXCEPT ![p] = n]
  /\ changed' = changed \cup {p}
  /\ UNCHANGED <<metaVars, queueVars, marked, aborted, streamFailed, announced,
                 wire, historyVars>>

\* Another file is moved to the path: the open stream keeps the old one.
Replace(p, n) ==
  /\ ~aborted
  /\ pathSize' = [pathSize EXCEPT ![p] = n]
  /\ changed' = changed \cup {p}
  /\ UNCHANGED <<metaVars, queueVars, marked, aborted, streamSize, streamFailed,
                 announced, wire, historyVars>>

Remove(p) ==
  /\ ~aborted
  /\ pathSize' = [pathSize EXCEPT ![p] = NoFile]
  /\ changed' = changed \cup {p}
  /\ UNCHANGED <<metaVars, queueVars, marked, aborted, streamSize, streamFailed,
                 announced, wire, historyVars>>

\* The stream belongs to the pack, which all sessions share: a short read of
\* another session, possible once the archive was touched, sets its failbit too.
ShortReadElsewhere(p) ==
  /\ ~queueProcessing /\ ~aborted
  /\ p \in changed
  /\ streamFailed' = [streamFailed EXCEPT ![p] = TRUE]
  /\ UNCHANGED <<metaVars, queueVars, marked, aborted, fileVars, announced,
                 wire, historyVars>>

ChangeFiles ==
  \E p \in Mutable :
    \/ \E n \in NewSizes : Rewrite(p, n) \/ Replace(p, n)
    \/ Remove(p)
    \/ ShortReadElsewhere(p)

Entries == UNION {[1 .. n -> Pack \cup {UnknownPack}] : n \in 0 .. MaxEntries}

Handle ==
  \/ Refuse
  \/ \E entries \in Entries : SendPacks(entries)
  \/ RequestUnknown \/ Lost
  \/ \E p \in Pack : RequestMissing(p) \/ \E i \in ChunkIndex : Request(p, i)

Next == Handle \/ Loop \/ ChangeFiles

Spec == Init /\ [][Next]_vars

\* The thread that runs the loop is not suspended for ever; nobody has to
\* send packets or touch files.
FairSpec == Spec /\ WF_vars(Loop)

-----------------------------------------------------------------------------
(* Properties *)

Message == [packId : Pack, chunkIndex : Nat, progress : Nat, size : Nat \ {0}]

\* The values the variables take.
TypeOK ==
  /\ loadedPacks \subseteq Pack
  /\ chunkCount \in [Pack -> Nat]
  /\ want \in [Pack -> SUBSET Nat] /\ sent \in [Pack -> SUBSET Nat]
  /\ nextToSend \in [Pack -> Nat]
  /\ packQueue \in Seq(Pack)
  /\ pendingChunks \in Seq(Chunk)
  /\ currentPack \in Pack \cup {NoPack}
  /\ queueProcessing \in BOOLEAN /\ marked \in BOOLEAN /\ aborted \in BOOLEAN
  /\ pathSize \in [Pack -> Nat \cup {NoFile}]
  /\ streamSize \in [Pack -> Nat] /\ changed \subseteq Pack
  /\ streamFailed \in [Pack -> BOOLEAN]
  /\ announced \in [Pack -> Nat \cup {-1}]
  /\ wire \in Seq(Message)
  /\ asked \in Seq(Chunk)
  /\ provoked \in BOOLEAN

chunkOf(m) == <<m.packId, m.chunkIndex>>
served == [i \in DOMAIN wire |-> chunkOf(wire[i])]
broken == marked \/ aborted

\* No chunk is sent twice, however often the client asks for it or repeats
\* SendPacks (which must not reset the metadata of a loaded pack), and a
\* healthy session sends the chunks in the order in which they were first
\* asked for.
ServedOnceInOrder ==
  /\ \A j, k \in DOMAIN served : served[j] = served[k] => j = k
  /\ ~broken => /\ Len(served) <= Len(asked)
                /\ \A k \in DOMAIN served : served[k] = asked[k]

\* When a healthy session waits for its next packet nothing is owed: every
\* chunk ever asked for has been sent (processChunkQueue leaves nothing behind).
IdleMeansServed == Idle /\ ~broken => served = asked /\ pendingChunks = <<>>

\* What is in the queue is a chunk of a loaded pack that was asked for, so the
\* branch of processChunkQueue for indices outside the pack, and the one for
\* packs that are not loaded, are never taken.
PendingInRange ==
  \A k \in DOMAIN pendingChunks :
    LET p == pendingChunks[k][1]
        i == pendingChunks[k][2]
    IN  p \in loadedPacks /\ i < chunkCount[p] /\ i \in want[p]

\* nextToSend is the first chunk of the pack that was not sent, so that
\* finished() says the truth whatever the order of the requests.
NextToSendIsFirstUnsent ==
  \A p \in loadedPacks :
    /\ \A i \in 0 .. nextToSend[p] - 1 : i \in sent[p]
    /\ nextToSend[p] \notin sent[p]
    /\ nextToSend[p] <= chunkCount[p]

\* currentPack is nil or one of the queued packs, although nextPack removes
\* currentPack and not the pack that was finished.
CurrentPackQueued == currentPack # NoPack => currentPack \in Elements(packQueue)

\* Chunks of p in which byte b of its archive was sent
Covering(p, b) ==
  {k \in DOMAIN wire : /\ wire[k].packId = p
                       /\ wire[k].progress <= b
                       /\ b < wire[k].progress + wire[k].size}

\* A finished pack whose archive nobody touched arrived whole: every byte was
\* in exactly one chunk and no chunk reached past the end.  (The chunk counts
\* of the two handlers, the offsets and the last chunk's length agree.)
FinishedPackIsWhole ==
  \A p \in loadedPacks \ changed :
    nextToSend[p] >= chunkCount[p] =>
      /\ \A b \in 0 .. InitialSize[p] - 1 : Cardinality(Covering(p, b)) = 1
      /\ \A k \in DOMAIN wire :
           wire[k].packId = p => wire[k].progress + wire[k].size <= InitialSize[p]

\* The chunk count the client was told is the one its requests are checked
\* against, as long as the archive stays as it is: the pack may have been
\* loaded by a chunk request (rounded-up integer division) before SendPacks
\* announced it (ceil of a quotient of doubles).
AnnouncedCountHolds ==
  \A p \in Pack \ changed :
    announced[p] # -1 => p \in loadedPacks /\ announced[p] = chunkCount[p]

\* As long as the archives are left alone no sequence of requests makes a handler
\* throw (which would end the process), and only a client that leaves, refuses
\* forced packs or names unknown ones is marked.
OnlyChangedFilesHurt ==
  changed = {} => ~aborted /\ (marked => provoked)

\* A loaded pack keeps its chunk count, and a chunk that was sent stays sent:
\* loadedPacks.emplace does not replace an entry.
MetadataIsKept ==
  [][\A p \in loadedPacks : /\ p \in loadedPacks'
                            /\ chunkCount'[p] = chunkCount[p]
                            /\ sent[p] \subseteq sent'[p]
                            /\ want[p] \subseteq want'[p]
                            /\ nextToSend[p] <= nextToSend'[p]]_vars

\* processChunkQueue always comes back: no request blocks the only thread.
LoopEnds == queueProcessing ~> ~queueProcessing

\* The transfer implements the promise of ChunkDelivery, its liveness included.
Delivery == INSTANCE ChunkDelivery
              WITH Chunk <- Chunk, asked <- asked, served <- served, broken <- broken
Delivers == Delivery!Spec

=============================================================================
