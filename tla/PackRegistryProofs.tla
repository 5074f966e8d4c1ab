------------------------- MODULE PackRegistryProofs -------------------------
(***************************************************************************)
(* Proofs about PackRegistry, for any files, ids and kinds of files.       *)
(***************************************************************************)
EXTENDS PackRegistry, FiniteSetTheorems, SequenceTheorems, TLAPS

-----------------------------------------------------------------------------
(* Lists of files *)

LEMMA Added ==
  ASSUME NEW s \in Seq(File), NEW f \in File
  PROVE  /\ Append(s, f) \in Seq(File)
         /\ Len(s) \in Nat /\ DOMAIN s = 1 .. Len(s) /\ Len(Append(s, f)) = Len(s) + 1
         /\ DOMAIN Append(s, f) = DOMAIN s \cup {Len(s) + 1}
         /\ Append(s, f)[Len(s) + 1] = f
         /\ \A k \in DOMAIN s : Append(s, f)[k] = s[k] /\ k < Len(s) + 1
         /\ Range(Append(s, f)) = Range(s) \cup {f}
         /\ IsInjective(s) /\ f \notin Range(s) => IsInjective(Append(s, f))
<1>1. /\ Append(s, f) \in Seq(File) /\ Len(Append(s, f)) = Len(s) + 1
      /\ Append(s, f)[Len(s) + 1] = f
      /\ \A k \in 1 .. Len(s) : Append(s, f)[k] = s[k]
  BY AppendProperties
<1>2. Len(s) \in Nat /\ DOMAIN s = 1 .. Len(s) /\ DOMAIN Append(s, f) = 1 .. Len(s) + 1
  BY <1>1, LenProperties
<1>3. DOMAIN Append(s, f) = DOMAIN s \cup {Len(s) + 1} /\ Len(s) + 1 \notin DOMAIN s
  BY <1>2
<1>4. \A k \in DOMAIN s : Append(s, f)[k] = s[k] /\ k < Len(s) + 1
  BY <1>1, <1>2
<1>5. Range(Append(s, f)) = Range(s) \cup {f}
  BY <1>1, <1>3, <1>4 DEF Range
<1>6. IsInjective(s) /\ f \notin Range(s) => IsInjective(Append(s, f))
  BY <1>1, <1>3, <1>4 DEF IsInjective, Range
<1> QED BY <1>1, <1>2, <1>3, <1>4, <1>5, <1>6

LEMMA Taken ==
  ASSUME NEW s \in Seq(File), s # <<>>
  PROVE  /\ Head(s) \in File /\ Tail(s) \in Seq(File)
         /\ Range(s) = Range(Tail(s)) \cup {Head(s)}
         /\ IsInjective(s) => IsInjective(Tail(s)) /\ Head(s) \notin Range(Tail(s))
<1>1. Head(s) \in File /\ Tail(s) \in Seq(File) /\ Len(Tail(s)) = Len(s) - 1
  BY HeadTailProperties
<1>2. Len(s) \in Nat \ {0} /\ DOMAIN s = 1 .. Len(s) /\ DOMAIN Tail(s) = 1 .. Len(s) - 1
  BY <1>1, EmptySeq, LenProperties
<1>3. Head(s) = s[1] /\ \A k \in 1 .. Len(s) - 1 : Tail(s)[k] = s[k + 1]
  BY <1>1, HeadTailProperties
<1>4. \A k \in DOMAIN Tail(s) : k + 1 \in DOMAIN s /\ k + 1 # 1 /\ Tail(s)[k] = s[k + 1]
  BY <1>2, <1>3
<1>5. 1 \in DOMAIN s /\ \A k \in DOMAIN s : k # 1 => k - 1 \in DOMAIN Tail(s) /\ Tail(s)[k - 1] = s[k]
  BY <1>2, <1>3
<1>6. Range(s) = Range(Tail(s)) \cup {Head(s)}
  <2>1. \A k \in DOMAIN s : s[k] \in Range(Tail(s)) \cup {Head(s)}
    BY <1>3, <1>5 DEF Range
  <2>2. Head(s) \in Range(s) /\ \A k \in DOMAIN Tail(s) : Tail(s)[k] \in Range(s)
    BY <1>3, <1>4, <1>5 DEF Range
  <2> QED BY <2>1, <2>2 DEF Range
<1>7. ASSUME IsInjective(s)
      PROVE  IsInjective(Tail(s)) /\ Head(s) \notin Range(Tail(s))
  <2>1. \A j, k \in DOMAIN Tail(s) : j + 1 = k + 1 => j = k
    BY <1>2
  <2> QED BY <1>3, <1>4, <1>5, <1>7, <2>1 DEF IsInjective, Range
<1> QED BY <1>1, <1>6, <1>7

-----------------------------------------------------------------------------
(* Type correctness.  The lists hold files the loader constructed. *)

Usable(f) == disk[f].kind \in {"noUuid", "noVersion", "good"}

Lists ==
  /\ loaded \in Seq(File) /\ packs \in Seq(File) /\ listed \in Seq(Uuid)
  /\ \A f \in Range(loaded) \cup Range(packs) : Usable(f)

LEMMA TypeInit == Init => TypeOK /\ Lists
<1> SUFFICES ASSUME Init PROVE TypeOK /\ Lists
  OBVIOUS
<1>1. Range(<<>>) = {} /\ (\A S : <<>> \in Seq(S)) /\ DOMAIN <<>> = {}
  BY EmptySeq DEF Range
<1>2. present \subseteq File
  BY DEF Init
<1> QED BY <1>1, <1>2 DEF Init, TypeOK, Lists

LEMMA Elements ==
  ASSUME NEW S, NEW s \in Seq(S)
  PROVE  \A k \in DOMAIN s : s[k] \in S /\ s[k] \in Range(s)
BY ElementOfSeq, LenProperties DEF Range

\* What the constructor of ZippedResourcePack takes is of a kind that is usable.
LEMMA ConstructsUsable ==
  ASSUME TypeOK, NEW f \in File, Constructs(f)
  PROVE  Usable(f)
BY KindAssumption DEF TypeOK, Constructs, Extracts, verifyManifest, Usable

LEMMA ListsStep == TypeOK /\ Lists /\ [Next]_vars => Lists'
<1> SUFFICES ASSUME TypeOK, Lists, [Next]_vars
             PROVE  Lists'
  OBVIOUS
<1> USE DEF diskVars
<1>1. CASE UNCHANGED vars
  BY <1>1 DEF vars, Lists, Usable
<1>2. CASE CreateFolder \/ RejectFolder \/ OpenFolder \/ EndVisit \/ Serve \/ FailLogin
  BY <1>2 DEF CreateFolder, RejectFolder, OpenFolder, EndVisit, Serve, FailLogin, Lists, Usable
<1>3. CASE Register \/ FailRegister
  <2>1. /\ loaded # <<>> /\ loaded' = Tail(loaded) /\ packs' = Append(packs, Head(loaded))
        /\ UNCHANGED <<disk, listed>>
    BY <1>3 DEF Register, FailRegister
  <2>2. /\ Head(loaded) \in File /\ loaded' \in Seq(File)
        /\ Range(loaded) = Range(loaded') \cup {Head(loaded)}
    BY <2>1, Taken DEF Lists
  <2>3. packs' \in Seq(File) /\ Range(packs') = Range(packs) \cup {Head(loaded)}
    BY <2>1, <2>2, Added DEF Lists
  <2> QED BY <2>1, <2>2, <2>3 DEF Lists, Usable
<1>4. CASE ListPacks
  <2>1. /\ UNCHANGED <<disk, loaded, packs>>
        /\ listed' = [k \in DOMAIN packs |-> disk[packs[k]].uuid]
    BY <1>4 DEF ListPacks
  <2>2. Len(packs) \in Nat /\ DOMAIN packs = 1 .. Len(packs)
    BY LenProperties DEF Lists
  <2>3. \A k \in DOMAIN packs : disk[packs[k]].uuid \in Uuid
    BY Elements DEF TypeOK, Lists
  <2>4. listed' \in Seq(Uuid)
    BY <2>1, <2>2, <2>3, IsASeq
  <2> QED BY <2>1, <2>4 DEF Lists, Usable
<1>5. ASSUME NEW f \in File, Visit(f) PROVE Lists'
  <2>1. CASE Constructs(f)
    <3>1. loaded' = Append(loaded, f) /\ UNCHANGED <<disk, packs, listed>>
      BY <1>5, <2>1 DEF Visit
    <3>2. loaded' \in Seq(File) /\ Range(loaded') = Range(loaded) \cup {f}
      BY <3>1, Added DEF Lists
    <3> QED BY <2>1, <3>1, <3>2, ConstructsUsable DEF Lists, Usable
  <2>2. CASE ~Constructs(f)
    BY <1>5, <2>2 DEF Visit, Lists, Usable
  <2> QED BY <2>1, <2>2
<1>6. ASSUME NEW f \in File, RemoveFile(f) PROVE Lists'
  BY <1>6 DEF RemoveFile, Lists, Usable
<1> QED BY <1>1, <1>2, <1>3, <1>4, <1>5, <1>6 DEF Next

\* The pack that was just moved into the list is the one the index gets.
LEMMA BackOfList ==
  ASSUME NEW s \in Seq(File), NEW f \in File
  PROVE  Indexed(Append(s, f)) = f
BY Added DEF Indexed

LEMMA TypeStep == TypeOK /\ Lists /\ [Next]_vars => TypeOK'
<1> SUFFICES ASSUME TypeOK, Lists, [Next]_vars
             PROVE  TypeOK'
  OBVIOUS
<1>1. /\ \A s \in {loaded', packs'} : \A k \in DOMAIN s :
           s[k] \in File /\ disk'[s[k]].kind \in {"noUuid", "noVersion", "good"}
      /\ \A k \in DOMAIN listed' : listed'[k] \in Uuid
  <2>1. Lists'
    BY ListsStep
  <2>2. \A s \in {loaded', packs'} : s \in Seq(File)
        /\ \A f \in Range(s) : disk'[f].kind \in {"noUuid", "noVersion", "good"}
    BY <2>1 DEF Lists, Usable
  <2> QED BY <2>1, <2>2, Elements DEF Lists
<1>2. packsById' \in [Uuid -> File \cup {NoPack}]
  <2>1. CASE Register
    <3>1. loaded # <<>> /\ packs' = Append(packs, Head(loaded)) /\ Head(loaded) \in File
      BY <2>1, Taken DEF Register, Lists
    <3>2. Indexed(packs') = Head(loaded)
      BY <3>1, BackOfList DEF Lists
    <3> QED BY <2>1, <3>1, <3>2 DEF Register, TypeOK
  <2>2. CASE ~Register
    BY <2>2 DEF Next, vars, CreateFolder, RejectFolder, OpenFolder, EndVisit, Visit, FailRegister,
                Serve, ListPacks, FailLogin, RemoveFile, TypeOK
  <2> QED BY <2>1, <2>2
<1>3. /\ disk' = disk /\ present' \subseteq File /\ toVisit' \subseteq File
      /\ folder' \in {"missing", "file", "directory"}
      /\ pc' \in {"folder", "visit", "register", "serving", "terminated"}
  BY DEF Next, vars, diskVars, CreateFolder, RejectFolder, OpenFolder, EndVisit, Visit, LeftToVisit,
         Register, FailRegister, Serve, ListPacks, FailLogin, RemoveFile, TypeOK
<1> QED BY <1>1, <1>2, <1>3 DEF TypeOK

\* TypeOK of PackRegistry: what is loaded, listed or found by an id is a file of
\* the folder whose archive and manifest could be read.
THEOREM TypeCorrect == Spec => []TypeOK
<1>1. TypeOK /\ Lists /\ [Next]_vars => TypeOK' /\ Lists'
  BY TypeStep, ListsStep
<1> QED BY <1>1, TypeInit, PTL DEF Spec

-----------------------------------------------------------------------------
(* The index of the packs.  FailRegister leaves a pack without an entry, and *)
(* nobody is told of it any more.                                            *)

IdOf(k) == disk[packs[k]].uuid
LastUnder(k) == \A j \in DOMAIN packs : j > k => IdOf(j) # IdOf(k)

IndexOK ==
  \A k \in DOMAIN packs :
    /\ packsById[IdOf(k)] \in File /\ disk[packsById[IdOf(k)]].uuid = IdOf(k)
    /\ LastUnder(k) => packsById[IdOf(k)] = packs[k]

Index ==
  /\ pc # "terminated" => IndexOK
  /\ pc \notin {"serving", "terminated"} => listed = <<>>
  /\ ListedIdsResolve

LEMMA IndexInit == Init => Index
BY DEF Init, Index, IndexOK, ListedIdsResolve

\* A new pack takes the entry of its id, and is the last of it.
LEMMA IndexRegister ==
  ASSUME TypeOK, Lists, IndexOK, Register
  PROVE  IndexOK'
<1> DEFINE f == Head(loaded)
<1>0. PICK n : n = Len(packs) + 1
  OBVIOUS
<1>1. f \in File /\ packs \in Seq(File) /\ packs' = Append(packs, f) /\ disk' = disk
  BY Taken DEF Register, Lists, diskVars
<1>2. packsById' = [packsById EXCEPT ![disk[f].uuid] = f]
  BY <1>1, BackOfList DEF Register
<1>3. /\ DOMAIN packs' = DOMAIN packs \cup {n} /\ packs'[n] = f
      /\ \A k \in DOMAIN packs : packs'[k] = packs[k] /\ k < n /\ ~(n < k) /\ k # n
  BY <1>0, <1>1, Added
<1> HIDE DEF f
<1>4. disk[f].uuid \in Uuid /\ packsById \in [Uuid -> File \cup {NoPack}]
      /\ \A k \in DOMAIN packs : packs[k] \in File /\ IdOf(k) \in Uuid
  BY <1>1, Elements DEF TypeOK, Lists, IdOf
<1>5. IdOf(n)' = disk[f].uuid /\ \A k \in DOMAIN packs : IdOf(k)' = IdOf(k)
  BY <1>1, <1>3 DEF IdOf
<1>6. ASSUME NEW k \in DOMAIN packs, IdOf(k) = disk[f].uuid
      PROVE  ~LastUnder(k)' /\ packsById'[IdOf(k)] = f
  <2>1. n \in DOMAIN packs' /\ n > k
    BY <1>0, <1>1, <1>3, LenProperties
  <2> QED BY <1>2, <1>4, <1>5, <1>6, <2>1 DEF LastUnder
<1>7. ASSUME NEW k \in DOMAIN packs, IdOf(k) # disk[f].uuid
      PROVE  (LastUnder(k)' => LastUnder(k)) /\ packsById'[IdOf(k)] = packsById[IdOf(k)]
  BY <1>2, <1>3, <1>4, <1>5, <1>7 DEF LastUnder
<1>8. packsById'[disk[f].uuid] = f
  BY <1>2, <1>4
<1>9. ASSUME NEW k \in DOMAIN packs'
      PROVE  /\ packsById'[IdOf(k)'] \in File /\ disk[packsById'[IdOf(k)']].uuid = IdOf(k)'
             /\ LastUnder(k)' => packsById'[IdOf(k)'] = packs'[k]
  <2>1. CASE k = n
    BY <1>1, <1>3, <1>5, <1>8, <2>1
  <2>2. CASE k \in DOMAIN packs /\ IdOf(k) = disk[f].uuid
    BY <1>1, <1>5, <1>6, <2>2
  <2>3. CASE k \in DOMAIN packs /\ IdOf(k) # disk[f].uuid
    BY <1>3, <1>5, <1>7, <2>3 DEF IndexOK
  <2> QED BY <1>3, <2>1, <2>2, <2>3
<1> QED BY <1>1, <1>9 DEF IndexOK

\* A list that was sent is of what the index holds.
LEMMA IndexList ==
  ASSUME TypeOK, Lists, IndexOK, ListPacks
  PROVE  ListedIdsResolve'
<1>1. /\ UNCHANGED <<disk, packs, packsById>> /\ DOMAIN listed' = DOMAIN packs
      /\ \A k \in DOMAIN packs : listed'[k] = IdOf(k)
  BY DEF ListPacks, diskVars, IdOf
<1>2. ASSUME NEW k \in DOMAIN listed'
      PROVE  /\ packsById'[listed'[k]] # NoPack
             /\ disk'[packsById'[listed'[k]]].uuid = listed'[k]
             /\ (\A j \in DOMAIN listed' : j > k => listed'[j] # listed'[k])
                   => packsById'[listed'[k]] = packs'[k]
  BY <1>1, FileAssumption DEF IndexOK, LastUnder
<1> QED BY <1>2 DEF ListedIdsResolve

LEMMA IndexStep == TypeOK /\ Lists /\ Index /\ [Next]_vars => Index'
<1> SUFFICES ASSUME TypeOK, Lists, Index, [Next]_vars
             PROVE  Index'
  OBVIOUS
<1> USE DEF diskVars
<1>1. ASSUME UNCHANGED <<disk, packs, packsById, listed>>,
             pc' # "terminated" => pc # "terminated",
             pc \in {"serving", "terminated"} => pc' \in {"serving", "terminated"}
      PROVE  Index'
  <2>1. ListedIdsResolve'
    BY <1>1 DEF Index, ListedIdsResolve
  <2>2. pc' # "terminated" => IndexOK'
    BY <1>1 DEF Index, IndexOK, IdOf, LastUnder
  <2> QED BY <1>1, <2>1, <2>2 DEF Index
<1>2. CASE UNCHANGED vars
  BY <1>1, <1>2 DEF vars
<1>3. CASE CreateFolder \/ RejectFolder \/ OpenFolder \/ EndVisit \/ Serve \/ FailLogin
  BY <1>1, <1>3 DEF CreateFolder, RejectFolder, OpenFolder, EndVisit, Serve, FailLogin
<1>4. ASSUME NEW f \in File, Visit(f) \/ RemoveFile(f) PROVE Index'
  BY <1>1, <1>4 DEF Visit, RemoveFile
<1>5. CASE Register
  <2>1. listed = <<>> /\ listed' = <<>> /\ pc' = pc /\ pc = "register"
    BY <1>5 DEF Register, Index
  <2>2. ListedIdsResolve'
    BY <2>1 DEF ListedIdsResolve
  <2> QED BY <1>5, <2>1, <2>2, IndexRegister DEF Index
<1>6. CASE FailRegister
  <2>1. listed' = <<>> /\ pc' = "terminated"
    BY <1>6 DEF FailRegister, Index
  <2>2. ListedIdsResolve'
    BY <2>1 DEF ListedIdsResolve
  <2> QED BY <2>1, <2>2 DEF Index
<1>7. CASE ListPacks
  <2>1. pc = "serving" /\ UNCHANGED <<pc, disk, packs, packsById>>
    BY <1>7 DEF ListPacks
  <2>2. IndexOK'
    BY <2>1 DEF Index, IndexOK, IdOf, LastUnder
  <2>3. ListedIdsResolve'
    BY <1>7, <2>1, IndexList DEF Index
  <2> QED BY <2>1, <2>2, <2>3 DEF Index
<1> QED BY <1>2, <1>3, <1>4, <1>5, <1>6, <1>7 DEF Next

\* ListedIdsResolve of PackRegistry: with any number of files under one id, an
\* id a client was told of finds a pack, and it is the last one listed under it.
THEOREM IdsResolve == Spec => []ListedIdsResolve
<1>1. TypeOK /\ Lists /\ Index /\ [Next]_vars => TypeOK' /\ Lists' /\ Index'
  BY TypeStep, ListsStep, IndexStep
<1>2. Index => ListedIdsResolve
  BY DEF Index
<1> QED BY <1>1, <1>2, TypeInit, IndexInit, PTL DEF Spec

-----------------------------------------------------------------------------
(* Every file is in one place *)

\* The files that somebody asks about: there, good, and not to be removed.
Kept == {f \in present \ Removable : disk[f].kind = "good"}

Placed ==
  /\ pc = "folder" =>
       loaded = <<>> /\ packs = <<>> /\ (present # {} => folder = "directory")
  /\ pc = "visit" =>
       /\ packs = <<>> /\ IsInjective(loaded) /\ Range(loaded) \cap toVisit = {}
       /\ Kept \subseteq toVisit \cup Range(loaded)
  /\ pc \in {"register", "serving"} =>
       /\ IsInjective(loaded) /\ IsInjective(packs) /\ Range(loaded) \cap Range(packs) = {}
       /\ Kept \subseteq Range(loaded) \cup Range(packs)
  /\ pc = "serving" => loaded = <<>>

LEMMA PlacedInit == Init => Placed
BY DEF Init, Placed

\* Nobody adds a file, or removes one that is not to be removed.
LEMMA KeptStays == TypeOK /\ [Next]_vars => Kept' = Kept
<1> SUFFICES ASSUME TypeOK, [Next]_vars
             PROVE  Kept' = Kept
  OBVIOUS
<1>1. disk' = disk /\ present' \ Removable = present \ Removable
  BY DEF Next, vars, diskVars, CreateFolder, RejectFolder, OpenFolder, EndVisit, Visit, Register,
         FailRegister, Serve, ListPacks, FailLogin, RemoveFile
<1> QED BY <1>1 DEF Kept

LEMMA NoneIn == Range(<<>>) = {} /\ IsInjective(<<>>)
BY DEF Range, IsInjective

LEMMA PlacedStep == TypeOK /\ Lists /\ Placed /\ [Next]_vars => Placed'
<1> SUFFICES ASSUME TypeOK, Lists, Placed, [Next]_vars
             PROVE  Placed'
  OBVIOUS
<1> USE DEF diskVars
<1>1. Kept' = Kept /\ Kept \subseteq present
  BY KeptStays DEF Kept
<1>2. CASE UNCHANGED vars
  BY <1>1, <1>2 DEF vars, Placed
<1>3. CASE CreateFolder
  BY <1>1, <1>3, NoneIn DEF CreateFolder, Placed
<1>4. CASE RejectFolder \/ FailRegister \/ FailLogin
  BY <1>4 DEF RejectFolder, FailRegister, FailLogin, Placed
<1>5. CASE OpenFolder
  BY <1>1, <1>5, NoneIn DEF OpenFolder, Placed
<1>6. ASSUME NEW f \in File, Visit(f) PROVE Placed'
  <2>1. pc = "visit" /\ pc' = "visit" /\ packs' = packs /\ toVisit' = toVisit \ {f} /\ f \in toVisit
    BY <1>6 DEF Visit, LeftToVisit
  <2>2. CASE Constructs(f)
    <3>1. loaded' = Append(loaded, f) /\ f \notin Range(loaded) /\ IsInjective(loaded)
      BY <1>6, <2>1, <2>2 DEF Visit, Placed
    <3>2. IsInjective(loaded') /\ Range(loaded') = Range(loaded) \cup {f}
      BY <3>1, Added DEF Lists
    <3> QED BY <1>1, <2>1, <3>2 DEF Placed
\* A file that does not construct is none that is kept.
  <2>3. CASE ~Constructs(f)
    <3>1. loaded' = loaded
      BY <1>6, <2>3 DEF Visit
    <3>2. f \notin Kept
      BY <2>3 DEF Kept, Constructs, Extracts, verifyManifest
    <3> QED BY <1>1, <2>1, <3>1, <3>2 DEF Placed
  <2> QED BY <2>2, <2>3
<1>7. CASE EndVisit
  BY <1>1, <1>7, NoneIn DEF EndVisit, Placed
<1>8. CASE Register
  <2>1. /\ loaded # <<>> /\ loaded' = Tail(loaded) /\ packs' = Append(packs, Head(loaded))
        /\ pc = "register" /\ pc' = "register"
    BY <1>8 DEF Register
  <2>2. /\ Head(loaded) \in File /\ Range(loaded) = Range(loaded') \cup {Head(loaded)}
        /\ IsInjective(loaded') /\ Head(loaded) \notin Range(loaded')
    BY <2>1, Taken DEF Placed, Lists
  <2>3. Head(loaded) \notin Range(packs) /\ IsInjective(packs)
    BY <2>1, <2>2 DEF Placed
  <2>4. IsInjective(packs') /\ Range(packs') = Range(packs) \cup {Head(loaded)}
    BY <2>1, <2>2, <2>3, Added DEF Lists
  <2> QED BY <1>1, <2>1, <2>2, <2>4 DEF Placed
<1>9. CASE Serve
  BY <1>1, <1>9 DEF Serve, Placed
<1>10. CASE ListPacks
  BY <1>1, <1>10 DEF ListPacks, Placed
<1>11. ASSUME NEW f \in File, RemoveFile(f) PROVE Placed'
  BY <1>1, <1>11 DEF RemoveFile, Placed
<1> QED BY <1>2, <1>3, <1>4, <1>5, <1>6, <1>7, <1>8, <1>9, <1>10, <1>11 DEF Next

\* GoodFilesServed of PackRegistry: a server that serves offers every good pack
\* nobody removed exactly once, whatever else is in the folder, in whatever
\* order it is read and however many other files are removed meanwhile.
THEOREM GoodServed == Spec => []GoodFilesServed
<1>1. TypeOK /\ Lists /\ Placed /\ [Next]_vars => TypeOK' /\ Lists' /\ Placed'
  BY TypeStep, ListsStep, PlacedStep
<1>2. Placed => GoodFilesServed
  <2> SUFFICES ASSUME Placed, pc = "serving", NEW f \in present \ Removable, disk[f].kind = "good"
               PROVE  Cardinality(Occurrences(f, packs)) = 1
    BY DEF GoodFilesServed
  <2>1. f \in Range(packs) /\ IsInjective(packs)
    BY NoneIn DEF Placed, Kept
  <2>2. PICK k \in DOMAIN packs : packs[k] = f
    BY <2>1 DEF Range
  <2>3. Occurrences(f, packs) = {k}
    BY <2>1, <2>2 DEF Occurrences, IsInjective
  <2> QED BY <2>3, FS_Singleton
<1> QED BY <1>1, <1>2, TypeInit, PlacedInit, PTL DEF Spec

=============================================================================
