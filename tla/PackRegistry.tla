---------------------------- MODULE PackRegistry ----------------------------
(***************************************************************************)
(* The resource packs a server offers: ZippedResourcePackLoader::loadPacks *)
(* reads the folder resource_packs one file at a time,                     *)
(* ResourcePackFactory::reloadPacks moves the packs into its list and its  *)
(* index by id, and NetworkSession::doLoginSuccess lists them to a client  *)
(* (src/network/mcbe/resourcepacks, src/server.cpp, network_session.cpp).  *)
(*                                                                         *)
(* A file is known by what the code can make of it:                        *)
(*   "other"      not a regular file, a key, or not named .zip or .mcpack  *)
(*   "broken"     no zip, no manifest.json in it, or no JSON               *)
(*   "incomplete" a manifest without format_version, header or modules     *)
(*   "noUuid"     a header whose uuid is not a string that parses          *)
(*   "noVersion"  a header whose version is not three integers             *)
(*   "good"                                                                *)
(* (A header that lacks the key uuid or version altogether is a failed     *)
(* assertion of nlohmann::json, undefined with NDEBUG, and left out.)      *)
(* A pack is named by its file.  An administrator may remove files while   *)
(* the folder is read and later.                                           *)
(***************************************************************************)
EXTENDS Naturals, Sequences, FiniteSets

CONSTANTS
  File,       \* the names of files in the folder
  Uuid,       \* ids of packs
  Kind,       \* what the files of a run may be
  NoPack,     \* nullptr of getPackById
  Removable   \* files that somebody removes while the server runs

ASSUME KindAssumption == Kind \subseteq {"other", "broken", "incomplete", "noUuid", "noVersion", "good"}
ASSUME FileAssumption == NoPack \notin File /\ Removable \subseteq File

VARIABLES
  disk,     \* what each file is
  present,  \* the files that are there
  folder,   \* what the path resource_packs is
  pc,       \* how far the constructor of Server has come
  toVisit,  \* what the directory iterator has not returned yet
  loaded,   \* the packs loadPacks returns, those not registered yet
  packs,    \* ResourcePackFactory::packs
  packsById,
  listed    \* history: the ids of the last ResourcePacksInfo

diskVars == <<disk, folder>>
vars == <<diskVars, present, pc, toVisit, loaded, packs, packsById, listed>>

Init ==
  /\ disk \in [File -> [kind : Kind, uuid : Uuid]]
  /\ folder \in {"missing", "file", "directory"}
  /\ present = IF folder = "directory" THEN File ELSE {}
  /\ pc = "folder" /\ toVisit = {} /\ loaded = <<>>
  /\ packs = <<>> /\ packsById = [u \in Uuid |-> NoPack] /\ listed = <<>>

Occurrences(f, s) == {k \in DOMAIN s : s[k] = f}

-----------------------------------------------------------------------------
(* ZippedResourcePackLoader::loadPacks *)

CreateFolder ==
  /\ pc = "folder" /\ folder = "missing"
  /\ folder' = "directory" /\ pc' = "register"
  /\ UNCHANGED <<disk, present, toVisit, loaded, packs, packsById, listed>>

RejectFolder ==
  /\ pc = "folder" /\ folder = "file"
  /\ pc' = "terminated"
  /\ UNCHANGED <<diskVars, present, toVisit, loaded, packs, packsById, listed>>

OpenFolder ==
  /\ pc = "folder" /\ folder = "directory"
  /\ toVisit' = present /\ pc' = "visit"
  /\ UNCHANGED <<diskVars, present, loaded, packs, packsById, listed>>

\* extractFile finds manifest.json in the archive.
Extracts(f) == disk[f].kind \notin {"other", "broken"}

\* (Bug... definitions are deliberate faults that show the properties can fail.)
BugNeverVerified(f) == TRUE
verifyManifest(f) == disk[f].kind # "incomplete"

\* The constructor of ZippedResourcePack succeeds.
Constructs(f) == f \in present /\ Extracts(f) /\ verifyManifest(f)

\* The handler is inside the loop: whatever the constructor throws, the
\* iterator goes on with the other files.
BugLeaveLoop(f) == IF Constructs(f) THEN toVisit \ {f} ELSE {}
LeftToVisit(f) == toVisit \ {f}

\* In no particular order; a file that is gone by now does not construct.
Visit(f) ==
  /\ pc = "visit" /\ f \in toVisit
  /\ toVisit' = LeftToVisit(f)
  /\ loaded' = IF Constructs(f) THEN Append(loaded, f) ELSE loaded
  /\ UNCHANGED <<diskVars, present, pc, packs, packsById, listed>>

EndVisit ==
  /\ pc = "visit" /\ toVisit = {}
  /\ pc' = "register"
  /\ UNCHANGED <<diskVars, present, toVisit, loaded, packs, packsById, listed>>

-----------------------------------------------------------------------------
(* ResourcePackFactory::reloadPacks *)

\* packs.back(), the pack that was just moved into the list.
BugIndexFront(s) == s[1]
Indexed(s) == s[Len(s)]

Register ==
  /\ pc = "register" /\ loaded # <<>>
  /\ disk[Head(loaded)].kind # "noUuid"
  /\ loaded' = Tail(loaded)
  /\ packs' = Append(packs, Head(loaded))
  /\ packsById' = [packsById EXCEPT ![disk[Head(loaded)].uuid] = Indexed(packs')]
  /\ UNCHANGED <<diskVars, present, pc, toVisit, listed>>

\* getPackId throws out of the constructors of the factory and the server.
FailRegister ==
  /\ pc = "register" /\ loaded # <<>>
  /\ disk[Head(loaded)].kind = "noUuid"
  /\ loaded' = Tail(loaded)
  /\ packs' = Append(packs, Head(loaded))
  /\ pc' = "terminated"
  /\ UNCHANGED <<diskVars, present, toVisit, packsById, listed>>

Serve ==
  /\ pc = "register" /\ loaded = <<>>
  /\ pc' = "serving"
  /\ UNCHANGED <<diskVars, present, toVisit, loaded, packs, packsById, listed>>

-----------------------------------------------------------------------------
(* NetworkSession::doLoginSuccess *)

\* getPackVersion and getPackSize do not throw for this pack.
Describable(f) == disk[f].kind # "noVersion" /\ f \in present

ListPacks ==
  /\ pc = "serving"
  /\ \A k \in DOMAIN packs : Describable(packs[k])
  /\ listed' = [k \in DOMAIN packs |-> disk[packs[k]].uuid]
  /\ UNCHANGED <<diskVars, present, pc, toVisit, loaded, packs, packsById>>

\* The exception leaves the handler and the main loop.
FailLogin ==
  /\ pc = "serving"
  /\ \E k \in DOMAIN packs : ~Describable(packs[k])
  /\ pc' = "terminated"
  /\ UNCHANGED <<diskVars, present, toVisit, loaded, packs, packsById, listed>>

-----------------------------------------------------------------------------
RemoveFile(f) ==
  /\ f \in present \cap Removable
  /\ present' = present \ {f}
  /\ UNCHANGED <<diskVars, pc, toVisit, loaded, packs, packsById, listed>>

Next ==
  \/ CreateFolder \/ RejectFolder \/ OpenFolder \/ EndVisit
  \/ Register \/ FailRegister \/ Serve
  \/ ListPacks \/ FailLogin
  \/ \E f \in File : Visit(f) \/ RemoveFile(f)

Spec == Init /\ [][Next]_vars

-----------------------------------------------------------------------------
(* Properties *)

\* The values the variables take.
TypeOK ==
  /\ disk \in [File -> [kind : Kind, uuid : Uuid]]
  /\ present \subseteq File /\ toVisit \subseteq File
  /\ folder \in {"missing", "file", "directory"}
  /\ pc \in {"folder", "visit", "register", "serving", "terminated"}
  /\ \A s \in {loaded, packs} : \A k \in DOMAIN s :
       s[k] \in File /\ disk[s[k]].kind \in {"noUuid", "noVersion", "good"}
  /\ packsById \in [Uuid -> File \cup {NoPack}]
  /\ \A k \in DOMAIN listed : listed[k] \in Uuid

\* A server that serves offers every good pack nobody removed, exactly once,
\* whatever else lies in the folder and in whatever order it is read.
GoodFilesServed ==
  pc = "serving" =>
    \A f \in present \ Removable :
      disk[f].kind = "good" => Cardinality(Occurrences(f, packs)) = 1

\* An id a client was told of is found again when the client asks for the
\* pack, and what is found is the last pack listed under it: of two files with
\* the same id one is downloaded, under the entries of both.
ListedIdsResolve ==
  \A k \in DOMAIN listed :
    /\ packsById[listed[k]] # NoPack
    /\ disk[packsById[listed[k]]].uuid = listed[k]
    /\ (\A j \in DOMAIN listed : j > k => listed[j] # listed[k])
          => packsById[listed[k]] = packs[k]

\* What the loader says of a pack it cannot use, "Failed to load resource pack
\* '{}': {}", and goes on: no file in the folder ends the process, while
\* nobody touches the folder.
BadPackIsSkipped == pc = "terminated" => folder = "file" \/ present # File
=============================================================================
