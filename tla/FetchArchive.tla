----------------------------- MODULE FetchArchive ----------------------------
(***************************************************************************)
(* gcs-fetcher/pkg/fetcher/fetcher.go: Fetch, with fetchFromZip, unzip and  *)
(* fetchFromTarGz next to fetchFromManifest, up to the end of the process.  *)
(*                                                                          *)
(* An archive is fetched to the staging directory by fetchObject and then   *)
(* written, entry by entry, into a workspace that need not be empty.  Others *)
(* may overwrite the object meanwhile, between one attempt and the next.    *)
(* A path is a sequence of names; a file is a sequence of blocks, each      *)
(* named by where it comes from.                                            *)
(***************************************************************************)
EXTENDS FetchManifest, SequencesExt

CONSTANTS
  SourceTypes,    \* values of --type
  Archive,        \* the job that fetches the archive
  Original,       \* archives the object may hold at first: sequences of entries
  Newer,          \* archives that may overwrite it
  Places,         \* paths in the workspace
  Workspaces,     \* what may be in the workspace: functions from Places to files
  MaxOverwrites   \* bound on how often the object is overwritten

NoBlocks == <<>>
Supported == {"Manifest", "Archive", "ZipArchive", "TarGzArchive"}

IsSequence(s) == s \in Seq(Range(s))

\* Block i of file p is the i-th of some file of that name.
InPlace(p, f) ==
  IsSequence(f) /\ \A i \in DOMAIN f : f[i][1] = p /\ f[i][3] = i

\* Files have at least one block: an empty one is no different from none here.
ASSUME ArchiveAssumption ==
  /\ Archive \in Jobs \ (HasSha \cup Files)
  /\ FinalDir[Archive] = Staging        \* destDirOverride
  /\ \A s \in Original \cup Newer : IsSequence(s) /\ \A i \in DOMAIN s :
       /\ s[i].kind \in {"dir", "file", "link"} /\ IsSequence(s[i].name)
       /\ s[i].kind # "dir" => s[i].name \in Places /\ s[i].len \in Nat \ {0}
  /\ \A w \in Workspaces :
       w = [p \in Places |-> w[p]] /\ \A p \in Places : InPlace(p, w[p])

VARIABLES
  sourceType,     \* gf.SourceType
  overwrites,     \* how often the object was overwritten since main began
  archive,        \* the entries of the archive that was opened
  next,           \* the entry that is handled
  written,        \* blocks written of it
  dest,           \* dest[p]: the file at p, NoBlocks if there is none
  folders         \* directories in the workspace

extractVars == <<archive, next, written, dest, folders>>
avars == <<mvars, sourceType, overwrites, extractVars>>

Entry == archive[next]
IsZip == sourceType \in {"Archive", "ZipArchive"}
IsTar == sourceType = "TarGzArchive"

AInit ==
  /\ MInit
  /\ sourceType \in SourceTypes
  /\ overwrites = 0
  /\ archive = <<>> /\ next = 1 /\ written = 0
  /\ dest \in Workspaces
  /\ folders = {Front(p) : p \in {q \in Places : dest[q] # NoBlocks}} \cup {<<>>}

-----------------------------------------------------------------------------
(* Writing one entry.                                                       *)

\* MkdirAll fails where a file stands in the way.
MayMakeFolder(p) == \A q \in Prefixes(p) \cap Places : dest[q] = NoBlocks
MakeFolder(p) == folders' = folders \cup Prefixes(p)

\* Mutated form of Overlay: blocks are added at the end of the file.
OverlayAppended(old, new) == old \o new

\* A file is opened without O_TRUNC: what is longer keeps its end.
Overlay(old, new) == new \o SubSeq(old, Len(new) + 1, Len(old))

\* The first k blocks of a file of the archive.
Blocks(e, k) == [i \in 1 .. k |-> <<e.name, e.id, i>>]

\* unzip makes a file of a symbolic link too: its target is the content.
IsFile(e) == e.kind = "file" \/ (e.kind = "link" /\ IsZip)

InEntry(kinds) ==
  phase = "extract" /\ next <= Len(archive) /\ Entry.kind \in kinds
Write(k) ==
  /\ dest' = [dest EXCEPT ![Entry.name] = Overlay(@, Blocks(Entry, k))]
  /\ written' = k
  /\ UNCHANGED <<mvars, sourceType, overwrites, archive, next>>
NextEntry ==
  /\ next' = next + 1 /\ written' = 0
  /\ UNCHANGED <<mvars, sourceType, overwrites, archive>>

\* Where something stands already, unzip only changes its mode, be it a file.
ExtractFolder ==
  /\ InEntry({"dir"})
  /\ IF IsZip /\ Entry.name \in Places /\ dest[Entry.name] # NoBlocks
       THEN UNCHANGED folders
       ELSE MayMakeFolder(Entry.name) /\ MakeFolder(Entry.name)
  /\ NextEntry
  /\ UNCHANGED dest

\* Mutated form of NeedsFolder: the folder is taken to be there.
NeedsNoFolder(p) == UNCHANGED folders

\* unzip makes the folder of a file; fetchFromTarGz relies on an earlier entry.
NeedsFolder(p) ==
  IF IsZip THEN MayMakeFolder(p) /\ MakeFolder(p)
  ELSE p \in folders /\ UNCHANGED folders

OpenTarget ==
  /\ InEntry({"file", "link"}) /\ IsFile(Entry)
  /\ written = 0
  /\ NeedsFolder(Front(Entry.name))
  /\ Entry.name \notin folders
  /\ Write(1)

CopyBlock ==
  /\ InEntry({"file", "link"})
  /\ written \in 1 .. Entry.len - 1
  /\ Write(written + 1)
  /\ UNCHANGED folders

\* fetchFromTarGz does not look at the error of the close, and goes on when
\* the last write was lost.
CloseTarget ==
  /\ InEntry({"file", "link"})
  /\ written = Entry.len
  /\ dest' \in {dest} \cup
       IF CloseMayFail /\ IsTar
         THEN {[dest EXCEPT ![Entry.name] = SubSeq(@, 1, written - 1)]} ELSE {}
  /\ NextEntry
  /\ UNCHANGED folders

\* fetchFromTarGz knows directories and files, and passes over anything else.
PassOver ==
  /\ InEntry({"link"}) /\ IsTar
  /\ NextEntry
  /\ UNCHANGED <<dest, folders>>

-----------------------------------------------------------------------------
(* Fetch, for an archive.                                                   *)

InArchive == IsZip \/ IsTar

FetchArchiveFile ==
  /\ InArchive
  /\ FetchFirst(Archive)
  /\ UNCHANGED <<sourceType, overwrites, extractVars>>

ArchiveFetched ==
  /\ FirstFetched(Archive)
  /\ UNCHANGED <<sourceType, overwrites, extractVars>>

\* What was downloaded is whole: what the object held first, or what it held later.
OpenArchive ==
  /\ phase = "decode"
  /\ final[Archive] # NoFile
  /\ archive' \in IF stream[final[Archive]] = "good" THEN Original ELSE Newer
  /\ phase' = "extract"
  /\ UNCHANGED <<fvars, poolVars, sourceType, overwrites, next, written, dest, folders>>

\* The archive cannot be opened or read on, a directory or a file cannot be
\* made, a write fails, or unzip fails to close one: what was written stays.
ExtractFails ==
  /\ phase \in {"decode", "extract"}
  /\ phase' = "exit1"
  /\ UNCHANGED <<fvars, poolVars, sourceType, overwrites, extractVars>>

\* At the end of the archive its file is removed, if that is possible.
ExtractDone ==
  /\ phase = "extract" /\ next > Len(archive)
  /\ final' \in {final, [final EXCEPT ![Archive] = NoFile]}
  /\ phase' = "clean"
  /\ UNCHANGED <<callerVars, goVars, tmp, data, dirs, created, poolVars,
                 sourceType, overwrites, extractVars>>

\* RemoveAll and the statistics; EmitStats stands for the deferred closes, of
\* the tar file here, of the build's output file in main.
CleanUp ==
  /\ RemoveEntries \/ RemoveDirectory \/ RemoveFails \/ EmitStats
  /\ UNCHANGED <<sourceType, overwrites, extractVars>>

ArchiveThread ==
  /\ InArchive
  /\ \/ ArchiveFetched \/ OpenArchive
     \/ ExtractFolder \/ OpenTarget \/ CopyBlock \/ CloseTarget \/ PassOver
     \/ ExtractFails \/ ExtractDone \/ CleanUp

\* GCS is asked for bucket and object and sends what the object holds then.  A
\* location with a #generation asks for an object of that literal name, since
\* ParseBucketObject does not take it off: the attempt fails as any other may.
Sent(a) == IF overwrites = 0 THEN "good" ELSE "bad"

ArchiveGoroutine(a) ==
  /\ InArchive
  /\ GoroutineStep(a)
  /\ go[a] = "open" /\ go'[a] = "create" => stream'[a] = Sent(a)
  /\ UNCHANGED <<sourceType, overwrites, extractVars>>

-----------------------------------------------------------------------------
(* The whole program.                                                       *)

\* Someone overwrites the object.
Overwrite ==
  /\ InArchive /\ phase = "manifest"
  /\ overwrites < MaxOverwrites
  /\ overwrites' = overwrites + 1
  /\ UNCHANGED <<mvars, sourceType, extractVars>>

\* main refuses its flags, has no client or cannot open the output file, or
\* Fetch does not know the type.
Refuse ==
  /\ phase = "manifest"
  /\ \A j \in Jobs : pc[j] = "idle"
  /\ phase' = "exit1"
  /\ UNCHANGED <<fvars, poolVars, sourceType, overwrites, extractVars>>

Misconfigured == sourceType \notin Supported /\ Refuse

InManifest(A) ==
  sourceType = "Manifest" /\ A /\ UNCHANGED <<sourceType, overwrites, extractVars>>

ANext ==
  \/ InManifest(MNext)
  \/ FetchArchiveFile
  \/ ArchiveThread
  \/ \E a \in Attempts : ArchiveGoroutine(a)
  \/ Overwrite
  \/ Refuse

ASafety == AInit /\ [][ANext]_avars

\* Fairness is that of MSpec, with the main goroutine at work on an archive.
ASpec ==
  /\ ASafety
  /\ WF_avars(InManifest(FetchManifestFile))
  /\ WF_avars(InManifest(MainThread))
  /\ WF_avars(InManifest(PassJobs))
  /\ \A w \in Workers : /\ WF_avars(InManifest(FetchFile(w)))
                        /\ WF_avars(InManifest(FetchReturned(w)))
  /\ WF_avars(FetchArchiveFile)
  /\ WF_avars(ArchiveThread)
  /\ WF_avars(Misconfigured)

-----------------------------------------------------------------------------
(* Properties.                                                              *)

FileEntries == {i \in DOMAIN archive : IsFile(archive[i])}
LastOf(i) == \A k \in FileEntries : archive[k].name = archive[i].name => k <= i

\* When the process exits with 0, the last entry of each file name is in the
\* workspace from its first block to its last, in a folder that exists; a
\* directory entry is a folder, unless unzip found a file in its place.
ExitZeroMeansExtracted ==
  phase = "exit0" /\ InArchive =>
    \A i \in DOMAIN archive : LET e == archive[i] IN
      /\ IsFile(e) /\ LastOf(i) =>
           IsPrefix(Blocks(e, e.len), dest[e.name]) /\ Front(e.name) \in folders
      /\ e.kind = "dir" =>
           e.name \in folders \/ (IsZip /\ e.name \in Places /\ dest[e.name] # NoBlocks)

\* A file is not cut to its new length, but it is never put together from more
\* than that: block i of a file is block i of what some entry, or the workspace
\* before, had under that name, and it has no gap.
BlocksKeepTheirPlace ==
  \A p \in Places : \A i \in DOMAIN dest[p] : dest[p][i][1] = p /\ dest[p][i][3] = i
=============================================================================
