------------------------------ MODULE Uploader ------------------------------
(***************************************************************************)
(* gcs-fetcher/pkg/uploader and cmd/gcs-uploader: builds that upload their  *)
(* directories to one bucket, at the same time or one after the other.      *)
(*                                                                          *)
(* A file becomes an object named by the SHA-1 of its content, and the      *)
(* manifest, one more object, maps paths to those names.  Every writer asks *)
(* GCS to create the object only if it does not exist: that is how an       *)
(* upload is incremental.  An upload reads its file twice, first to name    *)
(* the object and then to send it.  SHA-1 is taken to be injective, so an   *)
(* object is named by the content it should have.  The sizes that are counted *)
(* for the log are left out.                                                *)
(***************************************************************************)
EXTENDS FiniteSets

CONSTANTS
  Builds,     \* runs of gcs-uploader
  Files,      \* paths below --dir, of files and of links, the same in every build
  Target,     \* Target[f]: the path that f resolves to
  Contents,   \* contents a file may have
  Empty,      \* the empty one
  Big,        \* contents longer than one chunk of the GCS client
  Locations,  \* names of manifest objects
  Location,   \* Location[b]: --location of build b
  Failures,   \* TRUE: reads and calls to GCS may fail, a build may be killed
  Edits,      \* builds in which another process may write to files meanwhile
  Directory,  \* what a link may lead to instead of a file
  None

Listing == [Files -> Contents \cup {None}]
NoFiles == [f \in Files |-> None]

ASSUME UploaderAssumption ==
  /\ IsFiniteSet(Files)
  /\ Target \in [Files -> Files]
  /\ Empty \in Contents
  /\ Big \subseteq Contents \ {Empty}
  /\ Location \in [Builds -> Locations]
  /\ Failures \in BOOLEAN
  /\ Edits \subseteq Builds
  /\ None \notin Contents \cup {Directory} \cup Listing
  /\ Directory \notin Contents

VARIABLES
  ws,        \* ws[b][f]: what file f of build b holds, or Directory
  upc,       \* upc[b]: where the process stands
  left,      \* left[b]: paths filepath.Walk has still to visit
  path,      \* path[b]: the path Do was called with
  digest,    \* digest[b]: the SHA-1 of what it read first
  sent,      \* sent[b]: what it read the second time
  manifest,  \* manifest[b]: u.manifest, the digest listed for a file
  blob,      \* blob[d]: the content of the object named d
  stored,    \* stored[l]: the manifest object l
  missed,    \* missed[b]: paths for which Do, or the walk, returned an error
  made       \* made[b]: objects GCS created for build b

uvars == <<ws, upc, left, path, digest, sent, manifest,
           blob, stored, missed, made>>

\* The process has just parsed its flags and made its client.
UInit ==
  /\ ws \in [Builds -> [Files -> Contents \cup {Directory}]]
  /\ upc = [b \in Builds |-> "walk"]
  /\ left = [b \in Builds |-> Files]
  /\ path = [b \in Builds |-> None]
  /\ digest = [b \in Builds |-> None]
  /\ sent = [b \in Builds |-> None]
  /\ manifest = [b \in Builds |-> NoFiles]
  /\ blob = [d \in Contents |-> None]
  /\ stored = [l \in Locations |-> None]
  /\ missed = [b \in Builds |-> {}]
  /\ made = [b \in Builds |-> {}]

File(b) == Target[path[b]]
LeadsToDirectory(b, f) == ws[b][Target[f]] = Directory

\* Do returns: the next path, if there is one.  main does not look at its error.
Return(b) == upc' = [upc EXCEPT ![b] = "walk"]

\* Do returns an error.
ReturnError(b) ==
  /\ Return(b)
  /\ missed' = [missed EXCEPT ![b] = @ \cup {path[b]}]

-----------------------------------------------------------------------------
(* The walk of main, and what Do does before it writes.                     *)

\* Symbolic links are followed; the first reading gives the object's name.
Hash(b) ==
  /\ upc[b] = "walk"
  /\ \E f \in left[b] :
       /\ ~LeadsToDirectory(b, f)
       /\ path' = [path EXCEPT ![b] = f]
       /\ digest' = [digest EXCEPT ![b] = ws[b][Target[f]]]
       /\ left' = [left EXCEPT ![b] = @ \ {f}]
  /\ upc' = [upc EXCEPT ![b] = "copy"]
  /\ UNCHANGED <<ws, sent, manifest, blob, stored, missed, made>>

\* Neither Do nor the walk enters a directory that a link leads to.
PassOverDirectory(b) ==
  /\ upc[b] = "walk"
  /\ \E f \in left[b] :
       /\ LeadsToDirectory(b, f)
       /\ left' = [left EXCEPT ![b] = @ \ {f}]
  /\ UNCHANGED <<ws, upc, path, digest, sent, manifest,
                 blob, stored, missed, made>>

\* The link, the file or its content cannot be read.
HashFails(b) ==
  /\ Failures
  /\ upc[b] = "walk"
  /\ \E f \in left[b] :
       /\ left' = [left EXCEPT ![b] = @ \ {f}]
       /\ missed' = [missed EXCEPT ![b] = @ \cup {f}]
  /\ UNCHANGED <<ws, upc, path, digest, sent, manifest,
                 blob, stored, made>>

\* Walk reports an unreadable directory; the callback's error ends the walk.
WalkFails(b) ==
  /\ Failures
  /\ upc[b] = "walk"
  /\ left[b] # {}
  /\ missed' = [missed EXCEPT ![b] = @ \cup left[b]]
  /\ left' = [left EXCEPT ![b] = {}]
  /\ UNCHANGED <<ws, upc, path, digest, sent, manifest,
                 blob, stored, made>>

-----------------------------------------------------------------------------
(* The writer: NewWriter, io.Copy, manifest.Store, Close.                   *)

\* The client sends a long object chunk by chunk and starts with a request
\* that GCS refuses at once when the object exists: a Write returns the 412.
RefusedEarly(b) == ws[b][File(b)] \in Big /\ blob[digest[b]] # None

\* Mutated form of Sent: no Seek, the file stands at its end.
SentWithoutSeek(b) == Empty

\* The second reading, after Seek(0, 0).
Sent(b) == ws[b][File(b)]

\* The file is listed before the writer is closed.
Copy(b) ==
  /\ upc[b] = "copy"
  /\ ~RefusedEarly(b)
  /\ sent' = [sent EXCEPT ![b] = Sent(b)]
  /\ manifest' = [manifest EXCEPT ![b][File(b)] = digest[b]]
  /\ upc' = [upc EXCEPT ![b] = "close"]
  /\ UNCHANGED <<ws, left, path, digest, blob, stored, missed, made>>

CopyFails(b) ==
  /\ upc[b] = "copy"
  /\ Failures \/ RefusedEarly(b)
  /\ ReturnError(b)
  /\ UNCHANGED <<ws, left, path, digest, sent, manifest,
                 blob, stored, made>>

\* Mutated form of MayCreate: the writer has no precondition.
MayCreateAlways(b) == TRUE

\* storage.Conditions{DoesNotExist: true}.
MayCreate(b) == blob[digest[b]] = None

Store(b) ==
  /\ blob' = [blob EXCEPT ![digest[b]] = sent[b]]
  /\ made' = [made EXCEPT ![b] = @ \cup {digest[b]}]

Close(b) ==
  /\ upc[b] = "close"
  /\ MayCreate(b)
  /\ Store(b)
  /\ Return(b)
  /\ UNCHANGED <<ws, left, path, digest, sent, manifest, stored, missed>>

\* Mutated form of AlreadyExists: any error is taken for a 412.
AnyErrorExists(b) == Failures \/ blob[digest[b]] # None

\* isAlreadyExists: the error is a failed precondition.
AlreadyExists(b) == blob[digest[b]] # None

CloseExists(b) ==
  /\ upc[b] = "close"
  /\ AlreadyExists(b)
  /\ Return(b)
  /\ UNCHANGED <<ws, left, path, digest, sent, manifest, blob, stored, missed, made>>

\* Any other error; GCS may have created the object all the same.
CloseFails(b) ==
  /\ Failures
  /\ upc[b] = "close"
  /\ \/ UNCHANGED <<blob, made>>
     \/ blob[digest[b]] = None /\ Store(b)
  /\ ReturnError(b)
  /\ UNCHANGED <<ws, left, path, digest, sent, manifest, stored>>

-----------------------------------------------------------------------------
(* Done and writeManifest, then the end of the process.                     *)

\* The manifest is written by the same kind of writer.
WriteManifest(b) ==
  /\ upc[b] = "walk" /\ left[b] = {}
  /\ IF stored[Location[b]] = None
       THEN /\ stored' = [stored EXCEPT ![Location[b]] = manifest[b]]
            /\ upc' = [upc EXCEPT ![b] = "exit0"]
       ELSE /\ upc' = [upc EXCEPT ![b] = "exit1"]
            /\ UNCHANGED stored
  /\ UNCHANGED <<ws, left, path, digest, sent, manifest,
                 blob, missed, made>>

WriteManifestFails(b) ==
  /\ Failures
  /\ upc[b] = "walk" /\ left[b] = {}
  /\ \/ UNCHANGED stored
     \/ /\ stored[Location[b]] = None
        /\ stored' = [stored EXCEPT ![Location[b]] = manifest[b]]
  /\ upc' = [upc EXCEPT ![b] = "exit1"]
  /\ UNCHANGED <<ws, left, path, digest, sent, manifest,
                 blob, missed, made>>

\* The build is cancelled, or runs out of time.
Killed(b) ==
  /\ Failures
  /\ upc[b] \in {"walk", "copy", "close"}
  /\ upc' = [upc EXCEPT ![b] = "killed"]
  /\ UNCHANGED <<ws, left, path, digest, sent, manifest,
                 blob, stored, missed, made>>

\* A process of the build writes to a file.
Edit(b) ==
  /\ b \in Edits
  /\ upc[b] \in {"walk", "copy", "close"}
  /\ \E f \in Files, c \in Contents :
       ws[b][f] # Directory /\ ws' = [ws EXCEPT ![b][f] = c]
  /\ UNCHANGED <<upc, left, path, digest, sent, manifest,
                 blob, stored, missed, made>>

UNext == \E b \in Builds :
  \/ Hash(b) \/ PassOverDirectory(b) \/ HashFails(b) \/ WalkFails(b)
  \/ Copy(b) \/ CopyFails(b)
  \/ Close(b) \/ CloseExists(b) \/ CloseFails(b)
  \/ WriteManifest(b) \/ WriteManifestFails(b)
  \/ Killed(b) \/ Edit(b)

USpec == UInit /\ [][UNext]_uvars

-----------------------------------------------------------------------------
(* Properties.                                                              *)

\* An object has the content its name is the SHA-1 of, whoever uploaded it and
\* whatever failed, unless a build created it whose files somebody writes to.
BlobsAreTheirDigest ==
  \A d \in Contents : blob[d] \in {None, d} \/ \E b \in Edits : d \in made[b]

\* Objects and manifests never change once they exist, even when files are
\* edited under the uploader or two builds upload the same file at once: what
\* lets a build reuse an object it did not create.
ObjectsNeverChange ==
  [][/\ \A d \in Contents : blob[d] # None => blob'[d] = blob[d]
     /\ \A l \in Locations : stored[l] # None => stored'[l] = stored[l]]_uvars

\* A build that ends well, and for which no file gave an error, leaves a
\* manifest from which can be fetched whatever its paths lead to, but for links
\* to directories: each file is listed, and the object listed for it exists.
\* It may be another build that created it, and that build may since have been
\* killed.
CleanUploadIsComplete ==
  \A b \in Builds : upc[b] = "exit0" /\ missed[b] = {} =>
    /\ stored[Location[b]] = manifest[b]
    /\ \A f \in Files : ~LeadsToDirectory(b, f) =>
         manifest[b][Target[f]] # None /\ blob[manifest[b][Target[f]]] # None

-----------------------------------------------------------------------------
(* What the documentation says, and the code does not do.                   *)

\* "a JSON object in Cloud Storage listing other objects in Cloud Storage":
\* what a manifest lists exists.
ListedObjectsExist ==
  \A b \in Builds : upc[b] = "exit0" =>
    \A f \in Files : manifest[b][f] # None => blob[manifest[b][f]] # None
=============================================================================
