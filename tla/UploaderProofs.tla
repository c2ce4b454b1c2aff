--------------------------- MODULE UploaderProofs ---------------------------
(***************************************************************************)
(* Theorems about Uploader: for any number of builds, of files with links   *)
(* between them, of contents and of manifest locations, shared or not, with *)
(* failures, kills and edits or without.                                    *)
(***************************************************************************)
EXTENDS Uploader, TLAPS

-----------------------------------------------------------------------------
(* The inductive invariant, in parts.                                       *)

Working == {"walk", "copy", "close"}

UTypeOK ==
  /\ ws \in [Builds -> [Files -> Contents \cup {Directory}]]
  /\ upc \in [Builds -> Working \cup {"exit0", "exit1", "killed"}]
  /\ left \in [Builds -> SUBSET Files]
  /\ path \in [Builds -> Files \cup {None}]
  /\ digest \in [Builds -> Contents \cup {None}]
  /\ sent \in [Builds -> Contents \cup {None}]
  /\ manifest \in [Builds -> Listing]
  /\ blob \in [Contents -> Contents \cup {None}]
  /\ stored \in [Locations -> Listing \cup {None}]
  /\ missed \in [Builds -> SUBSET Files]
  /\ made \in [Builds -> SUBSET Contents]

\* Inside Do there is a path to a file and the digest of the file; at the close the file
\* was read again and is listed.
InDo ==
  \A b \in Builds :
    /\ upc[b] \in {"copy", "close"} => path[b] \in Files /\ digest[b] \in Contents
    /\ upc[b] \in {"copy", "close"} => ws[b][File(b)] # Directory
    /\ upc[b] = "close" => /\ sent[b] \in Contents
                           /\ manifest[b][File(b)] = digest[b]

\* Where nobody edits files, the second reading gives what the first gave.
ReadTwiceAlike ==
  \A b \in Builds \ Edits :
    /\ upc[b] = "copy" => digest[b] = ws[b][File(b)]
    /\ upc[b] = "close" => sent[b] = digest[b]

\* The manifest names an object for path f, and the object exists.
Listed(b, f) ==
  /\ manifest[b][Target[f]] # None
  /\ blob[manifest[b][Target[f]]] # None

\* Do is at work on the file of path f, by this name or by another.
AtWorkOn(b, f) ==
  upc[b] \in {"copy", "close"} /\ File(b) = Target[f]

\* As long as no file gave an error, each path to a file that was visited is
\* listed, but for the file Do is at work on: a second path to it may have been
\* listed before, and its entry is written anew before the object exists.
VisitedIsListed ==
  \A b \in Builds : upc[b] \in Working \cup {"exit0"} /\ missed[b] = {} =>
    \A f \in Files \ left[b] :
      LeadsToDirectory(b, f) \/ AtWorkOn(b, f) \/ Listed(b, f)

\* A build that ended well visited all, and its manifest is the one stored.
EndedWell ==
  \A b \in Builds : upc[b] = "exit0" =>
    left[b] = {} /\ stored[Location[b]] = manifest[b]

UInv ==
  /\ UTypeOK /\ InDo /\ ReadTwiceAlike /\ BlobsAreTheirDigest
  /\ VisitedIsListed /\ EndedWell

LEMMA UInvInit == UInit => UInv
<1> SUFFICES ASSUME UInit PROVE UInv
  OBVIOUS
<1> USE UploaderAssumption DEF UInit
<1>1. UTypeOK
  BY DEF UTypeOK, Working, Listing, NoFiles
<1>2. InDo /\ ReadTwiceAlike
  BY DEF InDo, ReadTwiceAlike
<1>3. BlobsAreTheirDigest
  BY DEF BlobsAreTheirDigest
<1>4. VisitedIsListed /\ EndedWell
  BY DEF VisitedIsListed, EndedWell
<1> QED
  BY <1>1, <1>2, <1>3, <1>4 DEF UInv

-----------------------------------------------------------------------------
(* The bucket.                                                              *)

\* Objects are only ever created.
ObjectsStay == \A d \in Contents : blob[d] # None => blob'[d] = blob[d]
ManifestsStay == \A l \in Locations : stored[l] # None => stored'[l] = stored[l]

\* What a build creates is what it read the second time.
LEMMA StoreCreates ==
  ASSUME UInv, NEW b \in Builds, upc[b] = "close", blob[digest[b]] = None, Store(b)
  PROVE  /\ ObjectsStay
         /\ blob'[digest[b]] # None
         /\ blob' \in [Contents -> Contents \cup {None}]
         /\ made' \in [Builds -> SUBSET Contents]
         /\ BlobsAreTheirDigest'
<1>1. digest[b] \in Contents /\ sent[b] \in Contents
  BY DEF UInv, InDo
<1>2. /\ blob' = [blob EXCEPT ![digest[b]] = sent[b]]
      /\ made' = [made EXCEPT ![b] = @ \cup {digest[b]}]
  BY DEF Store
<1>3. /\ blob \in [Contents -> Contents \cup {None}]
      /\ made \in [Builds -> SUBSET Contents]
  BY DEF UInv, UTypeOK
<1>4. \A d \in Contents : blob'[d] = IF d = digest[b] THEN sent[b] ELSE blob[d]
  BY <1>2, <1>3
<1>5. \A c \in Builds : made[c] \subseteq made'[c]
  BY <1>2, <1>3
<1>6. digest[b] \in made'[b]
  BY <1>2, <1>3
<1>7. b \notin Edits => sent[b] = digest[b]
  BY DEF UInv, ReadTwiceAlike
<1>8. BlobsAreTheirDigest'
  <2> SUFFICES ASSUME NEW d \in Contents, blob'[d] \notin {None, d}
               PROVE  \E c \in Edits : d \in made'[c]
    BY DEF BlobsAreTheirDigest
  <2>1. CASE d = digest[b]
    BY <2>1, <1>4, <1>6, <1>7
  <2>2. CASE d # digest[b]
    <3>1. PICK c \in Edits : d \in made[c]
      BY <2>2, <1>4 DEF UInv, BlobsAreTheirDigest
    <3> QED
      BY <3>1, <1>5, UploaderAssumption
  <2> QED
    BY <2>1, <2>2
<1> QED
  BY <1>1, <1>2, <1>3, <1>4, <1>8, UploaderAssumption DEF ObjectsStay

-----------------------------------------------------------------------------
(* The steps.                                                               *)

\* What is listed stays listed as long as the entry and the objects do.
LEMMA ListedStays ==
  ASSUME UInv, ObjectsStay, NEW b \in Builds, NEW f \in Files, Listed(b, f),
         manifest'[b][Target[f]] = manifest[b][Target[f]]
  PROVE  Listed(b, f)'
<1>1. manifest[b][Target[f]] \in Contents
  BY UploaderAssumption DEF UInv, UTypeOK, Listed, Listing
<1> QED
  BY <1>1 DEF Listed, ObjectsStay

\* A step that changes neither the bucket nor a manifest, except that a build
\* may report an error or end other than well.
LEMMA HashKeeps ==
  ASSUME UInv, NEW b \in Builds, Hash(b)
  PROVE  UInv'
<1> USE UploaderAssumption DEF Hash
<1>1. PICK f \in left[b] : /\ ws[b][Target[f]] # Directory
                           /\ path' = [path EXCEPT ![b] = f]
                           /\ digest' = [digest EXCEPT ![b] = ws[b][Target[f]]]
                           /\ left' = [left EXCEPT ![b] = @ \ {f}]
  BY DEF LeadsToDirectory
<1>2. UTypeOK /\ f \in Files /\ Target[f] \in Files /\ ws[b][Target[f]] \in Contents
  BY <1>1 DEF UInv, UTypeOK
<1>3. UTypeOK'
  BY <1>1, <1>2 DEF UTypeOK, Working
<1>4. /\ path'[b] = f /\ digest'[b] = ws[b][Target[f]] /\ upc'[b] = "copy"
      /\ left'[b] = left[b] \ {f}
      /\ \A c \in Builds \ {b} : /\ path'[c] = path[c] /\ digest'[c] = digest[c]
                                 /\ upc'[c] = upc[c] /\ left'[c] = left[c]
  BY <1>1, <1>2 DEF UTypeOK
<1>5. InDo'
  BY <1>1, <1>2, <1>4 DEF UInv, InDo, File
<1>6. ReadTwiceAlike'
  BY <1>2, <1>4 DEF UInv, ReadTwiceAlike, File
<1>7. BlobsAreTheirDigest'
  BY DEF UInv, BlobsAreTheirDigest
<1>8. VisitedIsListed'
  <2> SUFFICES ASSUME NEW c \in Builds, upc'[c] \in Working \cup {"exit0"},
                      missed'[c] = {}, NEW g \in Files \ left'[c],
                      ~LeadsToDirectory(c, g)
               PROVE  AtWorkOn(c, g)' \/ Listed(c, g)'
    BY DEF VisitedIsListed, LeadsToDirectory
  <2>1. Listed(c, g)' <=> Listed(c, g)
    BY DEF Listed
  <2>2. CASE c = b
    <3>1. upc[b] = "walk" /\ ~AtWorkOn(b, g)
      BY DEF AtWorkOn
    <3>2. CASE g = f
      BY <2>2, <3>2, <1>4 DEF AtWorkOn, File
    <3>3. CASE g # f
      BY <2>1, <2>2, <3>1, <3>3, <1>4 DEF UInv, VisitedIsListed, Working
    <3> QED
      BY <3>2, <3>3
  <2>3. CASE c # b
    BY <2>1, <2>3, <1>4 DEF UInv, VisitedIsListed, AtWorkOn, File
  <2> QED
    BY <2>2, <2>3
<1>9. EndedWell'
  BY <1>4 DEF UInv, EndedWell
<1> QED
  BY <1>3, <1>5, <1>6, <1>7, <1>8, <1>9 DEF UInv

\* A directory is passed over: nothing is claimed of its path.
LEMMA PassOverDirectoryKeeps ==
  ASSUME UInv, NEW b \in Builds, PassOverDirectory(b)
  PROVE  UInv'
<1> USE DEF PassOverDirectory
<1>1. PICK f \in left[b] : /\ LeadsToDirectory(b, f)
                           /\ left' = [left EXCEPT ![b] = @ \ {f}]
  OBVIOUS
<1>2. UTypeOK
  BY DEF UInv
<1>3. UTypeOK'
  BY <1>1, <1>2 DEF UTypeOK
<1>4. /\ left'[b] = left[b] \ {f}
      /\ \A c \in Builds \ {b} : left'[c] = left[c]
  BY <1>1, <1>2 DEF UTypeOK
<1>5. VisitedIsListed'
  BY <1>1, <1>4
     DEF UInv, VisitedIsListed, LeadsToDirectory, AtWorkOn, Listed, File
<1>6. EndedWell'
  BY <1>4 DEF UInv, EndedWell
<1> QED
  BY <1>3, <1>5, <1>6
     DEF UInv, InDo, ReadTwiceAlike, BlobsAreTheirDigest, File

\* A file or the rest of the walk is missed: there is an error, so that
\* nothing is claimed of the build any more.
Misses(b) ==
  /\ upc[b] = "walk"
  /\ \E M \in SUBSET left[b] :
       /\ M # {}
       /\ left' = [left EXCEPT ![b] = @ \ M]
       /\ missed' = [missed EXCEPT ![b] = @ \cup M]
  /\ UNCHANGED <<ws, upc, path, digest, sent, manifest, blob, stored, made>>

LEMMA MissesKeeps ==
  ASSUME UInv, NEW b \in Builds, Misses(b)
  PROVE  UInv'
<1> USE DEF Misses
<1>1. PICK M \in SUBSET left[b] : /\ M # {}
                                  /\ left' = [left EXCEPT ![b] = @ \ M]
                                  /\ missed' = [missed EXCEPT ![b] = @ \cup M]
  OBVIOUS
<1>2. UTypeOK
  BY DEF UInv
<1>3. UTypeOK'
  BY <1>1, <1>2 DEF UTypeOK
<1>4. /\ missed'[b] # {}
      /\ \A c \in Builds \ {b} : missed'[c] = missed[c] /\ left'[c] = left[c]
  BY <1>1, <1>2 DEF UTypeOK
<1>5. VisitedIsListed'
  BY <1>4 DEF UInv, VisitedIsListed, LeadsToDirectory, AtWorkOn, Listed, File
<1>6. EndedWell'
  BY <1>4 DEF UInv, EndedWell
<1> QED
  BY <1>3, <1>5, <1>6
     DEF UInv, InDo, ReadTwiceAlike, BlobsAreTheirDigest, File

LEMMA HashFailsMisses ==
  ASSUME NEW b \in Builds, HashFails(b)
  PROVE  Misses(b)
<1>1. PICK f \in left[b] : /\ left' = [left EXCEPT ![b] = @ \ {f}]
                           /\ missed' = [missed EXCEPT ![b] = @ \cup {f}]
  BY DEF HashFails
<1> QED
  BY <1>1 DEF HashFails, Misses

LEMMA WalkFailsMisses ==
  ASSUME UInv, NEW b \in Builds, WalkFails(b)
  PROVE  Misses(b)
<1>1. left' = [left EXCEPT ![b] = left[b] \ left[b]]
  BY DEF WalkFails
<1> QED
  BY <1>1 DEF WalkFails, Misses

\* The file is read again and listed; a path to it that was listed before is
\* not counted on until the object is there.
LEMMA CopyKeeps ==
  ASSUME UInv, NEW b \in Builds, Copy(b)
  PROVE  UInv'
<1> USE UploaderAssumption DEF Copy, Sent
<1>1. /\ UTypeOK /\ path[b] \in Files /\ digest[b] \in Contents
      /\ File(b) \in Files /\ ws[b][File(b)] \in Contents
  BY DEF UInv, UTypeOK, InDo, File
<1>2. manifest' = [manifest EXCEPT ![b] = [manifest[b] EXCEPT ![File(b)] = digest[b]]]
  OBVIOUS
<1>3. [manifest[b] EXCEPT ![File(b)] = digest[b]] \in Listing
  BY <1>1 DEF UTypeOK, Listing
<1>4. UTypeOK'
  BY <1>1, <1>2, <1>3 DEF UTypeOK, Working
<1>5. /\ upc'[b] = "close" /\ sent'[b] = ws[b][File(b)] /\ File(b)' = File(b)
      /\ manifest'[b] = [manifest[b] EXCEPT ![File(b)] = digest[b]]
      /\ \A c \in Builds \ {b} : /\ upc'[c] = upc[c] /\ sent'[c] = sent[c]
                                 /\ manifest'[c] = manifest[c]
  BY <1>1, <1>2 DEF UTypeOK, File
<1>6. InDo'
  BY <1>1, <1>5 DEF UInv, InDo, UTypeOK, Listing, File
<1>7. ReadTwiceAlike'
  BY <1>1, <1>5 DEF UInv, ReadTwiceAlike, File
<1>8. VisitedIsListed'
  <2> SUFFICES ASSUME NEW c \in Builds, upc'[c] \in Working \cup {"exit0"},
                      missed'[c] = {}, NEW g \in Files \ left'[c],
                      ~LeadsToDirectory(c, g), ~AtWorkOn(c, g)'
               PROVE  Listed(c, g)'
    BY DEF VisitedIsListed, LeadsToDirectory
  <2>1. ~AtWorkOn(c, g) /\ upc[c] \in Working \cup {"exit0"}
    BY <1>5 DEF AtWorkOn, File, Working
  <2>2. Listed(c, g)
    BY <2>1 DEF UInv, VisitedIsListed
  <2>3. manifest'[c][Target[g]] = manifest[c][Target[g]]
    BY <1>1, <1>5 DEF UTypeOK, Listing, AtWorkOn, File
  <2> QED
    BY <2>2, <2>3 DEF Listed
<1>9. EndedWell'
  BY <1>5 DEF UInv, EndedWell
<1> QED
  BY <1>4, <1>6, <1>7, <1>8, <1>9 DEF UInv, BlobsAreTheirDigest

LEMMA CopyFailsKeeps ==
  ASSUME UInv, NEW b \in Builds, CopyFails(b)
  PROVE  UInv'
<1> USE DEF CopyFails, ReturnError, Return
<1>1. UTypeOK /\ path[b] \in Files
  BY DEF UInv, InDo
<1>2. UTypeOK'
  BY <1>1 DEF UTypeOK, Working
<1>3. /\ upc'[b] = "walk" /\ missed'[b] # {}
      /\ \A c \in Builds \ {b} : upc'[c] = upc[c] /\ missed'[c] = missed[c]
  BY <1>1 DEF UTypeOK
<1>4. VisitedIsListed'
  BY <1>3 DEF UInv, VisitedIsListed, LeadsToDirectory, AtWorkOn, Listed, File
<1>5. InDo' /\ ReadTwiceAlike' /\ EndedWell'
  BY <1>3 DEF UInv, InDo, ReadTwiceAlike, EndedWell, File
<1> QED
  BY <1>2, <1>4, <1>5 DEF UInv, BlobsAreTheirDigest

\* Do returns from its close with no error: the object is there, created just
\* now or before.
LEMMA ReturnKeeps ==
  ASSUME UInv, NEW b \in Builds, upc[b] = "close", Return(b),
         ObjectsStay, blob'[digest[b]] # None,
         blob' \in [Contents -> Contents \cup {None}],
         made' \in [Builds -> SUBSET Contents],
         BlobsAreTheirDigest',
         UNCHANGED <<ws, left, path, digest, sent, manifest, stored, missed>>
  PROVE  UInv'
<1> USE DEF Return
<1>1. UTypeOK'
  BY DEF UInv, UTypeOK, Working
<1>2. upc'[b] = "walk" /\ \A c \in Builds \ {b} : upc'[c] = upc[c]
  BY DEF UInv, UTypeOK
<1>3. VisitedIsListed'
  <2> SUFFICES ASSUME NEW c \in Builds, upc'[c] \in Working \cup {"exit0"},
                      missed'[c] = {}, NEW g \in Files \ left'[c],
                      ~LeadsToDirectory(c, g), ~AtWorkOn(c, g)'
               PROVE  Listed(c, g)'
    BY DEF VisitedIsListed, LeadsToDirectory
  <2>1. AtWorkOn(c, g) \/ Listed(c, g)
    BY <1>2 DEF UInv, VisitedIsListed, Working
  <2>2. CASE Listed(c, g)
    BY <2>2, ListedStays
  <2>3. CASE AtWorkOn(c, g)
    <3>1. c = b
      BY <2>3, <1>2 DEF AtWorkOn, File
    <3>2. digest[b] \in Contents /\ manifest[b][Target[g]] = digest[b]
      BY <2>3, <3>1 DEF UInv, InDo, AtWorkOn
    <3> QED
      BY <3>1, <3>2, UploaderAssumption DEF Listed
  <2> QED
    BY <2>1, <2>2, <2>3
<1>4. InDo' /\ ReadTwiceAlike' /\ EndedWell'
  BY <1>2 DEF UInv, InDo, ReadTwiceAlike, EndedWell, File
<1> QED
  BY <1>1, <1>3, <1>4 DEF UInv

LEMMA CloseKeeps ==
  ASSUME UInv, NEW b \in Builds, Close(b)
  PROVE  UInv' /\ ObjectsStay
<1>1. blob[digest[b]] = None /\ upc[b] = "close" /\ Store(b)
  BY DEF Close, MayCreate
<1>2. /\ ObjectsStay /\ blob'[digest[b]] # None
      /\ blob' \in [Contents -> Contents \cup {None}]
      /\ made' \in [Builds -> SUBSET Contents] /\ BlobsAreTheirDigest'
  BY <1>1, StoreCreates
<1> QED
  BY <1>1, <1>2, ReturnKeeps DEF Close

LEMMA CloseExistsKeeps ==
  ASSUME UInv, NEW b \in Builds, CloseExists(b)
  PROVE  UInv'
<1>1. /\ upc[b] = "close" /\ Return(b) /\ blob'[digest[b]] # None
      /\ UNCHANGED <<ws, left, path, digest, sent, manifest, blob, stored, missed, made>>
  BY DEF CloseExists, AlreadyExists
<1>2. ObjectsStay /\ BlobsAreTheirDigest'
  BY <1>1 DEF ObjectsStay, UInv, BlobsAreTheirDigest
<1> QED
  BY <1>1, <1>2, ReturnKeeps DEF UInv, UTypeOK

\* The object may have been created; the build knows of an error.
LEMMA CloseFailsKeeps ==
  ASSUME UInv, NEW b \in Builds, CloseFails(b)
  PROVE  UInv' /\ ObjectsStay
<1> USE DEF CloseFails, ReturnError, Return
<1>1. UTypeOK /\ path[b] \in Files
  BY DEF UInv, InDo
<1>2. /\ ObjectsStay
      /\ blob' \in [Contents -> Contents \cup {None}]
      /\ made' \in [Builds -> SUBSET Contents]
      /\ BlobsAreTheirDigest'
  <2>1. CASE UNCHANGED <<blob, made>>
    BY <2>1, <1>1 DEF ObjectsStay, UTypeOK, UInv, BlobsAreTheirDigest
  <2>2. CASE blob[digest[b]] = None /\ Store(b)
    BY <2>2, StoreCreates
  <2> QED
    BY <2>1, <2>2
<1>3. UTypeOK'
  BY <1>1, <1>2 DEF UTypeOK, Working
<1>4. /\ upc'[b] = "walk" /\ missed'[b] # {}
      /\ \A c \in Builds \ {b} : upc'[c] = upc[c] /\ missed'[c] = missed[c]
  BY <1>1 DEF UTypeOK
<1>5. VisitedIsListed'
  <2> SUFFICES ASSUME NEW c \in Builds, upc'[c] \in Working \cup {"exit0"},
                      missed'[c] = {}, NEW g \in Files \ left'[c],
                      ~LeadsToDirectory(c, g), ~AtWorkOn(c, g)'
               PROVE  Listed(c, g)'
    BY DEF VisitedIsListed, LeadsToDirectory
  <2>1. AtWorkOn(c, g)' <=> AtWorkOn(c, g)
    BY <1>4 DEF AtWorkOn, File
  <2>2. Listed(c, g)
    BY <2>1, <1>4 DEF UInv, VisitedIsListed
  <2> QED
    BY <2>2, <1>2, ListedStays
<1>6. InDo' /\ ReadTwiceAlike' /\ EndedWell'
  BY <1>4 DEF UInv, InDo, ReadTwiceAlike, EndedWell, File
<1> QED
  BY <1>2, <1>3, <1>5, <1>6 DEF UInv

\* A manifest object that exists is not written: no other build's is taken away.
LEMMA WriteManifestKeeps ==
  ASSUME UInv, NEW b \in Builds, WriteManifest(b)
  PROVE  UInv' /\ ManifestsStay
<1> USE UploaderAssumption DEF WriteManifest
<1>1. UTypeOK /\ upc[b] = "walk" /\ left[b] = {} /\ Location[b] \in Locations
  BY DEF UInv
<1>2. /\ ManifestsStay
      /\ stored' \in [Locations -> Listing \cup {None}]
      /\ upc'[b] = "exit0" => stored'[Location[b]] = manifest[b]
      /\ upc'[b] \in {"exit0", "exit1"}
      /\ upc' \in [Builds -> Working \cup {"exit0", "exit1", "killed"}]
      /\ \A c \in Builds \ {b} : upc'[c] = upc[c]
  <2>1. CASE stored[Location[b]] = None
    <3>1. /\ stored' = [stored EXCEPT ![Location[b]] = manifest[b]]
          /\ upc' = [upc EXCEPT ![b] = "exit0"]
      BY <2>1
    <3>2. /\ stored \in [Locations -> Listing \cup {None}]
          /\ manifest[b] \in Listing
      BY <1>1 DEF UTypeOK
    <3>3. ManifestsStay /\ stored' \in [Locations -> Listing \cup {None}]
      BY <2>1, <3>1, <3>2 DEF ManifestsStay
    <3> QED
      BY <1>1, <3>1, <3>2, <3>3 DEF UTypeOK, Working
  <2>2. CASE stored[Location[b]] # None
    BY <2>2, <1>1 DEF UTypeOK, ManifestsStay, Working
  <2> QED
    BY <2>1, <2>2
<1>3. UTypeOK'
  BY <1>1, <1>2 DEF UTypeOK
<1>4. EndedWell'
  <2> SUFFICES ASSUME NEW c \in Builds, upc'[c] = "exit0"
               PROVE  left[c] = {} /\ stored'[Location[c]] = manifest[c]
    BY DEF EndedWell
  <2>1. CASE c = b
    BY <2>1, <1>1, <1>2
  <2>2. CASE c # b
    <3>1. left[c] = {} /\ stored[Location[c]] = manifest[c]
      BY <2>2, <1>2 DEF UInv, EndedWell
    <3>2. manifest[c] # None /\ Location[c] \in Locations
      BY <1>1 DEF UTypeOK
    <3> QED
      BY <3>1, <3>2, <1>2 DEF ManifestsStay
  <2> QED
    BY <2>1, <2>2
<1>5. VisitedIsListed'
  BY <1>1, <1>2 DEF UInv, VisitedIsListed, LeadsToDirectory, AtWorkOn, Listed, File, Working
<1>6. InDo' /\ ReadTwiceAlike'
  BY <1>1, <1>2 DEF UInv, InDo, ReadTwiceAlike, File
<1> QED
  BY <1>2, <1>3, <1>4, <1>5, <1>6 DEF UInv, BlobsAreTheirDigest

\* The process ends with an error, before or after the manifest was created.
LEMMA WriteManifestFailsKeeps ==
  ASSUME UInv, NEW b \in Builds, WriteManifestFails(b)
  PROVE  UInv' /\ ManifestsStay
<1> USE UploaderAssumption DEF WriteManifestFails
<1>1. UTypeOK /\ Location[b] \in Locations
  BY DEF UInv
<1>2. /\ ManifestsStay
      /\ stored' \in [Locations -> Listing \cup {None}]
  BY <1>1 DEF UTypeOK, ManifestsStay
<1>3. upc'[b] = "exit1" /\ \A c \in Builds \ {b} : upc'[c] = upc[c]
  BY <1>1 DEF UTypeOK
<1>4. UTypeOK'
  BY <1>1, <1>2 DEF UTypeOK, Working
<1>5. EndedWell'
  <2> SUFFICES ASSUME NEW c \in Builds, upc'[c] = "exit0"
               PROVE  left[c] = {} /\ stored'[Location[c]] = manifest[c]
    BY DEF EndedWell
  <2>1. left[c] = {} /\ stored[Location[c]] = manifest[c]
    BY <1>3 DEF UInv, EndedWell
  <2>2. manifest[c] # None /\ Location[c] \in Locations
    BY <1>1 DEF UTypeOK
  <2> QED
    BY <2>1, <2>2, <1>2 DEF ManifestsStay
<1>6. VisitedIsListed'
  BY <1>3 DEF UInv, VisitedIsListed, LeadsToDirectory, AtWorkOn, Listed, File, Working
<1>7. InDo' /\ ReadTwiceAlike'
  BY <1>3 DEF UInv, InDo, ReadTwiceAlike, File
<1> QED
  BY <1>2, <1>4, <1>5, <1>6, <1>7 DEF UInv, BlobsAreTheirDigest

\* Of a build that was killed nothing is claimed.
LEMMA KilledKeeps ==
  ASSUME UInv, NEW b \in Builds, Killed(b)
  PROVE  UInv'
<1> USE DEF Killed
<1>1. UTypeOK'
  BY DEF UInv, UTypeOK, Working
<1>2. upc'[b] = "killed" /\ \A c \in Builds \ {b} : upc'[c] = upc[c]
  BY DEF UInv, UTypeOK
<1>3. VisitedIsListed'
  BY <1>2 DEF UInv, VisitedIsListed, LeadsToDirectory, AtWorkOn, Listed, File, Working
<1>4. InDo' /\ ReadTwiceAlike' /\ EndedWell'
  BY <1>2 DEF UInv, InDo, ReadTwiceAlike, EndedWell, File
<1> QED
  BY <1>1, <1>3, <1>4 DEF UInv, BlobsAreTheirDigest

\* Only builds of Edits see their files change.
LEMMA EditKeeps ==
  ASSUME UInv, NEW b \in Builds, Edit(b)
  PROVE  UInv'
<1> USE DEF Edit
<1>1. PICK f \in Files, x \in Contents :
             ws[b][f] # Directory /\ ws' = [ws EXCEPT ![b][f] = x]
  OBVIOUS
<1>2. UTypeOK /\ UTypeOK'
  BY <1>1 DEF UInv, UTypeOK
<1> DEFINE old == ws[b]
<1> HIDE DEF old
<1>6. /\ ws'[b] = [old EXCEPT ![f] = x] /\ old \in [Files -> Contents \cup {Directory}]
      /\ old[f] # Directory /\ x # Directory
      /\ \A c \in Builds \ {b} : ws'[c] = ws[c]
  BY <1>1, <1>2, UploaderAssumption DEF UTypeOK, old
<1>7. \A c \in Builds, g \in Files : ws'[c][g] = Directory <=> ws[c][g] = Directory
  BY <1>6 DEF old
<1>8. InDo'
  BY <1>7, UploaderAssumption DEF UInv, InDo, File
<1>3. \A c \in Builds \ Edits : ws'[c] = ws[c]
  BY <1>1 DEF UInv, UTypeOK
<1>4. ReadTwiceAlike'
  BY <1>3 DEF UInv, ReadTwiceAlike, File
<1>5. VisitedIsListed'
  BY <1>7, UploaderAssumption
     DEF UInv, VisitedIsListed, LeadsToDirectory, AtWorkOn, Listed, File
<1> QED
  BY <1>2, <1>4, <1>5, <1>8 DEF UInv, EndedWell, BlobsAreTheirDigest

-----------------------------------------------------------------------------
(* Theorems.                                                                *)

LEMMA UInvNext ==
  ASSUME UInv, [UNext]_uvars
  PROVE  UInv' /\ ObjectsStay /\ ManifestsStay
<1>1. CASE UNCHANGED uvars
  <2>1. ObjectsStay /\ ManifestsStay
    BY <1>1 DEF uvars, ObjectsStay, ManifestsStay
  <2>2. UTypeOK' /\ InDo' /\ ReadTwiceAlike' /\ BlobsAreTheirDigest'
    BY <1>1 DEF uvars, UInv, UTypeOK, InDo, ReadTwiceAlike, BlobsAreTheirDigest, File
  <2>3. VisitedIsListed' /\ EndedWell'
    BY <1>1 DEF uvars, UInv, VisitedIsListed, EndedWell, LeadsToDirectory,
                AtWorkOn, Listed, File
  <2> QED
    BY <2>1, <2>2, <2>3 DEF UInv
<1>2. ASSUME NEW b \in Builds,
             Hash(b) \/ PassOverDirectory(b) \/ HashFails(b) \/ WalkFails(b)
             \/ Copy(b) \/ CopyFails(b) \/ CloseExists(b) \/ Killed(b) \/ Edit(b)
      PROVE  UInv' /\ ObjectsStay /\ ManifestsStay
  <2>1. UNCHANGED <<blob, stored>>
    BY <1>2 DEF Hash, PassOverDirectory, HashFails, WalkFails, Copy, CopyFails,
                CloseExists, Killed, Edit
  <2>2. UInv'
    BY <1>2, HashKeeps, PassOverDirectoryKeeps, HashFailsMisses, WalkFailsMisses, MissesKeeps,
       CopyKeeps, CopyFailsKeeps, CloseExistsKeeps, KilledKeeps, EditKeeps
  <2> QED
    BY <2>1, <2>2 DEF ObjectsStay, ManifestsStay
<1>3. ASSUME NEW b \in Builds, Close(b) \/ CloseFails(b)
      PROVE  UInv' /\ ObjectsStay /\ ManifestsStay
  <2>1. UNCHANGED stored
    BY <1>3 DEF Close, CloseFails
  <2> QED
    BY <1>3, <2>1, CloseKeeps, CloseFailsKeeps DEF ManifestsStay
<1>4. ASSUME NEW b \in Builds, WriteManifest(b) \/ WriteManifestFails(b)
      PROVE  UInv' /\ ObjectsStay /\ ManifestsStay
  <2>1. UNCHANGED blob
    BY <1>4 DEF WriteManifest, WriteManifestFails
  <2> QED
    BY <1>4, <2>1, WriteManifestKeeps, WriteManifestFailsKeeps DEF ObjectsStay
<1> QED
  BY <1>1, <1>2, <1>3, <1>4 DEF UNext

THEOREM UploaderInvariant == USpec => []UInv
BY UInvInit, UInvNext, PTL DEF USpec

\* Each object has the content its name is the SHA-1 of (BlobsAreTheirDigest),
\* with any number of builds at work in one bucket: a build that finds an
\* object may rely on it, whoever made it.
THEOREM UploaderBlobsAreTheirDigest == USpec => []BlobsAreTheirDigest
<1>1. UInv => BlobsAreTheirDigest
  BY DEF UInv
<1> QED
  BY <1>1, UploaderInvariant, PTL

\* No object and no manifest changes once it exists (ObjectsNeverChange).
THEOREM UploaderObjectsNeverChange == USpec => ObjectsNeverChange
<1>1. UInv /\ [UNext]_uvars =>
        [ObjectsStay /\ ManifestsStay]_uvars
  BY UInvNext
<1> QED
  BY <1>1, UploaderInvariant, PTL
     DEF USpec, ObjectsNeverChange, ObjectsStay, ManifestsStay

\* What a build leaves that ended well and met no error is complete
\* (CleanUploadIsComplete): all its files are listed, by whatever paths and
\* links they are reached, and all objects listed exist; only what lies in a
\* directory a link leads to is not looked for.
THEOREM UploaderCleanUploadIsComplete == USpec => []CleanUploadIsComplete
<1>1. UInv => CleanUploadIsComplete
  BY DEF UInv, EndedWell, VisitedIsListed, LeadsToDirectory, Listed, AtWorkOn, CleanUploadIsComplete
<1> QED
  BY <1>1, UploaderInvariant, PTL
=============================================================================
