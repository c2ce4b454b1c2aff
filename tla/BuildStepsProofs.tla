-------------------------- MODULE BuildStepsProofs --------------------------
(***************************************************************************)
(* Theorems about BuildSteps: for every environment of a step, every        *)
(* configuration left behind, any project roots and any number of steps.    *)
(***************************************************************************)
EXTENDS BuildSteps, TLAPS, WellFoundedInduction

-----------------------------------------------------------------------------
(* kubectl: what its script configures.                                     *)

\* Before the credentials are fetched cluster and place are known; kubectl is
\* reached by way of its credentials only, and nothing changes gcloud's
\* configuration while the script runs.
CredentialsAreFetched ==
  /\ kpc \in {"credentials", "kubectl"} => Target.place # ""
  /\ kpc = "kubectl" => kubeconfig = Target

LEMMA ScriptKeepsCredentials ==
  ASSUME CredentialsAreFetched, KStep
  PROVE  CredentialsAreFetched'
<1>1. CASE CheckSettings
  BY <1>1 DEF CredentialsAreFetched, CheckSettings, Target, Setting
<1>2. CASE GetCredentials
  BY <1>2 DEF CredentialsAreFetched, GetCredentials, Target, Setting
<1>3. CASE GetCredentialsFails \/ RunKubectl
  BY <1>3 DEF CredentialsAreFetched, GetCredentialsFails, RunKubectl
<1> QED
  BY <1>1, <1>2, <1>3 DEF KStep

LEMMA BuildKeepsCredentials ==
  ASSUME CredentialsAreFetched, [BNext]_bvars
  PROVE  CredentialsAreFetched'
<1>1. CASE KubectlStep
  BY <1>1 DEF CredentialsAreFetched, KubectlStep, KStart
<1>2. CASE OtherStep
  BY <1>2 DEF CredentialsAreFetched, OtherStep, BetweenSteps
<1>3. CASE KStep
  BY <1>3, ScriptKeepsCredentials
<1>4. CASE UNCHANGED kvars
  BY <1>4 DEF kvars, CredentialsAreFetched, Target, Setting
<1> QED
  BY <1>1, <1>2, <1>3, <1>4 DEF BNext, GoStep, Continue, bvars

\* kubectl talks to the cluster of its own step (KubectlTalksToItsCluster),
\* whatever steps before it configured.
THEOREM StepsKubectlTalksToItsCluster == BSpec => []KubectlTalksToItsCluster
<1>1. BInit => CredentialsAreFetched
  BY DEF BInit, KInit, CredentialsAreFetched
<1>2. CredentialsAreFetched /\ [BNext]_bvars => CredentialsAreFetched'
  BY BuildKeepsCredentials
<1>3. CredentialsAreFetched => KubectlTalksToItsCluster
  <2> SUFFICES ASSUME CredentialsAreFetched, kpc = "kubectl"
               PROVE  KubectlTalksToItsCluster
    BY DEF KubectlTalksToItsCluster
  <2>1. Target.place # "" /\ kubeconfig = Target
    BY DEF CredentialsAreFetched
  <2>2. Target.cluster = Setting("cluster") /\ Target.project = Setting("project")
    BY DEF Target
  <2>3. Target.place = IF Setting("region") # "" THEN Setting("region")
                       ELSE Setting("zone")
    BY DEF Target
  <2> QED
    BY <2>1, <2>2, <2>3 DEF KubectlTalksToItsCluster, Setting
<1> QED
  BY <1>1, <1>2, <1>3, PTL DEF BSpec

-----------------------------------------------------------------------------
(* go: where a path leads to, in a workspace that steps before have laid out. *)

\* Induction over the numbers up to N, in sets of them.
LEMMA CountingUp ==
  ASSUME NEW N \in Nat, NEW T, 0 \in T,
         \A n \in 1 .. N : n - 1 \in T => n \in T
  PROVE  0 .. N \subseteq T
<1> DEFINE Missed == (0 .. N) \ T
<1> SUFFICES ASSUME Missed # {} PROVE FALSE
  OBVIOUS
<1>1. IsWellFoundedOn(OpToRel(<, Nat), Nat)
  BY NatLessThanWellFounded
<1>2. Missed \subseteq Nat
  OBVIOUS
<1> HIDE DEF Missed
<1>3. PICK m \in Missed : \A k \in Missed : ~(<<k, m>> \in OpToRel(<, Nat))
  BY <1>1, <1>2, WFMin
<1>4. \A k \in Missed : ~(k < m)
  BY <1>2, <1>3 DEF OpToRel
<1> USE DEF Missed
<1>5. m \in 1 .. N /\ m - 1 \in 0 .. N /\ m - 1 < m
  OBVIOUS
<1> QED
  BY <1>4, <1>5

\* A path of which no proper beginning is a link leads to itself, or to the
\* workspace if it is a link.
LEMMA LeadsThere ==
  ASSUME NEW S, NEW p \in Seq(S), p # <<>>,
         \A n \in 1 .. Len(p) - 1 : SubSeq(p, 1, n) \notin links
  PROVE  Resolve(p) = IF p \in links THEN <<>> ELSE p
<1> DEFINE N == Len(p)
           Body(g) == [n \in 0 .. N |-> IF n = 0 THEN <<>>
                                        ELSE LET next == Append(g[n - 1], p[n])
                                             IN IF next \in links THEN <<>> ELSE next]
           at == CHOOSE g : g = Body(g)
           End == IF p \in links THEN <<>> ELSE p
           walk == [n \in 0 .. N |-> IF n = N THEN End ELSE SubSeq(p, 1, n)]
<1>1. Resolve(p) = at[N]
  BY DEF Resolve
<1>2. /\ N \in Nat /\ N > 0
      /\ SubSeq(p, 1, N) = p /\ SubSeq(p, 1, 0) = <<>>
      /\ \A n \in 1 .. N - 1 : SubSeq(p, 1, n) \notin links
  OBVIOUS
<1>3. \A n \in 1 .. N : Append(SubSeq(p, 1, n - 1), p[n]) = SubSeq(p, 1, n)
  OBVIOUS
<1> HIDE DEF N
<1>4. ASSUME NEW n \in 1 .. N
      PROVE  /\ n - 1 \in 0 .. N /\ n \in 0 .. N /\ n # 0
             /\ walk[n - 1] = SubSeq(p, 1, n - 1)
             /\ walk[n] = IF SubSeq(p, 1, n) \in links THEN <<>> ELSE SubSeq(p, 1, n)
  <2>1. n - 1 \in 0 .. N /\ n \in 0 .. N /\ n - 1 # N /\ n # 0
    BY <1>2
  <2>2. walk[n - 1] = SubSeq(p, 1, n - 1)
    BY <2>1
  <2>3. CASE n = N
    BY <2>1, <2>2, <2>3, <1>2
  <2>4. CASE n # N
    <3>1. n \in 1 .. N - 1
      BY <2>4, <1>2
    <3> QED
      BY <3>1, <2>1, <2>2, <2>4, <1>2
  <2> QED
    BY <2>3, <2>4
<1>5. 0 \in 0 .. N /\ walk[0] = <<>> /\ walk[N] = End
  BY <1>2
<1>6. walk = Body(walk)
  <2>1. walk = [n \in 0 .. N |-> walk[n]]
    OBVIOUS
  <2> HIDE DEF walk
  <2>2. ASSUME NEW n \in 0 .. N
        PROVE  walk[n] = Body(walk)[n]
    <3>1. CASE n = 0
      BY <3>1, <1>5
    <3>2. CASE n # 0
      <4>1. n \in 1 .. N
        BY <3>2, <1>2
      <4> QED
        BY <3>2, <4>1, <1>3, <1>4
    <3> QED
      BY <3>1, <3>2
  <2> QED
    BY <2>1, <2>2
<1>7. at = Body(at)
  BY <1>6
<1> DEFINE T == {n \in 0 .. N : at[n] = walk[n]}
<1>8. 0 .. N \subseteq T
  <2> HIDE DEF walk, at
  <2>1. 0 \in T
    BY <1>5, <1>7
  <2>2. ASSUME NEW n \in 1 .. N, n - 1 \in T
        PROVE  n \in T
    <3>1. at[n] = LET next == Append(at[n - 1], p[n])
                  IN IF next \in links THEN <<>> ELSE next
      BY <1>7, <1>4
    <3>2. at[n - 1] = SubSeq(p, 1, n - 1)
      BY <2>2, <1>4
    <3> QED
      BY <3>1, <3>2, <1>3, <1>4
  <2> HIDE DEF T
  <2> QED
    BY <1>2, <2>1, <2>2, CountingUp
<1>9. at[N] = End
  <2> HIDE DEF at, End, walk
  <2>1. N \in 0 .. N
    BY <1>2
  <2> QED
    BY <2>1, <1>5, <1>8
<1> QED
  BY <1>1, <1>9

Names == STRING \cup {"gopath", "src"}

\* The shadow workspace of a project root.
ShadowOf(r) == <<"gopath", "src">> \o r

LEMMA ShadowIs ==
  ASSUME NEW r \in Seq(STRING)
  PROVE  /\ ShadowOf(r) \in Seq(Names)
         /\ Len(ShadowOf(r)) = Len(r) + 2
         /\ ShadowOf(r)[1] = "gopath" /\ ShadowOf(r)[2] = "src"
         /\ \A i \in 1 .. Len(r) : ShadowOf(r)[i + 2] = r[i]
<1>1. r \in Seq(Names) /\ <<"gopath", "src">> \in Seq(Names)
  BY DEF Names
<1> QED
  BY <1>1 DEF ShadowOf

\* A shadow workspace lies inside another only if its root does.
LEMMA BeginningsAreNoShadows ==
  ASSUME NEW r \in Seq(STRING), NEW s \in Seq(STRING),
         NEW n \in 1 .. Len(ShadowOf(r)) - 1, SubSeq(ShadowOf(r), 1, n) = ShadowOf(s)
  PROVE  IsStrictPrefix(s, r)
<1>1. n = Len(s) + 2 /\ Len(s) < Len(r)
  BY ShadowIs
<1>2. \A i \in 1 .. Len(s) : s[i] = r[i]
  <2> SUFFICES ASSUME NEW i \in 1 .. Len(s) PROVE s[i] = r[i]
    OBVIOUS
  <2>1. i + 2 \in 1 .. n /\ i \in 1 .. Len(r)
    BY <1>1
  <2>2. SubSeq(ShadowOf(r), 1, n)[i + 2] = ShadowOf(r)[i + 2]
    BY <2>1, ShadowIs
  <2> QED
    BY <2>1, <2>2, ShadowIs
<1>3. SubSeq(s, 1, Len(s)) = SubSeq(r, 1, Len(s))
  BY <1>1, <1>2
<1> QED
  BY <1>1, <1>3 DEF IsStrictPrefix, IsPrefix

\* What variables hold.
RootsAreGiven ==
  /\ comment \in Comments /\ source \in Sources
  /\ root \in Roots \cup {NoPath} /\ shadowed \subseteq Roots

\* What was made for the shadow workspaces is on the way to them, and all
\* links are shadow workspaces.
AsLaidOut ==
  /\ links \subseteq {ShadowOf(r) : r \in shadowed}
  /\ \A p \in made : \E r \in shadowed : \E n \in 1 .. Len(ShadowOf(r)) - 1 :
       p = SubSeq(ShadowOf(r), 1, n)

\* How far the script has come with its own.
OnItsWay ==
  /\ cwd = <<>>
  /\ gpc \in {"mkdir", "link", "cd"} => root \in shadowed
  /\ gpc \in {"mkdir", "link"} => gopath = NoPath
  /\ gpc = "cd" => Shadow \in links /\ gopath = ShadowPath
  /\ gpc = "go" => /\ gopath = ShadowPath => Shadow \in links
                   /\ gopath = <<>> => <<"src">> \in source

GoInv == RootsAreGiven /\ (Unnested /\ Unoccupied => AsLaidOut /\ OnItsWay)

LEMMA ShadowsBeginElsewhere ==
  ASSUME RootsAreGiven, Unnested, NEW r \in shadowed,
         links \subseteq {ShadowOf(q) : q \in shadowed}
  PROVE  \A n \in 1 .. Len(ShadowOf(r)) - 1 : SubSeq(ShadowOf(r), 1, n) \notin links
<1> SUFFICES ASSUME NEW n \in 1 .. Len(ShadowOf(r)) - 1,
                    SubSeq(ShadowOf(r), 1, n) \in links
             PROVE  FALSE
  OBVIOUS
<1>1. PICK q \in shadowed : SubSeq(ShadowOf(r), 1, n) = ShadowOf(q)
  OBVIOUS
<1>2. r \in Seq(STRING) /\ q \in Seq(STRING)
  BY GoAssumption DEF RootsAreGiven
<1>3. IsStrictPrefix(q, r)
  BY <1>1, <1>2, BeginningsAreNoShadows
<1> QED
  BY <1>3 DEF Unnested

\* In a workspace laid out like this the way to a shadow workspace, if its
\* root is asked for, passes no link.
LEMMA WayToShadow ==
  ASSUME RootsAreGiven, Unnested, AsLaidOut, NEW r \in shadowed
  PROVE  /\ \A n \in 1 .. Len(ShadowOf(r)) - 1 :
              Resolve(SubSeq(ShadowOf(r), 1, n)) = SubSeq(ShadowOf(r), 1, n)
         /\ Resolve(ShadowOf(r)) = IF ShadowOf(r) \in links THEN <<>> ELSE ShadowOf(r)
<1> DEFINE w == ShadowOf(r)
<1>1. r \in Seq(STRING)
  BY GoAssumption DEF RootsAreGiven
<1>2. w \in Seq(Names) /\ w # <<>> /\ Len(w) \in Nat
  BY <1>1, ShadowIs
<1>3. \A n \in 1 .. Len(w) - 1 : SubSeq(w, 1, n) \notin links
  BY ShadowsBeginElsewhere DEF AsLaidOut
<1> HIDE DEF w
<1>4. Resolve(w) = IF w \in links THEN <<>> ELSE w
  BY <1>2, <1>3, LeadsThere
<1>5. ASSUME NEW n \in 1 .. Len(w) - 1
      PROVE  Resolve(SubSeq(w, 1, n)) = SubSeq(w, 1, n)
  <2> DEFINE v == SubSeq(w, 1, n)
  <2>1. v \in Seq(Names) /\ v # <<>> /\ Len(v) = n /\ n \in Nat
    BY <1>2
  <2>2. \A k \in 1 .. n - 1 : SubSeq(v, 1, k) = SubSeq(w, 1, k) /\ k \in 1 .. Len(w) - 1
    BY <1>2
  <2>3. \A k \in 1 .. Len(v) - 1 : SubSeq(v, 1, k) \notin links
    BY <2>1, <2>2, <1>3
  <2>4. v \notin links
    BY <1>3
  <2> HIDE DEF v
  <2>5. Resolve(v) = v
    BY <2>1, <2>3, <2>4, LeadsThere
  <2> QED
    BY <2>5 DEF v
<1> QED
  BY <1>4, <1>5 DEF w

\* A src directory that is found is the source's own.
LEMMA SrcIsTheSources ==
  ASSUME RootsAreGiven, AsLaidOut, There(<<"src">>)
  PROVE  <<"src">> \in source
<1> DEFINE p == <<"src">>
<1>1. p \in Seq(Names) /\ p # <<>> /\ Len(p) = 1 /\ p[1] # "gopath"
  BY DEF Names
<1>2. ASSUME NEW r \in shadowed
      PROVE  r \in Seq(STRING)
  BY GoAssumption DEF RootsAreGiven
<1> HIDE DEF p
<1>3. p \notin links
  <2> SUFFICES ASSUME NEW r \in shadowed, p = ShadowOf(r) PROVE FALSE
    BY DEF AsLaidOut
  <2> QED
    BY <1>1, <1>2, ShadowIs
<1>4. p \notin made
  <2> SUFFICES ASSUME NEW r \in shadowed, NEW n \in 1 .. Len(ShadowOf(r)) - 1,
                      p = SubSeq(ShadowOf(r), 1, n)
               PROVE  FALSE
    BY DEF AsLaidOut
  <2>1. ShadowOf(r) \in Seq(Names) /\ ShadowOf(r)[1] = "gopath"
    BY <1>2, ShadowIs
  <2> QED
    BY <1>1, <2>1
<1>5. Resolve(p) = p
  <2>1. \A n \in 1 .. Len(p) - 1 : SubSeq(p, 1, n) \notin links
    BY <1>1
  <2> QED
    BY <1>1, <1>3, <2>1, LeadsThere
<1> QED
  BY <1>1, <1>4, <1>5 DEF There, p

\* As long as roots do not lie inside one another, and the source has nothing in
\* their place, the link that a step makes or finds is the one it asks for.
LEMMA LinkIsThere ==
  ASSUME RootsAreGiven, Unnested, Unoccupied, AsLaidOut, root \in shadowed, LinkShadow
  PROVE  links' = links \cup {Shadow}
<1>1. root \in Seq(STRING) /\ Shadow = ShadowOf(root)
  BY GoAssumption DEF RootsAreGiven, Shadow, ShadowOf
<1> DEFINE w == ShadowOf(root)
           m == Len(w) - 1
<1>2. /\ w \in Seq(Names) /\ w # <<>> /\ w[1] = "gopath"
      /\ Len(w) \in Nat /\ m \in 1 .. m /\ Len(w) = m + 1
  BY <1>1, ShadowIs
<1>3. /\ Resolve(SubSeq(w, 1, m)) = SubSeq(w, 1, m)
      /\ Resolve(w) = IF w \in links THEN <<>> ELSE w
  BY <1>2, WayToShadow
<1> HIDE DEF w, m
<1>4. CASE There(Shadow)
  <2> SUFFICES ASSUME w \notin links PROVE FALSE
    BY <1>1, <1>4 DEF LinkShadow, w
  <2>1. w \in source \cup made
    BY <1>1, <1>2, <1>3, <1>4 DEF There, w
  <2>2. w \notin source
    BY DEF Unoccupied, w, ShadowOf
  <2>3. PICK r \in shadowed : \E n \in 1 .. Len(ShadowOf(r)) - 1 :
                                 w = SubSeq(ShadowOf(r), 1, n)
    BY <2>1, <2>2 DEF AsLaidOut
  <2>4. r \in Seq(STRING)
    BY GoAssumption DEF RootsAreGiven
  <2>5. IsStrictPrefix(root, r)
    BY <1>1, <2>3, <2>4, BeginningsAreNoShadows DEF w
  <2> QED
    BY <2>5 DEF Unnested
<1>5. CASE ~There(Shadow)
  <2>1. links' = links \cup {Append(Resolve(Front(w)), Last(w))}
    BY <1>1, <1>5 DEF LinkShadow, w
  <2>2. Front(w) = SubSeq(w, 1, m) /\ Last(w) = w[m + 1]
    BY <1>2 DEF Front, Last, m
  <2>3. Append(SubSeq(w, 1, m), w[m + 1]) = w
    BY <1>2
  <2> QED
    BY <1>1, <1>3, <2>1, <2>2, <2>3 DEF w
<1> QED
  BY <1>4, <1>5

LEMMA GoStepKeepsGoInv ==
  ASSUME GoInv, GStart
  PROVE  GoInv'
<1>1. RootsAreGiven'
  BY DEF GoInv, RootsAreGiven, GStart
<1>2. ASSUME Unnested', Unoccupied' PROVE AsLaidOut' /\ OnItsWay'
  <2>1. Unnested /\ Unoccupied
    BY <1>2 DEF GStart, Unnested, Unoccupied
  <2> QED
    BY <2>1 DEF GoInv, GStart, AsLaidOut, OnItsWay
<1> QED
  BY <1>1, <1>2 DEF GoInv

LEMMA SameRootsSameNesting ==
  ASSUME shadowed \subseteq shadowed', source' = source, Unnested', Unoccupied'
  PROVE  Unnested /\ Unoccupied
BY DEF Unnested, Unoccupied

\* What was laid out stays so while roots are added.
LEMMA MoreRoots ==
  ASSUME AsLaidOut, shadowed \subseteq shadowed', UNCHANGED <<made, links>>
  PROVE  AsLaidOut'
<1>1. links' \subseteq {ShadowOf(r) : r \in shadowed'}
  BY DEF AsLaidOut
<1>2. \A p \in made' : \E r \in shadowed' : \E n \in 1 .. Len(ShadowOf(r)) - 1 :
        p = SubSeq(ShadowOf(r), 1, n)
  BY DEF AsLaidOut
<1> QED
  BY <1>1, <1>2 DEF AsLaidOut, ShadowOf

LEMMA ScriptKeepsRoots ==
  ASSUME RootsAreGiven, GStep
  PROVE  RootsAreGiven' /\ shadowed \subseteq shadowed' /\ source' = source
<1>1. CASE GivenRoot
  BY <1>1 DEF GivenRoot, MakeShadow, RootsAreGiven
<1>2. CASE ImportComment
  BY <1>2, GoAssumption DEF ImportComment, MakeShadow, RootsAreGiven
<1>3. CASE UNCHANGED <<root, comment, source, shadowed>>
  BY <1>3 DEF RootsAreGiven
<1> QED
  BY <1>1, <1>2, <1>3
  DEF GStep, GivenGopath, SrcDirectory, NoImportComment, MakeLinkDir, Link,
      EnterShadow, ShadowFails, RunGo

LEMMA ScriptKeepsLayout ==
  ASSUME RootsAreGiven, Unnested, Unoccupied, AsLaidOut, OnItsWay, GStep
  PROVE  AsLaidOut'
<1>1. CASE UNCHANGED <<made, links>>
  BY <1>1, ScriptKeepsRoots, MoreRoots
<1>2. CASE MakeLinkDir
  <2>1. root \in shadowed /\ shadowed' = shadowed /\ links' = links
    BY <1>2 DEF MakeLinkDir, OnItsWay
  <2>2. root \in Seq(STRING) /\ Shadow = ShadowOf(root)
    BY <2>1, GoAssumption DEF RootsAreGiven, Shadow, ShadowOf
  <2> DEFINE w == ShadowOf(root)
             m == Len(w) - 1
  <2>3. w \in Seq(Names) /\ Len(w) \in Nat /\ m \in Nat /\ Len(w) = m + 1
    BY <2>2, ShadowIs
  <2>4. \A n \in 1 .. m : Resolve(SubSeq(w, 1, n)) = SubSeq(w, 1, n)
    BY <2>1, WayToShadow
  <2> HIDE DEF w
  <2>5. Prefixes(Front(w)) = {SubSeq(Front(w), 1, n) : n \in 0 .. m}
    <3>1. Len(Front(w)) = m
      BY <2>3 DEF Front
    <3> QED
      BY <3>1 DEF Prefixes
  <2>6. \A n \in 0 .. m : SubSeq(Front(w), 1, n) = SubSeq(w, 1, n)
    BY <2>3 DEF Front
  <2>7. SubSeq(w, 1, 0) = <<>>
    BY <2>3
  <2>8. ASSUME NEW p \in made' \ made
        PROVE  \E n \in 1 .. m : p = SubSeq(w, 1, n)
    <3>1. PICK n \in 0 .. m : SubSeq(w, 1, n) # <<>> /\ p = Resolve(SubSeq(w, 1, n))
      BY <1>2, <2>2, <2>5, <2>6 DEF MakeLinkDir, w
    <3>2. n \in 1 .. m
      BY <3>1, <2>7, <2>3
    <3> QED
      BY <3>1, <3>2, <2>4
  <2>9. \A p \in made' : \E r \in shadowed : \E n \in 1 .. Len(ShadowOf(r)) - 1 :
          p = SubSeq(ShadowOf(r), 1, n)
    BY <2>1, <2>8 DEF AsLaidOut, w
  <2> QED
    BY <2>1, <2>9 DEF AsLaidOut, ShadowOf
<1>3. CASE Link
  <2>1. root \in shadowed /\ shadowed' = shadowed /\ made' = made /\ LinkShadow
    BY <1>3 DEF Link, OnItsWay
  <2>2. links' = links \cup {Shadow}
    BY <2>1, LinkIsThere
  <2> QED
    BY <2>1, <2>2 DEF AsLaidOut, ShadowOf, Shadow
<1> QED
  BY <1>1, <1>2, <1>3
  DEF GStep, GivenGopath, GivenRoot, SrcDirectory, ImportComment, MakeShadow,
      NoImportComment, EnterShadow, ShadowFails, RunGo

LEMMA ScriptStaysOnItsWay ==
  ASSUME RootsAreGiven, Unnested, Unoccupied, AsLaidOut, OnItsWay, GStep
  PROVE  OnItsWay'
<1>1. CASE GivenGopath
  BY <1>1 DEF GivenGopath, OnItsWay, UserPath, ShadowPath
<1>2. CASE GivenRoot
  BY <1>2 DEF GivenRoot, MakeShadow, OnItsWay
<1>3. CASE ImportComment
  BY <1>3 DEF ImportComment, MakeShadow, NothingGiven, OnItsWay
<1>4. CASE SrcDirectory
  BY <1>4, SrcIsTheSources DEF SrcDirectory, OnItsWay, ShadowPath
<1>5. CASE NoImportComment
  BY <1>5 DEF NoImportComment, OnItsWay
<1>6. CASE MakeLinkDir
  BY <1>6 DEF MakeLinkDir, OnItsWay
<1>7. CASE Link
  <2>1. links' = links \cup {Shadow}
    BY <1>7, LinkIsThere DEF Link, OnItsWay
  <2> QED
    BY <1>7, <2>1 DEF Link, OnItsWay, Shadow
<1>8. CASE EnterShadow
  <2>1. root \in shadowed /\ Shadow \in links /\ gopath = ShadowPath
    BY <1>8 DEF EnterShadow, OnItsWay
  <2>2. Resolve(Shadow) = <<>>
    BY <2>1, WayToShadow DEF Shadow, ShadowOf
  <2> QED
    BY <1>8, <2>1, <2>2 DEF EnterShadow, OnItsWay, Shadow, ShadowPath
<1>9. CASE ShadowFails
  <2>1. CASE gpc = "cd"
    BY <1>9, <2>1 DEF ShadowFails, OnItsWay, Shadow, ShadowPath
  <2>2. CASE gpc \in {"mkdir", "link"}
    BY <1>9, <2>2 DEF ShadowFails, OnItsWay, NoPath, ShadowPath
  <2> QED
    BY <1>9, <2>1, <2>2 DEF ShadowFails
<1>10. CASE RunGo
  BY <1>10 DEF RunGo, OnItsWay
<1> QED
  BY <1>1, <1>2, <1>3, <1>4, <1>5, <1>6, <1>7, <1>8, <1>9, <1>10 DEF GStep

LEMMA BuildKeepsLayout ==
  ASSUME GoInv, [BNext]_bvars
  PROVE  GoInv'
<1>1. CASE GStep
  <2>1. RootsAreGiven' /\ shadowed \subseteq shadowed' /\ source' = source
    BY <1>1, ScriptKeepsRoots DEF GoInv
  <2>2. ASSUME Unnested', Unoccupied' PROVE AsLaidOut' /\ OnItsWay'
    <3>1. Unnested /\ Unoccupied
      BY <2>1, <2>2, SameRootsSameNesting
    <3> QED
      BY <1>1, <3>1, ScriptKeepsLayout, ScriptStaysOnItsWay DEF GoInv
  <2> QED
    BY <2>1, <2>2 DEF GoInv
<1>2. CASE GoStep
  BY <1>2, GoStepKeepsGoInv DEF GoStep
<1>3. CASE UNCHANGED gvars
  BY <1>3 DEF gvars, GoInv, RootsAreGiven, Unnested, Unoccupied,
              AsLaidOut, OnItsWay, Shadow
<1> QED
  BY <1>1, <1>2, <1>3 DEF BNext, KubectlStep, OtherStep, Continue, bvars

\* go runs in the source (GoFindsItsSource), whatever directories and links the
\* steps before have left, as long as no project root lies inside another and the
\* source has nothing of its own where a root is mapped to.
THEOREM StepsGoFindsItsSource == BSpec => []GoFindsItsSource
<1>1. BInit => GoInv
  BY DEF BInit, GInit, GoInv, RootsAreGiven, AsLaidOut, OnItsWay
<1>2. GoInv /\ [BNext]_bvars => GoInv'
  BY BuildKeepsLayout
<1>3. GoInv => GoFindsItsSource
  <2> SUFFICES ASSUME GoInv, Unnested, Unoccupied, gpc = "go"
               PROVE  GoFindsItsSource
    BY DEF GoFindsItsSource
  <2>1. RootsAreGiven /\ AsLaidOut /\ OnItsWay
    BY DEF GoInv
  <2>2. ASSUME gopath = ShadowPath PROVE Resolve(Shadow) = <<>>
    <3>1. Shadow \in links
      BY <2>1, <2>2 DEF OnItsWay
    <3>2. PICK r \in shadowed : Shadow = ShadowOf(r)
      BY <2>1, <3>1 DEF AsLaidOut
    <3> QED
      BY <2>1, <3>1, <3>2, WayToShadow
  <2>3. ASSUME NEW p \in made \cup links PROVE Head(p) = "gopath"
    <3>1. PICK r \in shadowed : \E n \in 1 .. Len(ShadowOf(r)) :
                                  p = SubSeq(ShadowOf(r), 1, n)
      <4>1. \A r \in shadowed : /\ ShadowOf(r) \in Seq(Names)
                                /\ Len(ShadowOf(r)) \in Nat \ {0}
        BY <2>1, GoAssumption, ShadowIs DEF RootsAreGiven
      <4>2. CASE p \in made
        BY <2>1, <4>1, <4>2 DEF AsLaidOut
      <4>3. CASE p \in links
        <5>1. PICK r \in shadowed : p = ShadowOf(r)
          BY <2>1, <4>3 DEF AsLaidOut
        <5>2. p = SubSeq(ShadowOf(r), 1, Len(ShadowOf(r)))
          BY <4>1, <5>1
        <5> QED
          BY <4>1, <5>2
      <4> QED
        BY <4>2, <4>3
    <3>2. ShadowOf(r) \in Seq(Names) /\ ShadowOf(r)[1] = "gopath"
      BY <2>1, GoAssumption, ShadowIs DEF RootsAreGiven
    <3> QED
      BY <3>1, <3>2
  <2> QED
    BY <2>1, <2>2, <2>3 DEF GoFindsItsSource, OnItsWay
<1> QED
  BY <1>1, <1>2, <1>3, PTL DEF BSpec
=============================================================================
