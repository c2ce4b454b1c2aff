-------------------------- MODULE GkePrepareProofs --------------------------
(***************************************************************************)
(* Theorems about GkePrepare, for every number of builds, all commands and  *)
(* flags, all configurations and outputs, whatever fails and however often  *)
(* the tag of the image is moved.                                           *)
(***************************************************************************)
EXTENDS GkePrepare, WellFoundedInduction, TLAPS

-----------------------------------------------------------------------------
(* Induction over sets of numbers, and the sequences it is needed for.      *)

LEMMA LeastNat ==
  ASSUME NEW T, T \subseteq Nat, T # {}
  PROVE  \E m \in T : \A k \in T : m <= k
<1>1. IsWellFoundedOn(OpToRel(<,Nat), Nat)
  BY NatLessThanWellFounded
<1>2. PICK m \in T : \A k \in T : ~(<<k, m>> \in OpToRel(<,Nat))
  BY <1>1, WFMin
<1>3. \A k \in T : ~(k < m)
  BY <1>2 DEF OpToRel
<1> QED
  BY <1>3

LEMMA NatSetInduction ==
  ASSUME NEW S, 0 \in S, \A n \in Nat : n \in S => n + 1 \in S
  PROVE  Nat \subseteq S
<1> SUFFICES ASSUME Nat \ S # {} PROVE FALSE
  OBVIOUS
<1>1. PICK m \in Nat \ S : \A k \in Nat \ S : m <= k
  BY LeastNat
<1>2. m # 0 /\ m - 1 \in Nat /\ m - 1 \in S
  BY <1>1
<1>3. (m - 1) + 1 = m
  BY <1>2
<1> QED
  BY <1>2, <1>3

\* Of the places of a sequence that have something in common one is the last.
LEMMA LastPlace ==
  ASSUME NEW S, NEW s \in Seq(S), NEW T, T \subseteq DOMAIN s, T # {}
  PROVE  \E i \in T : \A j \in T : j <= i
<1> DEFINE n == Len(s)
           U == {k \in Nat : n - k \in T}
<1>1. n \in Nat /\ DOMAIN s = 1..n
  OBVIOUS
<1> HIDE DEF n
<1>2. U # {}
  <2>1. PICK i \in T : TRUE
    OBVIOUS
  <2>2. n - i \in Nat /\ n - (n - i) = i
    BY <1>1, <2>1
  <2> QED
    BY <2>1, <2>2
<1>3. PICK k \in U : \A l \in U : k <= l
  BY <1>2, LeastNat
<1>4. ASSUME NEW j \in T PROVE j <= n - k
  <2>1. j \in Nat /\ n - j \in Nat /\ n - (n - j) = j
    BY <1>1
  <2>2. k <= n - j
    BY <1>3, <2>1
  <2> QED
    BY <1>1, <1>3, <2>1, <2>2
<1> QED
  BY <1>3, <1>4

\* FlattenSeq is what the parts are, one after the other.
LEMMA FlattenRuns ==
  ASSUME NEW T, NEW s \in Seq(Seq(T)), s # <<>>
  PROVE  \E f \in [1..Len(s) -> Seq(T)] :
           /\ FlattenSeq(s) = f[Len(s)]
           /\ f[1] = s[1]
           /\ \A i \in 1..Len(s) : i # 1 => f[i] = f[i - 1] \o s[i]
<1> DEFINE n == Len(s)
           Step(f, i) == IF i = 1 THEN s[i] ELSE f[i - 1] \o s[i]
           R == {m \in Nat : m <= n => \E f \in [1..m -> Seq(T)] :
                               \A i \in 1..m : f[i] = Step(f, i)}
<1>1. n \in Nat /\ n # 0 /\ \A i \in 1..n : s[i] \in Seq(T)
  OBVIOUS
<1>2. 0 \in R
  <2> DEFINE f == [i \in 1..0 |-> <<>>]
  <2>1. f \in [1..0 -> Seq(T)]
    OBVIOUS
  <2>2. \A i \in 1..0 : f[i] = Step(f, i)
    OBVIOUS
  <2> HIDE DEF f, Step
  <2> QED
    BY <2>1, <2>2
<1>3. ASSUME NEW m \in Nat, m \in R PROVE m + 1 \in R
  <2> SUFFICES ASSUME m + 1 <= n
               PROVE  \E f \in [1..(m + 1) -> Seq(T)] :
                        \A i \in 1..(m + 1) : f[i] = Step(f, i)
    OBVIOUS
  <2>1. PICK g \in [1..m -> Seq(T)] : \A i \in 1..m : g[i] = Step(g, i)
    <3>1. m <= n
      BY <1>1
    <3> HIDE DEF Step
    <3> QED
      BY <1>3, <3>1
  <2> DEFINE f == [i \in 1..(m + 1) |-> IF i <= m THEN g[i] ELSE Step(g, i)]
  <2>2. Step(g, m + 1) \in Seq(T)
    <3>1. CASE m = 0
      BY <1>1, <3>1
    <3>2. CASE m # 0
      <4>1. m \in 1..m /\ m + 1 # 1 /\ (m + 1) - 1 = m /\ m + 1 \in 1..n
        BY <1>1, <3>2
      <4>2. g[m] \in Seq(T) /\ s[m + 1] \in Seq(T)
        BY <1>1, <4>1
      <4> QED
        BY <4>1, <4>2
    <3> QED
      BY <3>1, <3>2
  <2>3. f \in [1..(m + 1) -> Seq(T)]
    <3> SUFFICES ASSUME NEW i \in 1..(m + 1) PROVE f[i] \in Seq(T)
      OBVIOUS
    <3>1. CASE i <= m
      <4>1. i \in 1..m
        BY <3>1
      <4> QED
        BY <3>1, <4>1
    <3>2. CASE ~(i <= m)
      <4>1. i = m + 1
        BY <3>2
      <4> QED
        BY <2>2, <3>2, <4>1
    <3> QED
      BY <3>1, <3>2
  <2>4. ASSUME NEW i \in 1..(m + 1) PROVE f[i] = Step(f, i)
    <3>1. i # 1 => i - 1 \in 1..(m + 1) /\ i - 1 <= m
      OBVIOUS
    <3>2. Step(f, i) = Step(g, i)
      BY <3>1
    <3>3. i <= m => i \in 1..m
      OBVIOUS
    <3> QED
      BY <2>1, <3>2, <3>3
  <2> QED
    BY <2>3, <2>4
<1>4. n \in R
  <2> HIDE DEF R
  <2> QED
    BY <1>1, <1>2, <1>3, NatSetInduction
<1>5. PICK f \in [1..n -> Seq(T)] : \A i \in 1..n : f[i] = Step(f, i)
  BY <1>1, <1>4
<1>6. \A i \in 1..n : i # 1 => f[i] = f[i - 1] \o s[i]
  <2> SUFFICES ASSUME NEW i \in 1..n, i # 1 PROVE f[i] = f[i - 1] \o s[i]
    OBVIOUS
  <2>1. f[i] = Step(f, i)
    BY <1>5
  <2> QED
    BY <2>1
<1> DEFINE Flat(g) == g = [i \in 1..n |-> Step(g, i)]
           h == CHOOSE g : Flat(g)
<1>7. Flat(f)
  BY <1>5
<1>8. Flat(h)
  <2> HIDE DEF Flat
  <2> QED
    BY <1>7
<1>9. FlattenSeq(s) = h[n]
  BY <1>1 DEF FlattenSeq
<1> HIDE DEF h
\* There is one such function only.
<1>10. \A i \in 1..n : h[i] = f[i]
  <2> DEFINE E == {m \in Nat : m + 1 <= n => h[m + 1] = f[m + 1]}
  <2>1. 0 \in E
    <3>1. 0 + 1 = 1 /\ 1 \in 1..n
      BY <1>1
    <3>2. h[1] = s[1] /\ f[1] = s[1]
      BY <1>5, <1>8, <3>1
    <3> QED
      BY <3>1, <3>2
  <2>2. ASSUME NEW m \in Nat, m \in E PROVE m + 1 \in E
    <3> SUFFICES ASSUME (m + 1) + 1 <= n PROVE h[(m + 1) + 1] = f[(m + 1) + 1]
      OBVIOUS
    <3> DEFINE j == (m + 1) + 1
    <3>1. j \in 1..n /\ j # 1 /\ j - 1 = m + 1 /\ m + 1 <= n
      BY <1>1
    <3> HIDE DEF j
    <3>2. h[j] = h[j - 1] \o s[j] /\ f[j] = f[j - 1] \o s[j]
      BY <1>5, <1>8, <3>1
    <3>3. h[m + 1] = f[m + 1]
      BY <2>2, <3>1
    <3> QED
      BY <3>1, <3>2, <3>3 DEF j
  <2>3. Nat \subseteq E
    <3> HIDE DEF E
    <3> QED
      BY <2>1, <2>2, NatSetInduction
  <2>4. ASSUME NEW i \in 1..n PROVE h[i] = f[i]
    <3>1. i - 1 \in Nat /\ (i - 1) + 1 = i /\ i <= n
      BY <1>1
    <3>2. i - 1 \in E
      BY <2>3, <3>1
    <3> QED
      BY <3>1, <3>2
  <2> QED
    BY <2>4
<1>11. n \in 1..n /\ 1 \in 1..n /\ f[1] = s[1]
  <2>1. n \in 1..n /\ 1 \in 1..n
    BY <1>1
  <2>2. f[1] = Step(f, 1)
    BY <1>5, <2>1
  <2> QED
    BY <2>1, <2>2
<1>12. FlattenSeq(s) = f[n]
  BY <1>9, <1>10, <1>11
<1> QED
  BY <1>6, <1>11, <1>12

\* What the parts are made of the whole is made of.
LEMMA FlattenIn ==
  ASSUME NEW T, NEW s \in Seq(Seq(T))
  PROVE  FlattenSeq(s) \in Seq(T)
<1>1. CASE s = <<>>
  BY <1>1 DEF FlattenSeq
<1>2. CASE s # <<>>
  <2>1. PICK f \in [1..Len(s) -> Seq(T)] : FlattenSeq(s) = f[Len(s)]
    BY <1>2, FlattenRuns
  <2>2. Len(s) \in 1..Len(s)
    BY <1>2
  <2> QED
    BY <2>1, <2>2
<1> QED
  BY <1>1, <1>2

\* When all parts but one have nothing in them the whole is that one.
LEMMA FlattenOne ==
  ASSUME NEW T, NEW s \in Seq(Seq(T)), NEW p \in DOMAIN s,
         \A i \in DOMAIN s : i # p => s[i] = <<>>
  PROVE  FlattenSeq(s) = s[p]
<1> DEFINE n == Len(s)
<1>1. /\ n \in Nat /\ n # 0 /\ p \in 1..n /\ DOMAIN s = 1..n
      /\ \A i \in 1..n : s[i] \in Seq(T)
  OBVIOUS
<1>2. s # <<>>
  OBVIOUS
<1>3. \A i \in 1..n : i # p => s[i] = <<>>
  BY <1>1
<1>4. PICK f \in [1..n -> Seq(T)] :
        /\ FlattenSeq(s) = f[n]
        /\ f[1] = s[1]
        /\ \A i \in 1..n : i # 1 => f[i] = f[i - 1] \o s[i]
  BY <1>2, FlattenRuns
<1> HIDE DEF n
<1> DEFINE E == {m \in Nat : m + 1 <= n => f[m + 1] = IF m + 1 < p THEN <<>> ELSE s[p]}
<1>5. 0 \in E
  <2>1. 1 \in 1..n /\ p >= 1
    BY <1>1
  <2>2. 1 < p => f[1] = <<>>
    BY <1>3, <1>4, <2>1
  <2>3. ~(1 < p) => f[1] = s[p]
    BY <1>1, <1>4, <2>1
  <2> QED
    BY <2>2, <2>3
<1>6. ASSUME NEW m \in Nat, m \in E PROVE m + 1 \in E
  <2> DEFINE j == (m + 1) + 1
  <2> SUFFICES ASSUME j <= n PROVE f[j] = IF j < p THEN <<>> ELSE s[p]
    OBVIOUS
  <2>1. /\ j \in 1..n /\ j # 1 /\ j - 1 = m + 1 /\ m + 1 <= n
        /\ j - 1 \in 1..n /\ p \in Nat /\ j \in Nat
    BY <1>1
  <2>2. f[j - 1] = IF m + 1 < p THEN <<>> ELSE s[p]
    BY <1>6, <2>1
  <2> HIDE DEF j
  <2>3. f[j] = f[j - 1] \o s[j]
    BY <1>4, <2>1
  <2>4. \A e \in Seq(T) : e \o <<>> = e /\ <<>> \o e = e
    OBVIOUS
  <2>5. CASE j < p
    <3>1. m + 1 < p /\ s[j] = <<>>
      BY <1>3, <2>1, <2>5
    <3> QED
      BY <2>2, <2>3, <2>5, <3>1
  <2>6. CASE j = p
    <3>1. m + 1 < p
      BY <2>1, <2>6
    <3> QED
      BY <1>1, <2>1, <2>2, <2>3, <2>4, <2>6, <3>1
  <2>7. CASE p < j
    <3>1. ~(m + 1 < p) /\ s[j] = <<>>
      BY <1>3, <2>1, <2>7
    <3>2. ~(j < p)
      BY <1>1, <2>1, <2>7
    <3> QED
      BY <1>1, <2>1, <2>2, <2>3, <2>4, <3>1, <3>2
  <2>8. j < p \/ j = p \/ p < j
    BY <2>1
  <2> QED
    BY <2>5, <2>6, <2>7, <2>8
<1>7. Nat \subseteq E
  <2> HIDE DEF E
  <2> QED
    BY <1>5, <1>6, NatSetInduction
<1>8. n - 1 \in Nat /\ (n - 1) + 1 = n /\ ~(n < p)
  BY <1>1
<1>9. n - 1 \in E
  BY <1>7, <1>8
<1>10. f[n] = s[p]
  BY <1>8, <1>9
<1> QED
  BY <1>4, <1>10

-----------------------------------------------------------------------------
(* Documents.                                                               *)

\* Documents whose workloads select the pods they make, but for labels in K.
Kept(K) ==
  {o \in Document : o.kind \in Templated =>
     \A s \in o.selector : o.template[s[1]] = s[2] \/ s[1] \in K}

\* A flag that is given.
Given(x) == x # ""

Maps == [LabelKeys -> STRING]
Images == Seq([name : STRING, ref : STRING])

LEMMA DocumentFacts ==
  ASSUME NEW o \in Document
  PROVE  /\ o.kind \in STRING /\ o.name \in STRING /\ o.ns \in STRING
         /\ o.labels \in Maps /\ o.template \in Maps
         /\ o.selector \in SUBSET (LabelKeys \X STRING)
         /\ o.images \in Images
         /\ o.links \in Seq(STRING) /\ o.kinds \in SUBSET STRING
         /\ o.kind \notin WithContainers => o.images = <<>>
         /\ \A s \in o.selector : s[1] \in LabelKeys /\ Given(s[2])
BY DEF Document, Maps, Images, Given

LEMMA Constants ==
  /\ "app" \in LabelKeys /\ NameKey \in LabelKeys /\ VersionKey \in LabelKeys
  /\ ManagedByKey \in LabelKeys /\ LabelKeys \subseteq STRING
  /\ NoLabels \in Maps
<1>1. LabelKeys \subseteq STRING /\ "app" \in LabelKeys
  BY ObjectsAssumption DEF LabelKeys
<1>2. NameKey \in LabelKeys /\ VersionKey \in LabelKeys /\ ManagedByKey \in LabelKeys
  BY DEF LabelKeys, Reserved
<1>3. NoLabels \in Maps
  BY ObjectsAssumption DEF NoLabels, Maps
<1> QED
  BY <1>1, <1>2, <1>3

LEMMA ObjectFacts ==
  ASSUME NEW kind \in STRING, NEW name \in STRING
  PROVE  /\ Object(kind, name) \in Document
         /\ Object(kind, name).kind = kind /\ Object(kind, name).name = name
         /\ Object(kind, name).selector = {} /\ Object(kind, name).images = <<>>
         /\ Object(kind, name).template = NoLabels
<1>1. NoLabels \in [LabelKeys -> STRING]
  BY Constants DEF Maps
<1>2. /\ {} \in SUBSET (LabelKeys \X STRING) /\ {} \in SUBSET STRING
      /\ <<>> \in Seq(STRING) /\ <<>> \in Seq([name : STRING, ref : STRING])
  OBVIOUS
<1>3. "" \in STRING
  BY ObjectsAssumption
<1> QED
  BY <1>1, <1>2, <1>3 DEF Object, Document

LEMMA OneElement == ASSUME NEW S, NEW e \in S PROVE <<e>> \in Seq(S)
OBVIOUS

LEMMA ElementOf == ASSUME NEW S, NEW s \in Seq(S), NEW i \in DOMAIN s PROVE s[i] \in S
OBVIOUS

LEMMA OnePair ==
  ASSUME NEW k \in LabelKeys, NEW x \in STRING
  PROVE  /\ {<<k, x>>} \in SUBSET (LabelKeys \X STRING)
         /\ \A s \in {<<k, x>>} : s[1] = k /\ s[2] = x
<1>1. <<k, x>> \in LabelKeys \X STRING
  OBVIOUS
<1>2. <<k, x>>[1] = k /\ <<k, x>>[2] = x
  OBVIOUS
<1> QED
  BY <1>1, <1>2

\* The documents of Prepare have a name, and one more thing each.
LEMMA CreateDeploymentFacts ==
  ASSUME NEW K, NEW image \in STRING, Given(image)
  PROVE  CreateDeployment(image) \in Kept(K)
<1> DEFINE o == Object("Deployment", image)
           t == [NoLabels EXCEPT !["app"] = image]
           w == <<[name |-> image, ref |-> ""]>>
           v == {<<"app", image>>}
           d == [o EXCEPT !.template["app"] = image, !.selector = v, !.images = w]
<1>1. "Deployment" \in STRING /\ "" \in STRING
  BY ObjectsAssumption
<1>2. o \in Document /\ o.kind = "Deployment"
  BY <1>1, ObjectFacts
<1>3. o.template = NoLabels
  BY DEF Object
<1>4. t \in Maps /\ t["app"] = image
  BY Constants DEF Maps
<1>5. v \in SUBSET (LabelKeys \X STRING) /\ \A s \in v : s[1] = "app" /\ s[2] = image
  BY Constants, OnePair
<1>6. w \in Images
  <2>1. [name |-> image, ref |-> ""] \in [name : STRING, ref : STRING]
    BY <1>1
  <2> QED
    BY <2>1, OneElement DEF Images
<1>7. d = [o EXCEPT !.template = t, !.selector = v, !.images = w]
  BY <1>2, <1>3 DEF Document
<1>8. "Deployment" \in WithContainers
  BY DEF WithContainers, Templated
<1> HIDE DEF o, t, v, w
<1>9. d \in Document /\ d.template = t /\ d.selector = v
  BY <1>2, <1>4, <1>5, <1>6, <1>7, <1>8 DEF Document, Maps, Images, Given
<1>10. \A s \in v : t[s[1]] = s[2]
  BY <1>4, <1>5
<1>11. d \in Kept(K)
  BY <1>9, <1>10 DEF Kept
<1> QED
  BY <1>11 DEF CreateDeployment, o, v, w

LEMMA CreateAutoscalerFacts ==
  ASSUME NEW K, NEW image, image \o "-hpa" \in STRING
  PROVE  CreateHorizontalPodAutoscaler(image) \in Kept(K)
<1>1. "HorizontalPodAutoscaler" \in STRING
  BY ObjectsAssumption
<1> QED
  BY <1>1, ObjectFacts DEF CreateHorizontalPodAutoscaler, Kept

LEMMA CreateServiceFacts ==
  ASSUME NEW K, NEW app \in STRING, Given(app), ServiceName(app) \in STRING
  PROVE  /\ CreateService(app) \in Kept(K)
         /\ CreateService(app).kind = "Service"
         /\ CreateService(app).name = ServiceName(app)
<1> DEFINE o == Object("Service", ServiceName(app))
           v == {<<NameKey, app>>}
           d == [o EXCEPT !.selector = v]
<1>1. "Service" \in STRING
  BY ObjectsAssumption
<1>2. o \in Document /\ o.kind = "Service" /\ o.name = ServiceName(app)
  BY <1>1, ObjectFacts
<1>3. v \in SUBSET (LabelKeys \X STRING) /\ \A s \in v : s[2] = app
  BY Constants, OnePair
<1> HIDE DEF o, v
<1>4. d \in Document /\ d.kind = "Service" /\ d.name = ServiceName(app)
  BY <1>2, <1>3 DEF Document, Given
<1>5. "Service" \notin Templated
  BY DEF Templated
<1>6. d \in Kept(K)
  BY <1>4, <1>5 DEF Kept
<1> QED
  BY <1>4, <1>6 DEF CreateService, o, v

LEMMA CreateNamespaceFacts ==
  ASSUME NEW K, NEW name \in STRING
  PROVE  /\ CreateNamespace(name) \in Kept(K)
         /\ CreateNamespace(name).kind = "Namespace"
         /\ CreateNamespace(name).name = name
<1>1. "Namespace" \in STRING
  BY ObjectsAssumption
<1> QED
  BY <1>1, ObjectFacts DEF CreateNamespace, Kept

LEMMA CreateApplicationFacts ==
  ASSUME NEW K, NEW app \in STRING, Given(app), NEW list \in Seq(Kept(K))
  PROVE  /\ CreateApplication(app, list) \in Kept(K)
         /\ CreateApplication(app, list).kind = "Application"
         /\ CreateApplication(app, list).name = app
<1> DEFINE o == Object("Application", app)
           v == {<<NameKey, app>>}
           w == {list[i].kind : i \in DOMAIN list} \ {"Namespace", "Application"}
           d == [o EXCEPT !.selector = v, !.kinds = w]
<1>1. "Application" \in STRING
  BY ObjectsAssumption
<1>2. o \in Document /\ o.kind = "Application" /\ o.name = app
  BY <1>1, ObjectFacts
<1>3. v \in SUBSET (LabelKeys \X STRING) /\ \A s \in v : s[2] = app
  BY Constants, OnePair
<1>4. w \in SUBSET STRING
  <2>1. Kept(K) \subseteq Document
    BY DEF Kept
  <2>2. ASSUME NEW i \in DOMAIN list PROVE list[i].kind \in STRING
    <3>1. list[i] \in Document
      BY <2>1
    <3> QED
      BY <3>1, DocumentFacts
  <2> QED
    BY <2>2
<1> HIDE DEF o, v, w
<1>5. d \in Document /\ d.kind = "Application" /\ d.name = app
  BY <1>2, <1>3, <1>4 DEF Document, Given
<1>6. "Application" \notin Templated
  BY DEF Templated
<1>7. d \in Kept(K)
  BY <1>5, <1>6 DEF Kept
<1> QED
  BY <1>5, <1>7 DEF CreateApplication, o, v, w

-----------------------------------------------------------------------------
(* What is done to one document.                                            *)

LEMMA AddToMapFacts ==
  ASSUME NEW m \in Maps, NEW k \in LabelKeys, NEW x \in STRING, NEW override \in BOOLEAN
  PROVE  /\ AddToMap(m, k, x, override) \in Maps
         /\ \A j \in LabelKeys : j # k => AddToMap(m, k, x, override)[j] = m[j]
         /\ Given(m[k]) /\ ~override => AddToMap(m, k, x, override)[k] = m[k]
         /\ override => AddToMap(m, k, x, override)[k] = x
BY DEF AddToMap, Maps, Given

\* A label of Prepare is put where there is none of its key, which no selector
\* asks for, or it is one in K.
LEMMA AddLabelKeeps ==
  ASSUME NEW K, NEW o \in Kept(K), NEW k \in LabelKeys, NEW x \in STRING,
         NEW override \in BOOLEAN, override => k \in K
  PROVE  /\ AddLabel(o, k, x, override) \in Kept(K)
         /\ AddLabel(o, k, x, override).kind = o.kind
         /\ AddLabel(o, k, x, override).name = o.name
         /\ AddLabel(o, k, x, override).ns = o.ns
         /\ AddLabel(o, k, x, override).images = o.images
<1> DEFINE l == AddToMap(o.labels, k, x, override)
           t == IF o.kind \in Templated THEN AddToMap(o.template, k, x, override)
                ELSE o.template
           d == [o EXCEPT !.labels = l, !.template = t]
<1>1. o \in Document
  BY DEF Kept
<1>2. o.labels \in Maps /\ o.template \in Maps
  BY <1>1, DocumentFacts
<1>3. l \in Maps
  BY <1>2, AddToMapFacts
<1>4. t \in Maps
  BY <1>2, AddToMapFacts
<1>5. AddLabel(o, k, x, override) = d
  BY <1>1 DEF AddLabel, Document
<1>6. ASSUME o.kind \in Templated, NEW s \in o.selector
      PROVE  t[s[1]] = s[2] \/ s[1] \in K
  <2>1. s[1] \in LabelKeys /\ Given(s[2])
    BY <1>1, DocumentFacts
  <2>2. o.template[s[1]] = s[2] \/ s[1] \in K
    BY <1>6 DEF Kept
  <2>3. CASE s[1] # k
    BY <1>2, <1>6, <2>1, <2>2, <2>3, AddToMapFacts
  <2>4. CASE s[1] = k /\ s[1] \notin K
    BY <1>2, <1>6, <2>1, <2>2, <2>4, AddToMapFacts
  <2> QED
    BY <2>3, <2>4
<1> HIDE DEF l, t
<1>7. /\ d \in Document /\ d.kind = o.kind /\ d.name = o.name /\ d.ns = o.ns
      /\ d.images = o.images /\ d.selector = o.selector /\ d.template = t
  BY <1>1, <1>3, <1>4 DEF Document, Maps
<1> HIDE DEF d
<1>8. d \in Kept(K)
  BY <1>6, <1>7 DEF Kept
<1> QED
  BY <1>5, <1>7, <1>8

\* Document o, and the pods it makes, have a label of key k.
HasLabel(o, k) == Given(o.labels[k]) /\ (o.kind \in Templated => Given(o.template[k]))

LEMMA AddLabelGives ==
  ASSUME NEW K, NEW o \in Kept(K), NEW k \in LabelKeys, NEW x \in STRING, Given(x),
         NEW override \in BOOLEAN
  PROVE  /\ HasLabel(AddLabel(o, k, x, override), k)
         /\ \A j \in LabelKeys : HasLabel(o, j) => HasLabel(AddLabel(o, k, x, override), j)
         /\ override => AddLabel(o, k, x, override).labels[k] = x
         /\ override /\ o.kind \in Templated => AddLabel(o, k, x, override).template[k] = x
<1> DEFINE l == AddToMap(o.labels, k, x, override)
           m == AddToMap(o.template, k, x, override)
           d == AddLabel(o, k, x, override)
<1>1. o \in Document
  BY DEF Kept
<1>2. o.labels \in Maps /\ o.template \in Maps
  BY <1>1, DocumentFacts
<1>3. d.labels = l /\ d.kind = o.kind /\ (o.kind \in Templated => d.template = m)
  BY <1>1 DEF AddLabel, Document
<1>4. /\ Given(l[k]) /\ Given(m[k]) /\ (override => l[k] = x /\ m[k] = x)
      /\ \A j \in LabelKeys : Given(o.labels[j]) => Given(l[j])
      /\ \A j \in LabelKeys : Given(o.template[j]) => Given(m[j])
  BY <1>2 DEF AddToMap, Maps, Given
<1> HIDE DEF l, m, d
<1>5. HasLabel(d, k)
  BY <1>3, <1>4 DEF HasLabel
<1>6. \A j \in LabelKeys : HasLabel(o, j) => HasLabel(d, j)
  BY <1>3, <1>4 DEF HasLabel
<1>7. /\ override => d.labels[k] = x
      /\ override /\ o.kind \in Templated => d.template[k] = x
  BY <1>3, <1>4
<1> QED
  BY <1>5, <1>6, <1>7 DEF d

\* The values of labels are strings.
LEMMA CreateMapFacts ==
  ASSUME NEW labels \in Seq(STRING \X STRING), NEW k \in DOMAIN CreateMap(labels)
  PROVE  CreateMap(labels)[k] \in STRING
<1> DEFINE T == {i \in DOMAIN labels : labels[i][1] = k}
           Q(i) == labels[i][1] = k /\ \A j \in DOMAIN labels : labels[j][1] = k => j <= i
<1>1. T \subseteq DOMAIN labels /\ T # {}
  BY DEF CreateMap
<1>2. PICK i \in T : \A j \in T : j <= i
  BY <1>1, LastPlace
<1>3. Q(i) /\ i \in DOMAIN labels
  BY <1>2
<1> HIDE DEF Q
<1>4. (CHOOSE j \in DOMAIN labels : Q(j)) \in DOMAIN labels
  BY <1>3
<1>5. CreateMap(labels)[k] = labels[CHOOSE j \in DOMAIN labels : Q(j)][2]
  BY DEF CreateMap, Q
<1>6. \A j \in DOMAIN labels : labels[j][2] \in STRING
  OBVIOUS
<1> QED
  BY <1>4, <1>5, <1>6

\* What LabelCustom makes of labels.
Put(f, m) ==
  [k \in LabelKeys |-> IF k \in DOMAIN CreateMap(f.labels) THEN CreateMap(f.labels)[k]
                       ELSE m[k]]

LEMMA LabelCustomKeeps ==
  ASSUME NEW K, NEW o \in Kept(K), NEW f, f.labels \in Seq(STRING \X STRING),
         DOMAIN CreateMap(f.labels) \cap LabelKeys \subseteq K
  PROVE  /\ LabelCustom(f, o) \in Kept(K)
         /\ LabelCustom(f, o).kind = o.kind /\ LabelCustom(f, o).name = o.name
         /\ LabelCustom(f, o).ns = o.ns /\ LabelCustom(f, o).images = o.images
<1> DEFINE l == Put(f, o.labels)
           t == IF o.kind \in Templated THEN Put(f, o.template) ELSE o.template
           d == [o EXCEPT !.labels = l, !.template = t]
<1>1. o \in Document
  BY DEF Kept
<1>2. o.labels \in Maps /\ o.template \in Maps
  BY <1>1, DocumentFacts
<1>3. \A m \in Maps : Put(f, m) \in Maps
  BY CreateMapFacts DEF Put, Maps
<1>4. l \in Maps /\ t \in Maps
  BY <1>2, <1>3
<1>5. LabelCustom(f, o) = d
  BY <1>1 DEF LabelCustom, Put, Document
<1>6. ASSUME o.kind \in Templated, NEW s \in o.selector
      PROVE  t[s[1]] = s[2] \/ s[1] \in K
  <2>1. s[1] \in LabelKeys
    BY <1>1, DocumentFacts
  <2>2. o.template[s[1]] = s[2] \/ s[1] \in K
    BY <1>6 DEF Kept
  <2>3. CASE s[1] \in DOMAIN CreateMap(f.labels)
    BY <2>1, <2>3
  <2>4. CASE s[1] \notin DOMAIN CreateMap(f.labels)
    BY <1>6, <2>1, <2>2, <2>4 DEF Put
  <2> QED
    BY <2>3, <2>4
<1> HIDE DEF l, t
<1>7. /\ d \in Document /\ d.kind = o.kind /\ d.name = o.name /\ d.ns = o.ns
      /\ d.images = o.images /\ d.selector = o.selector /\ d.template = t
  BY <1>1, <1>4 DEF Document, Maps
<1> HIDE DEF d
<1>8. d \in Kept(K)
  BY <1>6, <1>7 DEF Kept
<1> QED
  BY <1>5, <1>7, <1>8

\* The containers of document o that use the image use it with reference r.
UsesOnly(o, image, r) ==
  \A c \in DOMAIN o.images : o.images[c].name = image => o.images[c].ref = r

LEMMA WithImageFacts ==
  ASSUME NEW K, NEW o \in Kept(K), NEW image \in STRING, NEW r \in STRING,
         o.kind \in WithContainers
  PROVE  /\ WithImage(o, image, r) \in Kept(K)
         /\ WithImage(o, image, r).kind = o.kind
         /\ WithImage(o, image, r).name = o.name
         /\ UsesOnly(WithImage(o, image, r), image, r)
<1> DEFINE w == [i \in DOMAIN o.images |-> IF o.images[i].name = image
                                           THEN [name |-> image, ref |-> r]
                                           ELSE o.images[i]]
           d == [o EXCEPT !.images = w]
<1>1. o \in Document /\ o.images \in Images
  BY DocumentFacts DEF Kept
<1>2. w \in Images
  BY <1>1 DEF Images
<1>3. WithImage(o, image, r) = d
  BY <1>1 DEF WithImage, Document
<1>4. \A i \in DOMAIN w : w[i].name = image => w[i].ref = r
  OBVIOUS
<1> HIDE DEF w
<1>5. /\ d \in Document /\ d.kind = o.kind /\ d.name = o.name /\ d.images = w
      /\ d.selector = o.selector /\ d.template = o.template
  BY <1>1, <1>2 DEF Document, Images
<1> HIDE DEF d
<1>6. d \in Kept(K)
  BY <1>5 DEF Kept
<1> QED
  BY <1>3, <1>4, <1>5, <1>6 DEF UsesOnly

LEMMA WithNamespaceFacts ==
  ASSUME NEW K, NEW o \in Kept(K), NEW ns \in STRING
  PROVE  /\ [o EXCEPT !.ns = ns] \in Kept(K)
         /\ [o EXCEPT !.ns = ns].kind = o.kind /\ [o EXCEPT !.ns = ns].name = o.name
         /\ [o EXCEPT !.ns = ns].images = o.images
         /\ [o EXCEPT !.ns = ns].ns = ns
<1> DEFINE d == [o EXCEPT !.ns = ns]
<1>1. o \in Document
  BY DEF Kept
<1>2. /\ d \in Document /\ d.kind = o.kind /\ d.name = o.name /\ d.images = o.images
      /\ d.selector = o.selector /\ d.template = o.template /\ d.ns = ns
  BY <1>1 DEF Document
<1> HIDE DEF d
<1>3. d \in Kept(K)
  BY <1>2 DEF Kept
<1> QED
  BY <1>2, <1>3 DEF d

LEMMA SetApplicationLinksFacts ==
  ASSUME NEW K, NEW o \in Kept(K), NEW links \in Seq(STRING)
  PROVE  /\ SetApplicationLinks(o, links) \in Kept(K)
         /\ SetApplicationLinks(o, links).kind = o.kind
         /\ SetApplicationLinks(o, links).name = o.name
         /\ SetApplicationLinks(o, links).ns = o.ns
         /\ SetApplicationLinks(o, links).images = o.images
<1> DEFINE d == [o EXCEPT !.links = links]
<1>1. o \in Document
  BY DEF Kept
<1>2. /\ d \in Document /\ d.kind = o.kind /\ d.name = o.name /\ d.images = o.images
      /\ d.selector = o.selector /\ d.template = o.template /\ d.ns = o.ns
  BY <1>1 DEF Document
<1> HIDE DEF d
<1>3. d \in Kept(K)
  BY <1>2 DEF Kept
<1>4. SetApplicationLinks(o, links) \in {o, d}
  BY DEF SetApplicationLinks, d
<1> QED
  BY <1>2, <1>3, <1>4

-----------------------------------------------------------------------------
(* What is done to a list of them.                                          *)

LEMMA UpdateImageFacts ==
  ASSUME NEW K, NEW list \in Seq(Kept(K)), NEW image \in STRING, NEW r \in STRING
  PROVE  /\ UpdateMatchingContainerImage(list, image, r) \in Seq(Kept(K))
         /\ DOMAIN UpdateMatchingContainerImage(list, image, r) = DOMAIN list
         /\ \A i \in DOMAIN list :
              /\ UpdateMatchingContainerImage(list, image, r)[i].kind = list[i].kind
              /\ UpdateMatchingContainerImage(list, image, r)[i].name = list[i].name
              /\ UsesOnly(UpdateMatchingContainerImage(list, image, r)[i], image, r)
<1> DEFINE U(o) == IF o.kind \in WithContainers THEN WithImage(o, image, r) ELSE o
           s == [i \in DOMAIN list |-> U(list[i])]
<1>1. UpdateMatchingContainerImage(list, image, r) = s
  BY DEF UpdateMatchingContainerImage, Map
<1>2. ASSUME NEW o \in Kept(K)
      PROVE  U(o) \in Kept(K) /\ U(o).kind = o.kind /\ U(o).name = o.name
             /\ UsesOnly(U(o), image, r)
  <2>1. CASE o.kind \in WithContainers
    BY <2>1, WithImageFacts
  <2>2. CASE o.kind \notin WithContainers
    <3>1. o.images = <<>>
      BY <2>2, DocumentFacts DEF Kept
    <3> QED
      BY <2>2, <3>1 DEF UsesOnly
  <2> QED
    BY <2>1, <2>2
<1> HIDE DEF U
<1>3. s \in Seq(Kept(K))
  BY <1>2
<1> QED
  BY <1>1, <1>2, <1>3

\* What HasObject finds it finds in a list with the same kinds and names.
LEMMA HasTheSame ==
  ASSUME NEW s, NEW t, DOMAIN s = DOMAIN t,
         \A i \in DOMAIN s : s[i].kind = t[i].kind /\ s[i].name = t[i].name,
         NEW kind, NEW name
  PROVE  HasObject(s, kind, name) = HasObject(t, kind, name)
BY DEF HasObject

LEMMA HasAppended ==
  ASSUME NEW S, NEW s \in Seq(S), NEW o \in S, NEW kind, NEW name
  PROVE  HasObject(Append(s, o), kind, name)
           <=> HasObject(s, kind, name) \/ (o.kind = kind /\ o.name = name)
<1>1. /\ DOMAIN Append(s, o) = 1..(Len(s) + 1) /\ DOMAIN s = 1..Len(s)
      /\ Append(s, o)[Len(s) + 1] = o
      /\ \A i \in DOMAIN s : Append(s, o)[i] = s[i]
      /\ Len(s) \in Nat
  OBVIOUS
<1>2. \A i \in DOMAIN Append(s, o) : i \in DOMAIN s \/ i = Len(s) + 1
  BY <1>1
<1>3. (\A i \in DOMAIN s : i \in DOMAIN Append(s, o)) /\ Len(s) + 1 \in DOMAIN Append(s, o)
  BY <1>1
<1> QED
  BY <1>1, <1>2, <1>3 DEF HasObject

AllUse(s, image, r) == \A i \in DOMAIN s : UsesOnly(s[i], image, r)

\* A namespace there is a document for.
Special(ns) == ns \notin {"", "default"}

\* What Prepare adds when it is not there.
HasAll(f, s) ==
  /\ Given(f.app) /\ f.expose => HasObject(s, "Service", ServiceName(f.app))
  /\ Given(f.app) /\ f.cr => HasObject(s, "Application", f.app)
  /\ Special(f.namespace) => HasObject(s, "Namespace", f.namespace)

NamesAreStrings(f) == f.image \o "-hpa" \in STRING /\ ServiceName(f.app) \in STRING

LEMMA FlagFacts ==
  ASSUME NEW f \in Commands
  PROVE  /\ f.cmd \in {"apply", "prepare", "run"}
         /\ f.image \in STRING /\ f.app \in STRING /\ f.version \in STRING
         /\ f.namespace \in STRING /\ f.labels \in Seq(STRING \X STRING)
         /\ f.links \in Seq(STRING) /\ f.output \in Seq(STRING)
BY DEF Commands

\* One more document, that has no containers.
LEMMA OneMore ==
  ASSUME NEW S, NEW s \in Seq(S), NEW o \in S, o.images = <<>>
  PROVE  /\ Append(s, o) \in Seq(S)
         /\ HasObject(Append(s, o), o.kind, o.name)
         /\ \A kind, name : HasObject(s, kind, name) => HasObject(Append(s, o), kind, name)
         /\ \A image, r : AllUse(s, image, r) => AllUse(Append(s, o), image, r)
<1>1. /\ Append(s, o)[Len(s) + 1] = o
      /\ \A i \in DOMAIN s : Append(s, o)[i] = s[i]
      /\ \A i \in DOMAIN Append(s, o) : i \in DOMAIN s \/ i = Len(s) + 1
      /\ Append(s, o) \in Seq(S)
  OBVIOUS
<1>2. (\A i \in DOMAIN s : i \in DOMAIN Append(s, o)) /\ Len(s) + 1 \in DOMAIN Append(s, o)
  OBVIOUS
<1>3. HasObject(Append(s, o), o.kind, o.name)
  BY <1>1, <1>2 DEF HasObject
<1>4. ASSUME NEW kind, NEW name, HasObject(s, kind, name)
      PROVE  HasObject(Append(s, o), kind, name)
  BY <1>1, <1>2, <1>4 DEF HasObject
<1>5. ASSUME NEW image, NEW r, AllUse(s, image, r)
      PROVE  AllUse(Append(s, o), image, r)
  BY <1>1, <1>5 DEF AllUse, UsesOnly
<1> QED
  BY <1>1, <1>3, <1>4, <1>5

LEMMA CreatedHaveNoImages ==
  ASSUME NEW x, NEW s
  PROVE  /\ CreateService(x).images = <<>> /\ CreateApplication(x, s).images = <<>>
         /\ CreateNamespace(x).images = <<>>
BY DEF CreateService, CreateApplication, CreateNamespace, Object

LEMMA BaseObjectsFacts ==
  ASSUME NEW K, NEW f \in Commands, NamesAreStrings(f), NEW list \in Seq(Kept(K))
  PROVE  /\ BaseObjects(f, list) \in Seq(Kept(K))
         /\ Given(f.image) => AllUse(BaseObjects(f, list), f.image, "")
<1>1. f.image \in STRING /\ "" \in STRING
  BY FlagFacts, ObjectsAssumption
<1>2. CASE ~Given(f.image)
  BY <1>2 DEF BaseObjects, Given
<1>3. CASE Given(f.image)
  <2> DEFINE d == CreateDeployment(f.image)
             a == CreateHorizontalPodAutoscaler(f.image)
             s == IF f.file # <<>> THEN list ELSE list \o <<d, a>>
             u == UpdateMatchingContainerImage(s, f.image, "")
  <2>1. d \in Kept(K)
    BY <1>1, <1>3, CreateDeploymentFacts
  <2>2. a \in Kept(K)
    BY CreateAutoscalerFacts DEF NamesAreStrings
  <2>3. s \in Seq(Kept(K))
    <3>1. <<d, a>> \in Seq(Kept(K))
      BY <2>1, <2>2
    <3> HIDE DEF d, a
    <3> QED
      BY <3>1
  <2>4. BaseObjects(f, list) = u
    BY <1>3 DEF BaseObjects, Given
  <2> HIDE DEF s
  <2>5. u \in Seq(Kept(K))
    BY <1>1, <2>3, UpdateImageFacts
  <2>6. DOMAIN u = DOMAIN s
    BY <1>1, <2>3, UpdateImageFacts
  <2>7. \A i \in DOMAIN s : UsesOnly(u[i], f.image, "")
    BY <1>1, <2>3, UpdateImageFacts
  <2> HIDE DEF u
  <2>8. AllUse(u, f.image, "")
    BY <2>6, <2>7 DEF AllUse
  <2> QED
    BY <2>4, <2>5, <2>8
<1> QED
  BY <1>2, <1>3

LEMMA AddServiceFacts ==
  ASSUME NEW K, NEW f \in Commands, NamesAreStrings(f), NEW s \in Seq(Kept(K))
  PROVE  /\ AddService(f, s) \in Seq(Kept(K))
         /\ Given(f.app) /\ f.expose =>
              HasObject(AddService(f, s), "Service", ServiceName(f.app))
         /\ AllUse(s, f.image, "") => AllUse(AddService(f, s), f.image, "")
<1> DEFINE o == CreateService(f.app)
<1>1. CASE /\ Given(f.app) /\ f.expose
           /\ ~HasObject(s, "Service", ServiceName(f.app))
  <2>1. AddService(f, s) = Append(s, o)
    BY <1>1 DEF AddService, Given
  <2>2. o \in Kept(K) /\ o.kind = "Service" /\ o.name = ServiceName(f.app)
    BY <1>1, FlagFacts, CreateServiceFacts DEF NamesAreStrings
  <2>3. o.images = <<>>
    BY CreatedHaveNoImages
  <2> HIDE DEF o
  <2>4. /\ Append(s, o) \in Seq(Kept(K)) /\ HasObject(Append(s, o), o.kind, o.name)
        /\ AllUse(s, f.image, "") => AllUse(Append(s, o), f.image, "")
    BY <2>2, <2>3, OneMore
  <2> QED
    BY <2>1, <2>2, <2>4
<1>2. CASE ~(/\ Given(f.app) /\ f.expose
             /\ ~HasObject(s, "Service", ServiceName(f.app)))
  <2>1. AddService(f, s) = s
    BY <1>2 DEF AddService, Given
  <2> QED
    BY <1>2, <2>1
<1> QED
  BY <1>1, <1>2

LEMMA AddApplicationFacts ==
  ASSUME NEW K, NEW f \in Commands, NEW s \in Seq(Kept(K))
  PROVE  /\ AddApplication(f, s) \in Seq(Kept(K))
         /\ Given(f.app) /\ f.cr => HasObject(AddApplication(f, s), "Application", f.app)
         /\ \A kind, name : HasObject(s, kind, name) =>
              HasObject(AddApplication(f, s), kind, name)
         /\ AllUse(s, f.image, "") => AllUse(AddApplication(f, s), f.image, "")
<1> DEFINE o == CreateApplication(f.app, s)
<1>1. CASE Given(f.app) /\ f.cr /\ ~HasObject(s, "Application", f.app)
  <2>1. AddApplication(f, s) = Append(s, o)
    BY <1>1 DEF AddApplication, Given
  <2>2. o \in Kept(K) /\ o.kind = "Application" /\ o.name = f.app
    BY <1>1, FlagFacts, CreateApplicationFacts
  <2>3. o.images = <<>>
    BY CreatedHaveNoImages
  <2> HIDE DEF o
  <2>4. /\ Append(s, o) \in Seq(Kept(K)) /\ HasObject(Append(s, o), o.kind, o.name)
        /\ AllUse(s, f.image, "") => AllUse(Append(s, o), f.image, "")
    BY <2>2, <2>3, OneMore
  <2>5. \A kind, name : HasObject(s, kind, name) => HasObject(Append(s, o), kind, name)
    BY <2>2, <2>3, OneMore
  <2> QED
    BY <2>1, <2>2, <2>4, <2>5
<1>2. CASE ~(Given(f.app) /\ f.cr /\ ~HasObject(s, "Application", f.app))
  <2>1. AddApplication(f, s) = s
    BY <1>2 DEF AddApplication, Given
  <2> QED
    BY <1>2, <2>1
<1> QED
  BY <1>1, <1>2

LEMMA AddNamespaceFacts ==
  ASSUME NEW K, NEW f \in Commands, NEW s \in Seq(Kept(K))
  PROVE  /\ AddNamespace(f, s) \in Seq(Kept(K))
         /\ Special(f.namespace) => HasObject(AddNamespace(f, s), "Namespace", f.namespace)
         /\ \A kind, name : HasObject(s, kind, name) =>
              HasObject(AddNamespace(f, s), kind, name)
         /\ AllUse(s, f.image, "") => AllUse(AddNamespace(f, s), f.image, "")
<1> DEFINE o == CreateNamespace(f.namespace)
<1>1. CASE Special(f.namespace) /\ ~HasObject(s, "Namespace", f.namespace)
  <2>1. AddNamespace(f, s) = Append(s, o)
    BY <1>1 DEF AddNamespace, Special
  <2>2. o \in Kept(K) /\ o.kind = "Namespace" /\ o.name = f.namespace
    BY FlagFacts, CreateNamespaceFacts
  <2>3. o.images = <<>>
    BY CreatedHaveNoImages
  <2> HIDE DEF o
  <2>4. /\ Append(s, o) \in Seq(Kept(K)) /\ HasObject(Append(s, o), o.kind, o.name)
        /\ AllUse(s, f.image, "") => AllUse(Append(s, o), f.image, "")
    BY <2>2, <2>3, OneMore
  <2>5. \A kind, name : HasObject(s, kind, name) => HasObject(Append(s, o), kind, name)
    BY <2>2, <2>3, OneMore
  <2> QED
    BY <2>1, <2>2, <2>4, <2>5
<1>2. CASE ~(Special(f.namespace) /\ ~HasObject(s, "Namespace", f.namespace))
  <2>1. AddNamespace(f, s) = s
    BY <1>2 DEF AddNamespace, Special
  <2> QED
    BY <1>2, <2>1
<1> QED
  BY <1>1, <1>2

LEMMA LabelNameFacts ==
  ASSUME NEW K, NEW f \in Commands, NEW o \in Kept(K)
  PROVE  /\ LabelName(f, o) \in Kept(K)
         /\ LabelName(f, o).kind = o.kind /\ LabelName(f, o).name = o.name
         /\ LabelName(f, o).images = o.images
         /\ Given(f.app) /\ o.kind # "Namespace" => HasLabel(LabelName(f, o), NameKey)
<1>1. CASE o.kind = "Namespace" \/ ~Given(f.app)
  <2>1. LabelName(f, o) = o
    BY <1>1 DEF LabelName, Given
  <2> QED
    BY <1>1, <2>1
<1>2. CASE ~(o.kind = "Namespace" \/ ~Given(f.app))
  <2>1. LabelName(f, o) = AddLabel(o, NameKey, f.app, FALSE)
    BY <1>2 DEF LabelName, Given
  <2>2. f.app \in STRING /\ NameKey \in LabelKeys
    BY FlagFacts, Constants
  <2> DEFINE d == AddLabel(o, NameKey, f.app, FALSE)
  <2>3. /\ d \in Kept(K) /\ d.kind = o.kind /\ d.name = o.name /\ d.images = o.images
    BY <2>2, AddLabelKeeps
  <2>4. HasLabel(d, NameKey)
    BY <1>2, <2>2, AddLabelGives
  <2> HIDE DEF d
  <2> QED
    BY <2>1, <2>3, <2>4 DEF d
<1> QED
  BY <1>1, <1>2

\* The documents that are not Namespaces have a label of key k.
AllHave(s, k) == \A i \in DOMAIN s : s[i].kind # "Namespace" => HasLabel(s[i], k)

\* What is saved as suggested.
LEMMA SuggestFacts ==
  ASSUME NEW K, NEW f \in Commands, NamesAreStrings(f), NEW list \in Seq(Kept(K))
  PROVE  /\ Suggest(f, list) \in Seq(Kept(K))
         /\ HasAll(f, Suggest(f, list))
         /\ Given(f.image) => AllUse(Suggest(f, list), f.image, "")
         /\ Given(f.app) => AllHave(Suggest(f, list), NameKey)
<1> DEFINE b == BaseObjects(f, list)
           s == AddService(f, b)
           a == AddApplication(f, s)
           n == AddNamespace(f, a)
           t == [i \in DOMAIN n |-> LabelName(f, n[i])]
<1>1. Suggest(f, list) = t
  BY DEF Suggest, Map
<1>2. b \in Seq(Kept(K)) /\ (Given(f.image) => AllUse(b, f.image, ""))
  BY BaseObjectsFacts
<1> HIDE DEF b
<1>3. /\ s \in Seq(Kept(K)) /\ (Given(f.image) => AllUse(s, f.image, ""))
      /\ Given(f.app) /\ f.expose => HasObject(s, "Service", ServiceName(f.app))
  BY <1>2, AddServiceFacts
<1> HIDE DEF s
<1>4. /\ a \in Seq(Kept(K)) /\ (Given(f.image) => AllUse(a, f.image, ""))
      /\ Given(f.app) /\ f.expose => HasObject(a, "Service", ServiceName(f.app))
      /\ Given(f.app) /\ f.cr => HasObject(a, "Application", f.app)
  BY <1>3, AddApplicationFacts
<1> HIDE DEF a
<1>5. n \in Seq(Kept(K)) /\ (Given(f.image) => AllUse(n, f.image, "")) /\ HasAll(f, n)
  BY <1>4, AddNamespaceFacts DEF HasAll
<1> HIDE DEF n
<1>6. n \in Seq(Kept(K)) /\ DOMAIN n = 1..Len(n) /\ Len(n) \in Nat
  <2>1. n \in Seq(Kept(K))
    BY <1>5
  <2> QED
    BY <2>1
<1>7. ASSUME NEW i \in DOMAIN n
      PROVE  /\ t[i] \in Kept(K) /\ t[i].kind = n[i].kind /\ t[i].name = n[i].name
             /\ t[i].images = n[i].images
             /\ Given(f.app) /\ n[i].kind # "Namespace" => HasLabel(t[i], NameKey)
  <2> DEFINE o == n[i]
  <2>1. o \in Kept(K)
    BY <1>6
  <2>2. t[i] = LabelName(f, o)
    OBVIOUS
  <2> HIDE DEF o, t
  <2>3. /\ t[i] \in Kept(K) /\ t[i].kind = o.kind /\ t[i].name = o.name
        /\ t[i].images = o.images
        /\ Given(f.app) /\ o.kind # "Namespace" => HasLabel(t[i], NameKey)
    BY <2>1, <2>2, LabelNameFacts
  <2> QED
    BY <2>3 DEF o
<1>8. t \in Seq(Kept(K)) /\ DOMAIN t = DOMAIN n
  <2>1. DOMAIN t = DOMAIN n /\ t = [i \in 1..Len(n) |-> t[i]]
    BY <1>6
  <2> HIDE DEF t
  <2> QED
    BY <1>6, <1>7, <2>1
<1> HIDE DEF t
<1>9. \A kind, name : HasObject(t, kind, name) = HasObject(n, kind, name)
  BY <1>7, <1>8, HasTheSame
<1>10. HasAll(f, t)
  BY <1>5, <1>9 DEF HasAll
<1>11. Given(f.image) => AllUse(t, f.image, "")
  BY <1>5, <1>7, <1>8 DEF AllUse, UsesOnly
<1>12. Given(f.app) => AllHave(t, NameKey)
  BY <1>7, <1>8 DEF AllHave
<1> QED
  BY <1>1, <1>8, <1>10, <1>11, <1>12

-----------------------------------------------------------------------------
(* Expand, and that it leaves alone what it has made.                       *)

\* The keys f gives labels for are in K, and so is the one of who manages an object.
Covers(f, K) == DOMAIN CreateMap(f.labels) \cap LabelKeys \subseteq K /\ ManagedByKey \in K

\* Document o has what ExpandObject gives it.
Marked(f, o) ==
  /\ Given(f.version) /\ o.kind # "Namespace" => HasLabel(o, VersionKey)
  /\ o.labels[ManagedByKey] = ManagedBy
  /\ o.kind \in Templated => o.template[ManagedByKey] = ManagedBy
  /\ Put(f, o.labels) = o.labels
  /\ o.kind \in Templated => Put(f, o.template) = o.template
  /\ o.kind = "Application" => o.links = f.links

LEMMA ManagedByFacts == ManagedBy \in STRING /\ Given(ManagedBy)
<1>1. ManagedBy \in STRING
  BY ObjectsAssumption
<1>2. Given(ManagedBy)
  BY DEF Given, ManagedBy
<1> QED
  BY <1>1, <1>2

LEMMA LabelVersionFacts ==
  ASSUME NEW K, NEW f \in Commands, NEW o \in Kept(K)
  PROVE  /\ LabelVersion(f, o) \in Kept(K)
         /\ LabelVersion(f, o).kind = o.kind /\ LabelVersion(f, o).name = o.name
         /\ LabelVersion(f, o).ns = o.ns /\ LabelVersion(f, o).images = o.images
         /\ \A j \in LabelKeys : HasLabel(o, j) => HasLabel(LabelVersion(f, o), j)
         /\ Given(f.version) /\ o.kind # "Namespace" =>
              HasLabel(LabelVersion(f, o), VersionKey)
<1>1. CASE o.kind = "Namespace" \/ ~Given(f.version)
  <2>1. LabelVersion(f, o) = o
    BY <1>1 DEF LabelVersion, Given
  <2> QED
    BY <1>1, <2>1
<1>2. CASE ~(o.kind = "Namespace" \/ ~Given(f.version))
  <2>1. LabelVersion(f, o) = AddLabel(o, VersionKey, f.version, FALSE)
    BY <1>2 DEF LabelVersion, Given
  <2>2. f.version \in STRING /\ VersionKey \in LabelKeys
    BY FlagFacts, Constants
  <2> DEFINE d == AddLabel(o, VersionKey, f.version, FALSE)
  <2>3. /\ d \in Kept(K) /\ d.kind = o.kind /\ d.name = o.name /\ d.ns = o.ns
        /\ d.images = o.images
    BY <2>2, AddLabelKeeps
  <2>4. HasLabel(d, VersionKey) /\ \A j \in LabelKeys : HasLabel(o, j) => HasLabel(d, j)
    BY <1>2, <2>2, AddLabelGives
  <2> HIDE DEF d
  <2> QED
    BY <2>1, <2>3, <2>4 DEF d
<1> QED
  BY <1>1, <1>2

\* The custom labels of a command replace the others of their keys, once and for all.
LEMMA LabelCustomGives ==
  ASSUME NEW K, NEW o \in Kept(K), NEW f \in Commands
  PROVE  /\ \A j \in LabelKeys \ DOMAIN CreateMap(f.labels) :
              /\ HasLabel(o, j) => HasLabel(LabelCustom(f, o), j)
              /\ LabelCustom(f, o).labels[j] = o.labels[j]
              /\ o.kind \in Templated => LabelCustom(f, o).template[j] = o.template[j]
         /\ Put(f, LabelCustom(f, o).labels) = LabelCustom(f, o).labels
         /\ o.kind \in Templated =>
              Put(f, LabelCustom(f, o).template) = LabelCustom(f, o).template
<1> DEFINE d == LabelCustom(f, o)
<1>1. o \in Document
  BY DEF Kept
<1>2. /\ d.labels = Put(f, o.labels) /\ d.kind = o.kind
      /\ o.kind \in Templated => d.template = Put(f, o.template)
  BY <1>1 DEF LabelCustom, Put, Document
<1>3. \A m : Put(f, Put(f, m)) = Put(f, m)
  BY DEF Put
<1>4. ASSUME NEW j \in LabelKeys \ DOMAIN CreateMap(f.labels)
      PROVE  \A m : Put(f, m)[j] = m[j]
  BY DEF Put
<1> HIDE DEF d
<1>5. ASSUME NEW j \in LabelKeys \ DOMAIN CreateMap(f.labels)
      PROVE  /\ HasLabel(o, j) => HasLabel(d, j)
             /\ d.labels[j] = o.labels[j]
             /\ o.kind \in Templated => d.template[j] = o.template[j]
  <2>1. d.labels[j] = o.labels[j] /\ (o.kind \in Templated => d.template[j] = o.template[j])
    BY <1>2, <1>4
  <2> QED
    BY <1>2, <2>1 DEF HasLabel
<1> QED
  BY <1>2, <1>3, <1>5 DEF d

LEMMA ExpandObjectFacts ==
  ASSUME NEW K, NEW f \in Commands, NEW o \in Kept(K), Covers(f, K), LabelsAllowed(f)
  PROVE  /\ ExpandObject(f, o) \in Kept(K)
         /\ ExpandObject(f, o).kind = o.kind /\ ExpandObject(f, o).name = o.name
         /\ ExpandObject(f, o).ns = o.ns /\ ExpandObject(f, o).images = o.images
         /\ HasLabel(o, NameKey) => HasLabel(ExpandObject(f, o), NameKey)
         /\ Marked(f, ExpandObject(f, o))
<1> DEFINE v == LabelVersion(f, o)
           m == AddLabel(v, ManagedByKey, ManagedBy, TRUE)
           c == LabelCustom(f, m)
           e == SetApplicationLinks(c, f.links)
           Free == LabelKeys \ DOMAIN CreateMap(f.labels)
           Same(x, y) ==
             x.kind = y.kind /\ x.name = y.name /\ x.ns = y.ns /\ x.images = y.images
<1>1. ExpandObject(f, o) = e
  BY DEF ExpandObject
<1>2. /\ f.labels \in Seq(STRING \X STRING) /\ f.links \in Seq(STRING)
      /\ NameKey \in Free /\ VersionKey \in Free /\ ManagedByKey \in Free
      /\ ManagedByKey \in LabelKeys
  BY FlagFacts, Constants DEF LabelsAllowed, Reserved
<1>3. /\ v \in Kept(K) /\ Same(v, o)
      /\ \A j \in LabelKeys : HasLabel(o, j) => HasLabel(v, j)
      /\ Given(f.version) /\ o.kind # "Namespace" => HasLabel(v, VersionKey)
  BY LabelVersionFacts
<1> HIDE DEF v
<1>4. v \in Kept(K) /\ ManagedByKey \in LabelKeys /\ ManagedByKey \in K
  BY <1>2, <1>3 DEF Covers
<1>5. m \in Kept(K) /\ Same(m, v)
  <2>1. ASSUME NEW b \in BOOLEAN, b
        PROVE  LET d == AddLabel(v, ManagedByKey, ManagedBy, b)
               IN  d \in Kept(K) /\ Same(d, v)
    <3>1. b => ManagedByKey \in K
      BY <1>4
    <3>2. v \in Kept(K) /\ ManagedByKey \in LabelKeys /\ ManagedBy \in STRING
      BY <1>4, ManagedByFacts
    <3> QED
      BY <3>1, <3>2, AddLabelKeeps
  <2> QED
    BY <2>1
<1>6. /\ \A j \in LabelKeys : HasLabel(v, j) => HasLabel(m, j)
      /\ m.labels[ManagedByKey] = ManagedBy
      /\ v.kind \in Templated => m.template[ManagedByKey] = ManagedBy
  <2>1. ASSUME NEW b \in BOOLEAN, b
        PROVE  LET d == AddLabel(v, ManagedByKey, ManagedBy, b)
               IN  /\ \A j \in LabelKeys : HasLabel(v, j) => HasLabel(d, j)
                   /\ d.labels[ManagedByKey] = ManagedBy
                   /\ v.kind \in Templated => d.template[ManagedByKey] = ManagedBy
    BY <1>4, <2>1, ManagedByFacts, AddLabelGives
  <2> QED
    BY <2>1
<1> HIDE DEF m
<1>7. c \in Kept(K) /\ Same(c, m)
  BY <1>2, <1>5, LabelCustomKeeps DEF Covers
<1>8. /\ \A j \in Free : /\ HasLabel(m, j) => HasLabel(c, j)
                         /\ c.labels[j] = m.labels[j]
                         /\ m.kind \in Templated => c.template[j] = m.template[j]
      /\ Put(f, c.labels) = c.labels
      /\ m.kind \in Templated => Put(f, c.template) = c.template
  BY <1>5, LabelCustomGives
<1> HIDE DEF c
<1>9. e \in Kept(K) /\ Same(e, c)
  BY <1>2, <1>7, SetApplicationLinksFacts
<1>10. /\ e.labels = c.labels /\ e.template = c.template
       /\ e.kind = "Application" => e.links = f.links
  <2>1. c \in Document
    BY <1>7 DEF Kept
  <2> QED
    BY <2>1 DEF SetApplicationLinks, Document
<1> HIDE DEF e
<1>11. Same(e, o)
  BY <1>3, <1>5, <1>7, <1>9
<1>12. HasLabel(o, NameKey) => HasLabel(e, NameKey)
  <2>1. HasLabel(o, NameKey) => HasLabel(c, NameKey)
    BY <1>2, <1>3, <1>6, <1>8
  <2> QED
    BY <1>9, <1>10, <2>1 DEF HasLabel
<1>13. Given(f.version) /\ e.kind # "Namespace" => HasLabel(e, VersionKey)
  <2>1. Given(f.version) /\ o.kind # "Namespace" => HasLabel(c, VersionKey)
    BY <1>2, <1>3, <1>6, <1>8
  <2> QED
    BY <1>9, <1>10, <1>11, <2>1 DEF HasLabel
<1>14. /\ e.labels[ManagedByKey] = ManagedBy
       /\ e.kind \in Templated => e.template[ManagedByKey] = ManagedBy
  BY <1>2, <1>3, <1>5, <1>6, <1>8, <1>10, <1>11
<1>15. /\ Put(f, e.labels) = e.labels
       /\ e.kind \in Templated => Put(f, e.template) = e.template
  BY <1>7, <1>8, <1>9, <1>10
<1>16. Marked(f, e)
  BY <1>10, <1>13, <1>14, <1>15 DEF Marked
<1> QED
  BY <1>1, <1>9, <1>11, <1>12, <1>16

\* What ExpandImage and ExpandNamespace make of document o.
ImageOf(f, o, r) ==
  IF Given(f.image) /\ o.kind \in WithContainers THEN WithImage(o, f.image, r) ELSE o
NamespaceOf(f, o) ==
  IF Given(f.namespace) THEN [o EXCEPT !.ns = f.namespace]
  ELSE IF Given(o.ns) THEN o ELSE [o EXCEPT !.ns = "default"]
ExpandOne(f, o, r) == ExpandObject(f, NamespaceOf(f, ImageOf(f, o, r)))

InNamespace(f, o) == IF Given(f.namespace) THEN o.ns = f.namespace ELSE Given(o.ns)

\* Document o has all that Suggest and Expand give it.
Settled(f, o, r) ==
  /\ Given(f.app) /\ o.kind # "Namespace" => HasLabel(o, NameKey)
  /\ Given(f.image) => UsesOnly(o, f.image, r)
  /\ InNamespace(f, o)
  /\ Marked(f, o)

LEMMA ExpandIsPointwise ==
  ASSUME NEW f, NEW list, NEW r
  PROVE  Expand(f, list, r) = [i \in DOMAIN list |-> ExpandOne(f, list[i], r)]
<1> DEFINE u == [i \in DOMAIN list |-> ImageOf(f, list[i], r)]
           n == [i \in DOMAIN list |-> NamespaceOf(f, u[i])]
<1>1. DOMAIN u = DOMAIN list /\ DOMAIN n = DOMAIN list
  OBVIOUS
<1>2. Map(LAMBDA o : ExpandObject(f, o), n) = [i \in DOMAIN list |-> ExpandObject(f, n[i])]
  BY DEF Map
<1>3. ExpandNamespace(f, u) = n
  BY DEF ExpandNamespace, UpdateNamespace, AddNamespaceIfMissing, Map, NamespaceOf, Given
<1>4. [i \in DOMAIN list |-> ExpandObject(f, n[i])]
        = [i \in DOMAIN list |-> ExpandOne(f, list[i], r)]
  BY DEF ExpandOne
<1>5. Expand(f, list, r)
        = Map(LAMBDA o : ExpandObject(f, o), ExpandNamespace(f, ExpandImage(f, list, r)))
  BY DEF Expand
<1>6. CASE Given(f.image)
  <2>1. ExpandImage(f, list, r) = u
    BY <1>6 DEF ExpandImage, UpdateMatchingContainerImage, Map, ImageOf, Given
  <2> HIDE DEF u, n
  <2> QED
    BY <1>2, <1>3, <1>4, <1>5, <2>1
<1>7. CASE ~Given(f.image)
  <2>1. ExpandImage(f, list, r) = list
    BY <1>7 DEF ExpandImage, Given
  <2>2. ExpandNamespace(f, list) = n
    BY <1>7 DEF ExpandNamespace, UpdateNamespace, AddNamespaceIfMissing, Map, NamespaceOf,
                ImageOf, Given
  <2> HIDE DEF u, n
  <2> QED
    BY <1>2, <1>4, <1>5, <2>1, <2>2
<1> QED
  BY <1>6, <1>7

\* What WithImage and NamespaceOf leave alone.
SameLabels(x, y) == x.kind = y.kind /\ x.labels = y.labels /\ x.template = y.template

LEMMA ImageOfFacts ==
  ASSUME NEW K, NEW f \in Commands, NEW o \in Kept(K), NEW r \in STRING
  PROVE  /\ ImageOf(f, o, r) \in Kept(K)
         /\ ImageOf(f, o, r).name = o.name /\ ImageOf(f, o, r).ns = o.ns
         /\ SameLabels(ImageOf(f, o, r), o)
         /\ Given(f.image) => UsesOnly(ImageOf(f, o, r), f.image, r)
<1>1. o \in Document /\ f.image \in STRING
  BY FlagFacts DEF Kept
<1>2. CASE Given(f.image) /\ o.kind \in WithContainers
  <2> DEFINE w == WithImage(o, f.image, r)
  <2>1. ImageOf(f, o, r) = w
    BY <1>2 DEF ImageOf
  <2>2. w.ns = o.ns /\ SameLabels(w, o)
    BY <1>1 DEF WithImage, SameLabels, Document
  <2>3. w \in Kept(K) /\ w.name = o.name /\ UsesOnly(w, f.image, r)
    BY <1>1, <1>2, WithImageFacts
  <2> HIDE DEF w
  <2> QED
    BY <2>1, <2>2, <2>3
<1>3. CASE o.kind \notin WithContainers
  <2>1. ImageOf(f, o, r) = o
    BY <1>3 DEF ImageOf
  <2>2. UsesOnly(o, f.image, r)
    BY <1>1, <1>3, DocumentFacts DEF UsesOnly
  <2> QED
    BY <2>1, <2>2 DEF SameLabels
<1>4. CASE ~Given(f.image)
  <2>1. ImageOf(f, o, r) = o
    BY <1>4 DEF ImageOf
  <2> QED
    BY <1>4, <2>1 DEF SameLabels
<1> QED
  BY <1>2, <1>3, <1>4

LEMMA NamespaceOfFacts ==
  ASSUME NEW K, NEW f \in Commands, NEW o \in Kept(K)
  PROVE  /\ NamespaceOf(f, o) \in Kept(K)
         /\ NamespaceOf(f, o).name = o.name /\ NamespaceOf(f, o).images = o.images
         /\ SameLabels(NamespaceOf(f, o), o)
         /\ InNamespace(f, NamespaceOf(f, o))
<1>1. "default" \in STRING /\ Given("default") /\ f.namespace \in STRING
  BY ObjectsAssumption, FlagFacts DEF Given
<1>2. o \in Document
  BY DEF Kept
<1>3. ASSUME NEW ns \in STRING
      PROVE  LET d == [o EXCEPT !.ns = ns]
             IN  /\ d \in Kept(K) /\ d.name = o.name /\ d.images = o.images /\ d.ns = ns
                 /\ SameLabels(d, o)
  <2>1. SameLabels([o EXCEPT !.ns = ns], o)
    BY <1>2 DEF Document, SameLabels
  <2> QED
    BY <2>1, WithNamespaceFacts
<1>4. CASE Given(f.namespace)
  <2>1. NamespaceOf(f, o) = [o EXCEPT !.ns = f.namespace]
    BY <1>4 DEF NamespaceOf
  <2> QED
    BY <1>1, <1>3, <1>4, <2>1 DEF InNamespace
<1>5. CASE ~Given(f.namespace) /\ Given(o.ns)
  <2>1. NamespaceOf(f, o) = o
    BY <1>5 DEF NamespaceOf
  <2> QED
    BY <1>5, <2>1 DEF InNamespace, SameLabels
<1>6. CASE ~Given(f.namespace) /\ ~Given(o.ns)
  <2>1. NamespaceOf(f, o) = [o EXCEPT !.ns = "default"]
    BY <1>6 DEF NamespaceOf
  <2> QED
    BY <1>1, <1>3, <1>6, <2>1 DEF InNamespace
<1> QED
  BY <1>4, <1>5, <1>6

LEMMA ExpandOneFacts ==
  ASSUME NEW K, NEW f \in Commands, NEW o \in Kept(K), NEW r \in STRING,
         Covers(f, K), LabelsAllowed(f),
         Given(f.app) /\ o.kind # "Namespace" => HasLabel(o, NameKey)
  PROVE  /\ ExpandOne(f, o, r) \in Kept(K)
         /\ ExpandOne(f, o, r).kind = o.kind /\ ExpandOne(f, o, r).name = o.name
         /\ Settled(f, ExpandOne(f, o, r), r)
<1> DEFINE u == ImageOf(f, o, r)
           n == NamespaceOf(f, u)
           e == ExpandObject(f, n)
<1>1. ExpandOne(f, o, r) = e
  BY DEF ExpandOne
<1>2. /\ u \in Kept(K) /\ u.name = o.name /\ SameLabels(u, o)
      /\ Given(f.image) => UsesOnly(u, f.image, r)
  BY ImageOfFacts
<1> HIDE DEF u
<1>3. /\ n \in Kept(K) /\ n.name = u.name /\ n.images = u.images /\ SameLabels(n, u)
      /\ InNamespace(f, n)
  BY <1>2, NamespaceOfFacts
<1> HIDE DEF n
<1>4. /\ e \in Kept(K) /\ e.kind = n.kind /\ e.name = n.name /\ e.ns = n.ns
      /\ e.images = n.images /\ Marked(f, e)
      /\ HasLabel(n, NameKey) => HasLabel(e, NameKey)
  BY <1>3, ExpandObjectFacts
<1> HIDE DEF e
<1>5. e.kind = o.kind /\ e.name = o.name
  BY <1>2, <1>3, <1>4 DEF SameLabels
<1>6. Given(f.app) /\ e.kind # "Namespace" => HasLabel(e, NameKey)
  BY <1>2, <1>3, <1>4, <1>5 DEF SameLabels, HasLabel
<1>7. Given(f.image) => UsesOnly(e, f.image, r)
  BY <1>2, <1>3, <1>4 DEF UsesOnly
<1>8. InNamespace(f, e)
  BY <1>3, <1>4 DEF InNamespace
<1>9. Settled(f, e, r)
  BY <1>4, <1>6, <1>7, <1>8 DEF Settled
<1> QED
  BY <1>1, <1>4, <1>5, <1>9

AllSettled(f, s, r) == \A i \in DOMAIN s : Settled(f, s[i], r)

\* What is saved as expanded.
LEMMA ExpandFacts ==
  ASSUME NEW K, NEW f \in Commands, NEW list \in Seq(Kept(K)), NEW r \in STRING,
         Covers(f, K), LabelsAllowed(f), HasAll(f, list),
         Given(f.app) => AllHave(list, NameKey)
  PROVE  /\ Expand(f, list, r) \in Seq(Kept(K))
         /\ HasAll(f, Expand(f, list, r))
         /\ AllSettled(f, Expand(f, list, r), r)
<1> DEFINE e == [i \in DOMAIN list |-> ExpandOne(f, list[i], r)]
<1>1. Expand(f, list, r) = e
  BY ExpandIsPointwise
<1>2. ASSUME NEW i \in DOMAIN list
      PROVE  /\ e[i] \in Kept(K) /\ e[i].kind = list[i].kind /\ e[i].name = list[i].name
             /\ Settled(f, e[i], r)
  <2> DEFINE o == list[i]
             d == ExpandOne(f, o, r)
  <2>1. o \in Kept(K)
    OBVIOUS
  <2>2. Given(f.app) /\ o.kind # "Namespace" => HasLabel(o, NameKey)
    BY DEF AllHave
  <2>3. e[i] = d
    OBVIOUS
  <2> HIDE DEF o
  <2>4. d \in Kept(K) /\ d.kind = o.kind /\ d.name = o.name /\ Settled(f, d, r)
    BY <2>1, <2>2, ExpandOneFacts
  <2> HIDE DEF d, e
  <2> QED
    BY <2>3, <2>4 DEF o
<1>3. DOMAIN list = 1..Len(list) /\ Len(list) \in Nat
  OBVIOUS
<1>4. DOMAIN e = DOMAIN list /\ e = [i \in 1..Len(list) |-> e[i]]
  BY <1>3
<1> HIDE DEF e
<1>5. e \in Seq(Kept(K))
  BY <1>2, <1>3, <1>4
<1>6. \A kind, name : HasObject(e, kind, name) = HasObject(list, kind, name)
  BY <1>2, <1>4, HasTheSame
<1>7. HasAll(f, e)
  BY <1>6 DEF HasAll
<1>8. AllSettled(f, e, r)
  BY <1>2, <1>4 DEF AllSettled
<1> QED
  BY <1>1, <1>5, <1>7, <1>8

\* A label that is there is not put again.
LEMMA AddLabelAgain ==
  ASSUME NEW o \in Document, NEW k \in LabelKeys, NEW x, HasLabel(o, k)
  PROVE  AddLabel(o, k, x, FALSE) = o
<1>1. o.labels \in Maps /\ o.template \in Maps
  BY DocumentFacts
<1>2. AddToMap(o.labels, k, x, FALSE) = o.labels
  BY DEF AddToMap, HasLabel, Given
<1>3. o.kind \in Templated => AddToMap(o.template, k, x, FALSE) = o.template
  BY DEF AddToMap, HasLabel, Given
<1> QED
  BY <1>2, <1>3 DEF AddLabel, Document

\* The document Suggest sees on the way, with the image unpinned, is expanded
\* to the one it comes from.
LEMMA ExpandAgain ==
  ASSUME NEW K, NEW f \in Commands, NEW o \in Kept(K), NEW r \in STRING, Settled(f, o, r)
  PROVE  ExpandOne(f, LabelName(f, ImageOf(f, o, "")), r) = o
<1> DEFINE u == ImageOf(f, o, "")
<1>1. o \in Document /\ "" \in STRING /\ f.image \in STRING
  BY ObjectsAssumption, FlagFacts DEF Kept
<1>2. u \in Kept(K) /\ SameLabels(u, o)
  BY <1>1, ImageOfFacts
<1>3. LabelName(f, u) = u
  <2> HIDE DEF u
  <2>1. CASE u.kind = "Namespace" \/ ~Given(f.app)
    BY <2>1 DEF LabelName, Given
  <2>2. CASE ~(u.kind = "Namespace" \/ ~Given(f.app))
    <3>1. HasLabel(u, NameKey)
      BY <1>2, <2>2 DEF Settled, SameLabels, HasLabel
    <3>2. LabelName(f, u) = AddLabel(u, NameKey, f.app, FALSE)
      BY <2>2 DEF LabelName, Given
    <3> QED
      BY <1>2, <3>1, <3>2, Constants, AddLabelAgain DEF Kept
  <2> QED
    BY <2>1, <2>2
<1>4. ImageOf(f, u, r) = o
  <2>1. CASE Given(f.image) /\ o.kind \in WithContainers
    <3> DEFINE A(s, x) == [i \in DOMAIN s |-> IF s[i].name = f.image
                                              THEN [name |-> f.image, ref |-> x] ELSE s[i]]
    <3>1. o.images \in Images
      BY <1>1, DocumentFacts
    <3>2. A(A(o.images, ""), r) = o.images
      <4>1. UsesOnly(o, f.image, r)
        BY <2>1 DEF Settled
      <4>2. ASSUME NEW i \in DOMAIN o.images
            PROVE  A(A(o.images, ""), r)[i] = o.images[i]
        <5>1. o.images[i] \in [name : STRING, ref : STRING]
          BY <3>1, ElementOf DEF Images
        <5>2. o.images[i].name = f.image => o.images[i] = [name |-> f.image, ref |-> r]
          BY <4>1, <5>1 DEF UsesOnly
        <5> QED
          BY <5>1, <5>2
      <4>3. o.images = [i \in DOMAIN o.images |-> o.images[i]]
        <5> HIDE DEF A
        <5> QED
          BY <3>1 DEF Images
      <4>4. A(A(o.images, ""), r) = [i \in DOMAIN o.images |-> A(A(o.images, ""), r)[i]]
        OBVIOUS
      <4> HIDE DEF A
      <4> QED
        BY <4>2, <4>3, <4>4
    <3>3. u = [o EXCEPT !.images = A(o.images, "")]
      BY <1>1, <2>1 DEF ImageOf, WithImage, Document
    <3>4. /\ u.kind = o.kind /\ u.images = A(o.images, "")
      <4> HIDE DEF A, u
      <4> QED
        BY <1>1, <3>3 DEF Document
    <3>5. ImageOf(f, u, r) = [u EXCEPT !.images = A(u.images, r)]
      <4>1. u \in Document
        BY <1>2 DEF Kept
      <4> HIDE DEF u
      <4> QED
        BY <2>1, <3>4, <4>1 DEF ImageOf, WithImage, Document
    <3> HIDE DEF A, u
    <3>6. ImageOf(f, u, r) = [u EXCEPT !.images = o.images]
      BY <3>2, <3>4, <3>5
    <3> QED
      BY <1>1, <3>3, <3>6 DEF Document
  <2>2. CASE ~(Given(f.image) /\ o.kind \in WithContainers)
    BY <2>2 DEF ImageOf
  <2> QED
    BY <2>1, <2>2
<1>5. NamespaceOf(f, o) = o
  BY <1>1 DEF NamespaceOf, Settled, InNamespace, Document
<1>6. ExpandObject(f, o) = o
  <2>1. LabelVersion(f, o) = o
    <3>1. CASE o.kind = "Namespace" \/ ~Given(f.version)
      BY <3>1 DEF LabelVersion, Given
    <3>2. CASE ~(o.kind = "Namespace" \/ ~Given(f.version))
      <4>1. HasLabel(o, VersionKey)
        BY <3>2 DEF Settled, Marked
      <4>2. LabelVersion(f, o) = AddLabel(o, VersionKey, f.version, FALSE)
        BY <3>2 DEF LabelVersion, Given
      <4> QED
        BY <1>1, <4>1, <4>2, Constants, AddLabelAgain
    <3> QED
      BY <3>1, <3>2
  <2>2. AddLabel(o, ManagedByKey, ManagedBy, TRUE) = o
    <3>1. o.labels \in Maps /\ o.template \in Maps
      BY <1>1, DocumentFacts
    <3>2. AddToMap(o.labels, ManagedByKey, ManagedBy, TRUE) = o.labels
      BY <3>1 DEF AddToMap, Settled, Marked, Maps
    <3>3. o.kind \in Templated =>
            AddToMap(o.template, ManagedByKey, ManagedBy, TRUE) = o.template
      BY <3>1 DEF AddToMap, Settled, Marked, Maps
    <3> QED
      BY <1>1, <3>2, <3>3 DEF AddLabel, Document
  <2>3. LabelCustom(f, o) = o
    <3>1. /\ Put(f, o.labels) = o.labels
          /\ o.kind \in Templated => Put(f, o.template) = o.template
      BY DEF Settled, Marked
    <3>2. LabelCustom(f, o) = [o EXCEPT !.labels = Put(f, o.labels),
            !.template = IF o.kind \in Templated THEN Put(f, o.template) ELSE o.template]
      BY <1>1 DEF LabelCustom, Put, Document
    <3>3. [o EXCEPT !.labels = o.labels, !.template = o.template] = o
      BY <1>1 DEF Document
    <3> QED
      BY <3>1, <3>2, <3>3
  <2>4. SetApplicationLinks(o, f.links) = o
    BY <1>1 DEF SetApplicationLinks, Settled, Marked, Document
  <2> QED
    BY <2>1, <2>2, <2>3, <2>4 DEF ExpandObject
<1> HIDE DEF u
<1> QED
  BY <1>3, <1>4, <1>5, <1>6 DEF ExpandOne, u

\* When all is there Suggest adds no document.
LEMMA SuggestAgain ==
  ASSUME NEW K, NEW f \in Commands, NEW list \in Seq(Kept(K)), HasAll(f, list),
         f.file # <<>>
  PROVE  /\ DOMAIN Suggest(f, list) = DOMAIN list
         /\ \A i \in DOMAIN list :
              Suggest(f, list)[i] = LabelName(f, ImageOf(f, list[i], ""))
<1> DEFINE b == BaseObjects(f, list)
           t == [i \in DOMAIN b |-> LabelName(f, b[i])]
<1>1. DOMAIN b = DOMAIN list /\ \A i \in DOMAIN list : b[i] = ImageOf(f, list[i], "")
  <2>1. CASE Given(f.image)
    BY <2>1 DEF BaseObjects, UpdateMatchingContainerImage, Map, ImageOf, Given
  <2>2. CASE ~Given(f.image)
    BY <2>2 DEF BaseObjects, ImageOf, Given
  <2> QED
    BY <2>1, <2>2
<1>2. ASSUME NEW i \in DOMAIN list
      PROVE  b[i].kind = list[i].kind /\ b[i].name = list[i].name
  <2> DEFINE o == list[i]
  <2>1. o \in Kept(K)
    OBVIOUS
  <2>2. "" \in STRING
    BY ObjectsAssumption
  <2> HIDE DEF o
  <2>3. ImageOf(f, o, "").kind = o.kind /\ ImageOf(f, o, "").name = o.name
    BY <2>1, <2>2, ImageOfFacts DEF SameLabels
  <2>4. b[i] = ImageOf(f, o, "")
    BY <1>1 DEF o
  <2> QED
    BY <2>3, <2>4 DEF o
<1> HIDE DEF b
<1>3. \A kind, name : HasObject(b, kind, name) = HasObject(list, kind, name)
  BY <1>1, <1>2, HasTheSame
<1>4. HasAll(f, b)
  BY <1>3 DEF HasAll
<1>5. AddService(f, b) = b
  BY <1>4 DEF AddService, HasAll, Given
<1>6. AddApplication(f, b) = b
  BY <1>4 DEF AddApplication, HasAll, Given
<1>7. AddNamespace(f, b) = b
  BY <1>4 DEF AddNamespace, HasAll, Special
<1>8. Suggest(f, list) = t
  BY <1>5, <1>6, <1>7 DEF Suggest, Map, b
<1> QED
  BY <1>1, <1>8

\* What was expanded, prepared once more, is as it was.
LEMMA PreparedAgain ==
  ASSUME NEW K, NEW f \in Commands, NEW list \in Seq(Kept(K)), NEW r \in STRING,
         HasAll(f, list), AllSettled(f, list, r), f.file # <<>>
  PROVE  Expand(f, Suggest(f, list), r) = list
<1> DEFINE s == Suggest(f, list)
<1>1. /\ DOMAIN s = DOMAIN list
      /\ \A i \in DOMAIN list : s[i] = LabelName(f, ImageOf(f, list[i], ""))
  BY SuggestAgain
<1> HIDE DEF s
<1>2. Expand(f, s, r) = [i \in DOMAIN s |-> ExpandOne(f, s[i], r)]
  BY ExpandIsPointwise
<1>3. ASSUME NEW i \in DOMAIN list PROVE ExpandOne(f, s[i], r) = list[i]
  <2> DEFINE o == list[i]
  <2>1. o \in Kept(K)
    OBVIOUS
  <2>2. Settled(f, o, r)
    BY DEF AllSettled
  <2> HIDE DEF o
  <2>3. ExpandOne(f, LabelName(f, ImageOf(f, o, "")), r) = o
    BY <2>1, <2>2, ExpandAgain
  <2>4. s[i] = LabelName(f, ImageOf(f, o, ""))
    BY <1>1 DEF o
  <2> QED
    BY <2>3, <2>4 DEF o
<1>4. Expand(f, s, r) = [i \in DOMAIN list |-> list[i]]
  BY <1>1, <1>2, <1>3
<1>5. list = [i \in DOMAIN list |-> list[i]]
  OBVIOUS
<1> QED
  BY <1>4, <1>5 DEF s

-----------------------------------------------------------------------------
(* The inductive invariant.                                                 *)

Stages == {"idle", "start", "read", "suggest", "resolve", "expand", "apply",
           "exited", "failed"}

\* The keys whose labels may part a workload from its pods, and all lists of
\* documents whose workloads nothing else parts from theirs.
LooseKeys == {k \in LabelKeys : k = ManagedByKey \/ GivenAsLabel(k)}
Docs == Seq(Kept(LooseKeys))

PTypeOK ==
  /\ plan \in Plans
  /\ at \in [Builds -> Nat]
  /\ pc \in [Builds -> Stages]
  /\ objs \in [Builds -> Docs]
  /\ digest \in [Builds -> STRING]
  /\ handed \in [Builds -> Docs]
  /\ tree \in [Builds -> [Dirs -> Docs]]
  /\ bucket \in [Dirs -> Docs]
  /\ tag \in Digests
  /\ stood \in [Builds -> SUBSET Digests]
  /\ \A b \in Builds : tag \in stood[b]
  /\ \A b \in Builds : pc[b] # "idle" => at[b] \in DOMAIN plan[b]

\* The documents o of command f, which has come to p, with digest r and
\* directories t, while the tag stood for the digests in m.
Between(f, p, o) ==
  p \in {"resolve", "expand"} =>
    HasAll(f, o) /\ (Given(f.app) => AllHave(o, NameKey))

Ended(f, p) == p \in {"apply", "exited"} /\ f.cmd # "apply"

Complete(f, p, o, r) == Ended(f, p) => HasAll(f, o) /\ AllSettled(f, o, r)

Resolved(f, p, r, m) == p = "expand" \/ Ended(f, p) => (Given(f.image) => r \in m)

Unpinned(f, p, t) ==
  p \in {"resolve", "expand"} \/ Ended(f, p) =>
    (Given(f.image) /\ ~IsGcs(f.output) => AllUse(t[Suggested(f)], f.image, ""))

\* What `run` has saved where nothing else comes in between.
SavedHere(f, p, o, t) ==
  p = "apply" /\ f.cmd = "run" /\ ~IsGcs(f.output) =>
    /\ t[Expanded(f)] = o
    /\ \A e \in Dirs : IsPrefix(Expanded(f), e) /\ e # Expanded(f) => t[e] = NoDocs

OnItsOwn(f, p, o, r, t, m) ==
  /\ Between(f, p, o) /\ Complete(f, p, o, r) /\ Resolved(f, p, r, m)
  /\ Unpinned(f, p, t) /\ SavedHere(f, p, o, t)

\* Documents that build b has prepared, or another one with the same output.
PreparedBy(b, docs) ==
  \/ docs = objs[b]
  \/ /\ IsGcs(Command(b).output) /\ <<Expanded(Command(b)), docs>> \in made
     /\ \E c \in Builds \ {b} : \E i \in DOMAIN plan[c] :
          plan[c][i].output = Command(b).output /\ GoesWith(docs, plan[c][i].namespace)

Uploaded(b) ==
  pc[b] = "apply" /\ Command(b).cmd = "run" /\ IsGcs(Command(b).output) =>
    PreparedBy(b, bucket[Expanded(Command(b))])

HandedOver(b) ==
  pc[b] = "exited" /\ Command(b).cmd = "run" => PreparedBy(b, handed[b])

PInv ==
  /\ PTypeOK
  /\ \A b \in Builds : pc[b] # "idle" =>
       /\ OnItsOwn(Command(b), pc[b], objs[b], digest[b], tree[b], stood[b])
       /\ Uploaded(b) /\ HandedOver(b)

-----------------------------------------------------------------------------
(* Paths, and what is read from them.                                       *)

LEMMA AppendInjective ==
  ASSUME NEW S, NEW s \in Seq(S), NEW t \in Seq(S), NEW x, NEW y,
         Append(s, x) = Append(t, y)
  PROVE  s = t /\ x = y
<1>1. Len(Append(s, x)) = Len(s) + 1 /\ Len(Append(t, y)) = Len(t) + 1
  OBVIOUS
<1>2. Len(s) = Len(t)
  BY <1>1
<1>3. Append(s, x)[Len(s) + 1] = x /\ Append(t, y)[Len(t) + 1] = y
  OBVIOUS
<1>4. \A i \in 1..Len(s) : Append(s, x)[i] = s[i] /\ Append(t, y)[i] = t[i]
  BY <1>2
<1> QED
  BY <1>2, <1>3, <1>4

LEMMA OutputFacts ==
  ASSUME NEW f \in Commands, NEW g \in Commands
  PROVE  /\ Suggested(f) # Expanded(g)
         /\ Expanded(f) = Expanded(g) => f.output = g.output
         /\ IsGcs(Suggested(f)) = IsGcs(f.output)
         /\ IsGcs(Expanded(f)) = IsGcs(f.output)
<1>1. f.output \in Seq(STRING) /\ g.output \in Seq(STRING)
  BY FlagFacts
<1>2. \A s, t \in Seq(STRING) : \A x, y : Append(s, x) = Append(t, y) => s = t /\ x = y
  BY AppendInjective
<1>3. Suggested(f) # Expanded(g)
  <2>1. "suggested" # "expanded"
    OBVIOUS
  <2> QED
    BY <1>1, <1>2, <2>1 DEF Suggested, Expanded
<1>4. Expanded(f) = Expanded(g) => f.output = g.output
  BY <1>1, <1>2 DEF Expanded
<1>5. \A s \in Seq(STRING) : \A x : Append(s, x) # <<>>
  <2>1. \A s \in Seq(STRING) : \A x : Len(Append(s, x)) = Len(s) + 1
    OBVIOUS
  <2>2. \A s \in Seq(STRING) : Len(s) + 1 # 0
    OBVIOUS
  <2> QED
    BY <2>1, <2>2
<1>6. ASSUME NEW s \in Seq(STRING), NEW x, x # "gs://"
      PROVE  IsGcs(Append(s, x)) = IsGcs(s)
  <2>1. Append(s, x) # <<>>
    BY <1>5
  <2>2. CASE s = <<>>
    <3>1. Append(s, x)[1] = x
      BY <2>2
    <3> QED
      BY <1>6, <2>2, <3>1 DEF IsGcs
  <2>3. CASE s # <<>>
    <3>1. Append(s, x)[1] = s[1]
      BY <2>3
    <3> QED
      BY <2>1, <2>3, <3>1 DEF IsGcs
  <2> QED
    BY <2>2, <2>3
<1>7. IsGcs(Suggested(f)) = IsGcs(f.output)
  BY <1>1, <1>6 DEF Suggested
<1>8. IsGcs(Expanded(f)) = IsGcs(f.output)
  BY <1>1, <1>6 DEF Expanded
<1> QED
  BY <1>3, <1>4, <1>7, <1>8

LEMMA DirFacts ==
  ASSUME NEW d \in Dirs
  PROVE  d \in Seq(STRING)
BY PrepareAssumption, ElementOf DEF Dirs

\* A directory that a local one is a prefix of is local.
LEMMA PrefixFacts ==
  ASSUME NEW s \in Seq(STRING), NEW t \in Seq(STRING), s # <<>>, IsPrefix(s, t)
  PROVE  IsGcs(s) = IsGcs(t)
<1>1. Len(s) <= Len(t) /\ Len(s) \in Nat \ {0} /\ Len(t) \in Nat
  BY DEF IsPrefix
<1>2. SubSeq(s, 1, Len(s)) = SubSeq(t, 1, Len(s))
  BY DEF IsPrefix
<1>3. SubSeq(s, 1, Len(s))[1] = s[1] /\ SubSeq(t, 1, Len(s))[1] = t[1]
  BY <1>1
<1>4. t # <<>>
  BY <1>1
<1> QED
  BY <1>2, <1>3, <1>4 DEF IsGcs

LEMMA PrefixOfPrefix ==
  ASSUME NEW S, NEW s \in Seq(S), NEW x \in S, NEW t \in Seq(S), IsPrefix(Append(s, x), t)
  PROVE  IsPrefix(s, t)
<1> DEFINE u == Append(s, x)
           n == Len(s)
<1>1. /\ Len(u) = n + 1 /\ n \in Nat /\ Len(t) \in Nat /\ u \in Seq(S)
      /\ \A i \in 1..n : u[i] = s[i]
  OBVIOUS
<1> HIDE DEF u
<1>2. n + 1 <= Len(t) /\ SubSeq(u, 1, n + 1) = SubSeq(t, 1, n + 1)
  BY <1>1 DEF IsPrefix, u
<1> HIDE DEF n
<1>3. ASSUME NEW i \in 1..n PROVE u[i] = t[i]
  <2>1. i \in 1..(n + 1)
    BY <1>1
  <2>2. SubSeq(u, 1, n + 1)[i] = u[i] /\ SubSeq(t, 1, n + 1)[i] = t[i]
    BY <1>1, <1>2, <2>1
  <2> QED
    BY <1>2, <2>2
<1>4. SubSeq(s, 1, n) = [i \in 1..n |-> s[i]] /\ SubSeq(t, 1, n) = [i \in 1..n |-> t[i]]
  BY <1>1 DEF n
<1>5. SubSeq(s, 1, n) = SubSeq(t, 1, n)
  BY <1>1, <1>3, <1>4
<1> QED
  BY <1>1, <1>2, <1>5 DEF IsPrefix, n

LEMMA PartsFacts ==
  ASSUME PTypeOK, NEW b \in Builds, NEW p, NEW recursive
  PROVE  [i \in DOMAIN Paths |->
            IF Reads(p, recursive, Paths[i]) THEN Documents(b, Paths[i]) ELSE NoDocs]
           \in Seq(Docs)
<1> DEFINE Part(d) == IF Reads(p, recursive, d) THEN Documents(b, d) ELSE NoDocs
<1>1. DOMAIN Paths = 1..Len(Paths) /\ Len(Paths) \in Nat
  BY PrepareAssumption
<1>2. <<>> \in Docs
  BY DEF Docs
<1>3. ASSUME NEW d \in Dirs PROVE Part(d) \in Docs
  <2>1. bucket[d] \in Docs /\ tree[b][d] \in Docs
    BY DEF PTypeOK
  <2> QED
    BY <1>2, <2>1 DEF Documents, NoDocs
<1>4. \A i \in DOMAIN Paths : Paths[i] \in Dirs
  BY DEF Dirs
<1> HIDE DEF Part
<1>5. [i \in DOMAIN Paths |-> Part(Paths[i])] \in Seq(Docs)
  BY <1>1, <1>3, <1>4
<1> QED
  BY <1>5 DEF Part

LEMMA ParseFacts ==
  ASSUME PTypeOK, NEW b \in Builds, NEW p, NEW recursive
  PROVE  Parse(b, p, recursive) \in Docs
BY PartsFacts, FlattenIn DEF Docs, Parse

\* When there is one directory to read with something in it, that is read.
LEMMA ParseOne ==
  ASSUME PTypeOK, NEW b \in Builds, NEW p, NEW recursive, NEW d \in Dirs,
         Reads(p, recursive, d),
         \A e \in Dirs : e # d /\ Reads(p, recursive, e) => Documents(b, e) = NoDocs
  PROVE  Parse(b, p, recursive) = Documents(b, d)
<1> DEFINE s == [i \in DOMAIN Paths |->
              IF Reads(p, recursive, Paths[i]) THEN Documents(b, Paths[i]) ELSE NoDocs]
           T == Kept(LooseKeys)
<1>1. s \in Seq(Seq(T))
  BY PartsFacts DEF Docs
<1>2. PICK j \in DOMAIN Paths : Paths[j] = d
  BY DEF Dirs
<1>3. \A i \in DOMAIN Paths : i # j => Paths[i] # d
  BY <1>2, PrepareAssumption DEF IsInjective
<1>4. DOMAIN s = DOMAIN Paths /\ s[j] = Documents(b, d)
  BY <1>2
<1>5. \A i \in DOMAIN s : i # j => s[i] = <<>>
  BY <1>3 DEF Dirs, NoDocs
<1> HIDE DEF s, T
<1>6. FlattenSeq(s) = s[j]
  BY <1>1, <1>2, <1>4, <1>5, FlattenOne
<1>7. Parse(b, p, recursive) = FlattenSeq(s)
  BY DEF Parse, s
<1> QED
  BY <1>4, <1>6, <1>7

-----------------------------------------------------------------------------
(* Steps.                                                                   *)

\* Documents that are as expanded go with the namespace of the command.
LEMMA SettledGoesWith ==
  ASSUME NEW f, NEW docs, NEW r, HasAll(f, docs), AllSettled(f, docs, r)
  PROVE  GoesWith(docs, f.namespace)
<1>1. /\ \A i \in DOMAIN docs : IF Given(f.namespace) THEN docs[i].ns = f.namespace
                                 ELSE Given(docs[i].ns)
      /\ Special(f.namespace) => HasObject(docs, "Namespace", f.namespace)
  BY DEF AllSettled, Settled, InNamespace, HasAll
<1> QED
  BY <1>1 DEF GoesWith, Given, Special

LEMMA DocsStay == plan' = plan => Docs' = Docs /\ LooseKeys' = LooseKeys
BY DEF Docs, LooseKeys, GivenAsLabel, Kept

LEMMA CommandFacts ==
  ASSUME PTypeOK, NEW b \in Builds, NEW i \in DOMAIN plan[b]
  PROVE  LET f == plan[b][i]
         IN  /\ f \in Commands /\ NamesAreStrings(f)
             /\ Suggested(f) \in Dirs /\ Expanded(f) \in Dirs
             /\ \A d \in Dirs :
                  IsGcs(f.output) /\ IsPrefix(Expanded(f), d) => d = Expanded(f)
             /\ Covers(f, LooseKeys)
<1> DEFINE f == plan[b][i]
<1>1. plan \in Plans
  BY DEF PTypeOK
<1>2. plan[b] \in Seq(Commands)
  BY <1>1, PrepareAssumption
<1>3. f \in Commands
  BY <1>2, ElementOf
<1>4. f \in Range(plan[b])
  BY DEF Range
<1>5. /\ NamesAreStrings(f) /\ Suggested(f) \in Dirs /\ Expanded(f) \in Dirs
      /\ \A d \in Dirs :
           IsGcs(f.output) /\ IsPrefix(Expanded(f), d) => d = Expanded(f)
  <2> HIDE DEF f
  <2> QED
    BY <1>1, <1>4, PrepareAssumption DEF NamesAreStrings
<1>6. Covers(f, LooseKeys)
  <2>1. \A k \in DOMAIN CreateMap(f.labels) : GivenAsLabel(k)
    BY DEF GivenAsLabel
  <2>2. ManagedByKey \in LooseKeys
    BY Constants DEF LooseKeys
  <2> HIDE DEF f
  <2> QED
    BY <2>1, <2>2 DEF Covers, LooseKeys
<1> QED
  BY <1>3, <1>5, <1>6

\* Only build b does something.
Touches(b) ==
  /\ plan' = plan
  /\ \A c \in Builds \ {b} :
       /\ at'[c] = at[c] /\ pc'[c] = pc[c] /\ objs'[c] = objs[c]
       /\ digest'[c] = digest[c] /\ handed'[c] = handed[c] /\ tree'[c] = tree[c]
       /\ stood'[c] = stood[c]

\* What it puts in Cloud Storage is one of its two outputs.
Uploads(b) ==
  /\ made \subseteq made'
  /\ \A d \in Dirs : \/ bucket'[d] = bucket[d]
                     \/ \E i \in DOMAIN plan[b] : d = Suggested(plan[b][i])
                     \/ /\ \E i \in DOMAIN plan[b] :
                             /\ d = Expanded(plan[b][i])
                             /\ GoesWith(bucket'[d], plan[b][i].namespace)
                        /\ <<d, bucket'[d]>> \in made'

LEMMA OthersKeep ==
  ASSUME PInv, NEW b \in Builds, NEW c \in Builds \ {b}, Touches(b), Uploads(b),
         pc[c] # "idle"
  PROVE  /\ OnItsOwn(Command(c), pc[c], objs[c], digest[c], tree[c], stood[c])'
         /\ Uploaded(c)' /\ HandedOver(c)'
<1>1. OnItsOwn(Command(c), pc[c], objs[c], digest[c], tree[c], stood[c])
  BY DEF PInv
<1>2. /\ Command(c)' = Command(c) /\ pc'[c] = pc[c] /\ objs'[c] = objs[c]
      /\ digest'[c] = digest[c] /\ tree'[c] = tree[c] /\ handed'[c] = handed[c]
      /\ stood'[c] = stood[c] /\ plan' = plan
  BY DEF Touches, Command
<1>3. OnItsOwn(Command(c), pc[c], objs[c], digest[c], tree[c], stood[c])'
  BY <1>1, <1>2 DEF OnItsOwn, Between, Complete, Resolved, Unpinned, SavedHere
<1> DEFINE f == Command(c)
<1>4. \A docs : PreparedBy(c, docs) => PreparedBy(c, docs)'
  BY <1>2 DEF PreparedBy, Uploads
<1>5. HandedOver(c)'
  <2>1. HandedOver(c)
    BY DEF PInv
  <2> QED
    BY <1>2, <1>4, <2>1 DEF HandedOver
<1>6. ASSUME pc[c] = "apply", f.cmd = "run", IsGcs(f.output)
      PROVE  \/ bucket'[Expanded(f)] = objs'[c]
             \/ /\ <<Expanded(f), bucket'[Expanded(f)]>> \in made'
                /\ \E a \in Builds \ {c} : \E i \in DOMAIN plan'[a] :
                     /\ plan'[a][i].output = f.output
                     /\ GoesWith(bucket'[Expanded(f)], plan'[a][i].namespace)
  <2> DEFINE d == Expanded(f)
  <2>1. \/ bucket[d] = objs[c]
        \/ /\ <<d, bucket[d]>> \in made
           /\ \E a \in Builds \ {c} : \E i \in DOMAIN plan[a] :
                /\ plan[a][i].output = f.output
                /\ GoesWith(bucket[d], plan[a][i].namespace)
    <3>1. Uploaded(c)
      BY DEF PInv
    <3> QED
      BY <1>6, <3>1 DEF Uploaded, PreparedBy
  <2>2. PTypeOK /\ at[c] \in DOMAIN plan[c]
    BY DEF PInv, PTypeOK
  <2>3. f \in Commands /\ d \in Dirs
    BY <2>2, CommandFacts DEF Command
  <2>4. CASE bucket'[d] = bucket[d]
    BY <1>2, <2>1, <2>4 DEF Uploads
  <2>5. ASSUME NEW i \in DOMAIN plan[b], d = Suggested(plan[b][i]) PROVE FALSE
    <3>1. plan[b][i] \in Commands
      BY <2>2, CommandFacts
    <3> QED
      BY <2>3, <2>5, <3>1, OutputFacts
  <2>6. ASSUME NEW i \in DOMAIN plan[b], d = Expanded(plan[b][i]),
               GoesWith(bucket'[d], plan[b][i].namespace)
        PROVE  \E a \in Builds \ {c} : \E k \in DOMAIN plan'[a] :
                 /\ plan'[a][k].output = f.output
                 /\ GoesWith(bucket'[d], plan'[a][k].namespace)
    <3>1. plan[b][i] \in Commands
      BY <2>2, CommandFacts
    <3>2. plan[b][i].output = f.output
      <4> HIDE DEF f
      <4> QED
        BY <2>3, <2>6, <3>1, OutputFacts
    <3> QED
      BY <1>2, <2>6, <3>2
  <2> QED
    BY <2>3, <2>4, <2>5, <2>6 DEF Uploads
<1>7. Uploaded(c)'
  BY <1>2, <1>6 DEF Uploaded, PreparedBy
<1> QED
  BY <1>3, <1>5, <1>7

\* A step of build b is good if it is for b.
LEMMA StepKeeps ==
  ASSUME PInv, NEW b \in Builds, Touches(b), Uploads(b), PTypeOK',
         pc'[b] # "idle" =>
           /\ OnItsOwn(Command(b), pc[b], objs[b], digest[b], tree[b], stood[b])'
           /\ Uploaded(b)' /\ HandedOver(b)'
  PROVE  PInv'
<1>1. ASSUME NEW c \in Builds \ {b}, pc'[c] # "idle"
      PROVE  /\ OnItsOwn(Command(c), pc[c], objs[c], digest[c], tree[c], stood[c])'
             /\ Uploaded(c)' /\ HandedOver(c)'
  <2>1. pc[c] # "idle"
    BY <1>1 DEF Touches
  <2> QED
    BY <2>1, OthersKeep
<1> QED
  BY <1>1 DEF PInv

\* Nothing is said of a build that has not come far, or ended without success.
LEMMA EarlyKeeps ==
  ASSUME NEW b \in Builds,
         \/ pc'[b] \in {"start", "read", "suggest", "failed"}
         \/ pc'[b] = "apply" /\ Command(b)'.cmd = "apply"
  PROVE  /\ OnItsOwn(Command(b), pc[b], objs[b], digest[b], tree[b], stood[b])'
         /\ Uploaded(b)' /\ HandedOver(b)'
<1>1. "apply" # "run"
  OBVIOUS
<1>2. Uploaded(b)' /\ HandedOver(b)'
  BY <1>1 DEF Uploaded, HandedOver
<1>3. OnItsOwn(Command(b), pc[b], objs[b], digest[b], tree[b], stood[b])'
  BY <1>1 DEF OnItsOwn, Between, Complete, Resolved, Unpinned, SavedHere, Ended
<1> QED
  BY <1>2, <1>3

LEMMA InitIsGood == PInit => PInv
<1> SUFFICES ASSUME PInit PROVE PInv
  OBVIOUS
<1>1. <<>> \in Docs /\ "" \in STRING
  <2>1. <<>> \in Docs
    BY DEF Docs
  <2> QED
    BY <2>1, ObjectsAssumption
<1>2. plan \in Plans /\ plan \in [Builds -> Seq(Commands)]
  BY PrepareAssumption DEF PInit
<1>3. tree \in [Builds -> [Dirs -> Docs]]
  <2>1. PICK s \in Sources :
          tree = [b \in Builds |-> [d \in Dirs |-> IF d = Configs THEN s ELSE NoDocs]]
    BY DEF PInit
  <2>2. s \in Seq(Document) /\ \A i \in DOMAIN s : SelectsItsPods(s[i])
    BY PrepareAssumption
  <2>3. ASSUME NEW i \in DOMAIN s PROVE s[i] \in Kept(LooseKeys)
    <3>1. s[i] \in Document /\ SelectsItsPods(s[i])
      BY <2>2, ElementOf
    <3> QED
      BY <3>1 DEF Kept, SelectsItsPods
  <2>4. s \in Docs
    <3>1. DOMAIN s = 1..Len(s) /\ Len(s) \in Nat /\ s = [i \in 1..Len(s) |-> s[i]]
      BY <2>2
    <3> QED
      BY <2>3, <3>1 DEF Docs
  <2> QED
    BY <1>1, <2>1, <2>4 DEF NoDocs
<1>4. bucket \in [Dirs -> Docs] /\ objs \in [Builds -> Docs] /\ handed \in [Builds -> Docs]
  BY <1>1 DEF PInit, NoDocs
<1>5. \A b \in Builds : pc[b] \in {"idle", "start"}
  BY DEF PInit
<1>6. ASSUME NEW b \in Builds, pc[b] # "idle" PROVE at[b] \in DOMAIN plan[b]
  <2>1. plan[b] # <<>> /\ at[b] = 1
    BY <1>6 DEF PInit
  <2>2. plan[b] \in Seq(Commands)
    BY <1>2
  <2> QED
    BY <2>1, <2>2
<1>7. /\ at \in [Builds -> Nat] /\ pc \in [Builds -> Stages]
      /\ digest \in [Builds -> STRING] /\ tag \in Digests
      /\ stood \in [Builds -> SUBSET Digests] /\ \A b \in Builds : tag \in stood[b]
  BY <1>1 DEF PInit, Stages
<1>8. PTypeOK
  BY <1>2, <1>3, <1>4, <1>6, <1>7 DEF PTypeOK
<1>9. ASSUME NEW b \in Builds, pc[b] = "start"
      PROVE  /\ OnItsOwn(Command(b), pc[b], objs[b], digest[b], tree[b], stood[b])
             /\ Uploaded(b) /\ HandedOver(b)
  BY <1>9 DEF OnItsOwn, Between, Complete, Resolved, Unpinned, SavedHere, Ended, Uploaded,
              HandedOver
<1> QED
  BY <1>5, <1>8, <1>9 DEF PInv

\* What the files hold, and what only these steps change, for steps that leave it.
LEMMA QuietKeeps ==
  ASSUME PTypeOK, NEW b \in Builds,
         UNCHANGED <<plan, tree, bucket, tag>>,
         at' = [at EXCEPT ![b] = at'[b]], pc' = [pc EXCEPT ![b] = pc'[b]],
         objs' = [objs EXCEPT ![b] = objs'[b]],
         digest' = [digest EXCEPT ![b] = digest'[b]],
         handed' = [handed EXCEPT ![b] = handed'[b]],
         stood' = [stood EXCEPT ![b] = stood'[b]],
         stood'[b] \in SUBSET Digests, tag \in stood'[b],
         at'[b] \in DOMAIN plan[b], at'[b] \in Nat, pc'[b] \in Stages,
         objs'[b] \in Docs, digest'[b] \in STRING, handed'[b] \in Docs
  PROVE  PTypeOK' /\ Touches(b)
<1>1. Docs' = Docs
  BY DocsStay
<1>2. PTypeOK'
  BY <1>1 DEF PTypeOK
<1>3. Touches(b)
  BY DEF PTypeOK, Touches
<1> QED
  BY <1>2, <1>3

LEMMA CheckFlagsKeeps == ASSUME PInv, NEW b \in Builds, CheckFlags(b) PROVE PInv'
<1>1. /\ PTypeOK /\ pc[b] = "start" /\ at[b] \in DOMAIN plan[b]
      /\ UNCHANGED <<plan, at, objs, digest, handed, tree, bucket, made, tag, stood>>
  BY DEF PInv, PTypeOK, CheckFlags, worldVars, registryVars
<1>2. /\ pc' = [pc EXCEPT ![b] = pc'[b]]
      /\ \/ pc'[b] \in {"read", "failed"}
         \/ pc'[b] = "apply" /\ Command(b).cmd = "apply"
  BY <1>1 DEF CheckFlags, Goto, PTypeOK
<1>3. PTypeOK' /\ Touches(b)
  BY <1>1, <1>2, QuietKeeps DEF PTypeOK, Stages
<1>4. Uploads(b)
  BY <1>1 DEF Uploads
<1>5. Command(b)' = Command(b)
  BY <1>1 DEF Command
<1> QED
  BY <1>2, <1>3, <1>4, <1>5, EarlyKeeps, StepKeeps

LEMMA ReadConfigKeeps == ASSUME PInv, NEW b \in Builds, ReadConfig(b) PROVE PInv'
<1>1. /\ PTypeOK /\ pc[b] = "read" /\ at[b] \in DOMAIN plan[b]
      /\ UNCHANGED <<plan, at, digest, handed, tree, bucket, made, tag, stood>>
  BY DEF PInv, PTypeOK, ReadConfig, worldVars, registryVars
<1>2. /\ pc' = [pc EXCEPT ![b] = pc'[b]] /\ pc'[b] \in {"suggest", "failed"}
      /\ objs' = [objs EXCEPT ![b] = objs'[b]]
  BY <1>1 DEF ReadConfig, Goto, PTypeOK
<1>3. objs'[b] \in Docs
  <2>1. NoDocs \in Docs
    BY DEF Docs, NoDocs
  <2> QED
    BY <1>1, <2>1, ParseFacts DEF ReadConfig, PTypeOK
<1>4. PTypeOK' /\ Touches(b)
  BY <1>1, <1>2, <1>3, QuietKeeps DEF PTypeOK, Stages
<1>5. Uploads(b)
  BY <1>1 DEF Uploads
<1> QED
  BY <1>2, <1>4, <1>5, EarlyKeeps, StepKeeps

LEMMA ResolveDigestKeeps == ASSUME PInv, NEW b \in Builds, ResolveDigest(b) PROVE PInv'
<1> DEFINE f == Command(b)
<1>1. /\ PTypeOK /\ pc[b] = "resolve" /\ at[b] \in DOMAIN plan[b]
      /\ UNCHANGED <<plan, at, objs, handed, tree, bucket, made, tag, stood>>
  BY DEF PInv, PTypeOK, ResolveDigest, worldVars, registryVars
<1>2. /\ pc' = [pc EXCEPT ![b] = pc'[b]] /\ pc'[b] = "expand"
      /\ digest' = [digest EXCEPT ![b] = digest'[b]]
      /\ digest'[b] = IF Given(f.image) THEN tag ELSE ""
  BY <1>1 DEF ResolveDigest, Goto, PTypeOK, Given
<1>3. tag \in stood'[b] /\ digest'[b] \in STRING
  <2>1. tag \in Digests /\ tag \in stood[b] /\ Digests \subseteq STRING /\ "" \in STRING
    BY <1>1, PrepareAssumption, ObjectsAssumption DEF PTypeOK
  <2> QED
    BY <1>1, <1>2, <2>1
<1>4. PTypeOK' /\ Touches(b)
  <2>1. objs[b] \in Docs /\ handed[b] \in Docs /\ at[b] \in Nat /\ pc'[b] \in Stages
    BY <1>1, <1>2 DEF PTypeOK, Stages
  <2>2. /\ at = [at EXCEPT ![b] = at[b]] /\ objs = [objs EXCEPT ![b] = objs[b]]
        /\ handed = [handed EXCEPT ![b] = handed[b]]
        /\ stood = [stood EXCEPT ![b] = stood[b]]
        /\ stood[b] \in SUBSET Digests /\ tag \in stood[b]
    BY <1>1 DEF PTypeOK
  <2> QED
    BY <1>1, <1>2, <1>3, <2>1, <2>2, QuietKeeps
<1>5. Uploads(b)
  BY <1>1 DEF Uploads
<1>6. Command(b)' = f
  BY <1>1 DEF Command
<1> HIDE DEF f
<1>7. Uploaded(b)' /\ HandedOver(b)'
  BY <1>2 DEF Uploaded, HandedOver
<1>8. OnItsOwn(f, pc[b], objs[b], digest[b], tree[b], stood[b])
  BY <1>1 DEF PInv, f
<1>9. Resolved(f, pc'[b], digest'[b], stood'[b])
  BY <1>2, <1>3 DEF Resolved
<1>10. Between(f, pc'[b], objs[b]) /\ Unpinned(f, pc'[b], tree[b])
  BY <1>1, <1>2, <1>8 DEF OnItsOwn, Between, Unpinned
<1>11. Complete(f, pc'[b], objs[b], digest'[b]) /\ SavedHere(f, pc'[b], objs[b], tree[b])
  BY <1>2 DEF Complete, SavedHere, Ended
<1>12. OnItsOwn(f, pc'[b], objs'[b], digest'[b], tree'[b], stood'[b])
  BY <1>1, <1>9, <1>10, <1>11 DEF OnItsOwn
<1> QED
  BY <1>4, <1>5, <1>6, <1>7, <1>12, StepKeeps

LEMMA SaveFacts ==
  ASSUME PTypeOK, NEW b \in Builds, NEW d \in Dirs, NEW docs \in Docs, plan' = plan,
         Save(b, d, docs)
  PROVE  /\ tree' \in [Builds -> [Dirs -> Docs]] /\ bucket' \in [Dirs -> Docs]
         /\ \A c \in Builds \ {b} : tree'[c] = tree[c]
         /\ IsGcs(d) => /\ tree' = tree /\ bucket'[d] = docs
                        /\ \A e \in Dirs : e # d => bucket'[e] = bucket[e]
         /\ ~IsGcs(d) => /\ bucket' = bucket /\ tree'[b][d] = docs
                         /\ \A e \in Dirs : e # d => tree'[b][e] = tree[b][e]
<1>1. tree \in [Builds -> [Dirs -> Docs]] /\ bucket \in [Dirs -> Docs]
  BY DEF PTypeOK
<1>2. CASE IsGcs(d)
  BY <1>1, <1>2 DEF Save
<1>3. CASE ~IsGcs(d)
  BY <1>1, <1>3 DEF Save
<1> QED
  BY <1>2, <1>3

LEMMA SaveSuggestedKeeps == ASSUME PInv, NEW b \in Builds, SaveSuggested(b) PROVE PInv'
<1> DEFINE f == Command(b)
           docs == Suggest(f, objs[b])
           d == Suggested(f)
<1>1. /\ PTypeOK /\ pc[b] = "suggest" /\ at[b] \in DOMAIN plan[b]
      /\ UNCHANGED <<plan, at, digest, handed, made, tag, stood>>
      /\ objs' = [objs EXCEPT ![b] = docs]
  BY DEF PInv, PTypeOK, SaveSuggested, registryVars
<1>2. \/ Save(b, d, docs) /\ Goto(b, "resolve")
      \/ Goto(b, "failed") /\ UNCHANGED <<tree, bucket>>
  BY DEF SaveSuggested
<1>3. f \in Commands /\ NamesAreStrings(f) /\ d \in Dirs
  BY <1>1, CommandFacts DEF Command
<1>4. /\ docs \in Docs /\ HasAll(f, docs) /\ (Given(f.app) => AllHave(docs, NameKey))
      /\ Given(f.image) => AllUse(docs, f.image, "")
  <2> HIDE DEF f
  <2>1. objs[b] \in Docs
    BY <1>1 DEF PTypeOK
  <2> QED
    BY <1>3, <2>1, SuggestFacts DEF Docs
<1>5. Command(b)' = f
  BY <1>1 DEF Command
<1>6. Docs' = Docs
  BY <1>1, DocsStay
<1> HIDE DEF f, docs, d
<1>7. /\ objs' \in [Builds -> Docs] /\ objs'[b] = docs
      /\ \A c \in Builds \ {b} : objs'[c] = objs[c]
  BY <1>1, <1>4 DEF PTypeOK
<1>8. CASE Goto(b, "failed") /\ UNCHANGED <<tree, bucket>>
  <2>1. /\ pc' \in [Builds -> Stages] /\ pc'[b] = "failed"
        /\ \A c \in Builds \ {b} : pc'[c] = pc[c]
    BY <1>1, <1>8 DEF Goto, PTypeOK, Stages
  <2>2. PTypeOK'
    BY <1>1, <1>6, <1>7, <1>8, <2>1 DEF PTypeOK
  <2>3. Touches(b) /\ Uploads(b)
    BY <1>1, <1>7, <1>8, <2>1 DEF Touches, Uploads
  <2> QED
    BY <2>1, <2>2, <2>3, EarlyKeeps, StepKeeps
<1>9. CASE Save(b, d, docs) /\ Goto(b, "resolve")
  <2>1. /\ pc' \in [Builds -> Stages] /\ pc'[b] = "resolve"
        /\ \A c \in Builds \ {b} : pc'[c] = pc[c]
    BY <1>1, <1>9 DEF Goto, PTypeOK, Stages
  <2>2. /\ tree' \in [Builds -> [Dirs -> Docs]] /\ bucket' \in [Dirs -> Docs]
        /\ \A c \in Builds \ {b} : tree'[c] = tree[c]
        /\ \A e \in Dirs : e # d => bucket'[e] = bucket[e]
        /\ ~IsGcs(d) => tree'[b][d] = docs
    BY <1>1, <1>3, <1>4, <1>9, SaveFacts
  <2>3. PTypeOK'
    BY <1>1, <1>6, <1>7, <2>1, <2>2 DEF PTypeOK
  <2>4. Touches(b)
    BY <1>1, <1>7, <2>1, <2>2 DEF Touches
  <2>5. Uploads(b)
    BY <1>1, <2>2 DEF Uploads, Command, d, f
  <2>6. Uploaded(b)' /\ HandedOver(b)'
    BY <2>1 DEF Uploaded, HandedOver
  <2>7. OnItsOwn(f, pc'[b], objs'[b], digest'[b], tree'[b], stood'[b])
    <3>1. Between(f, "resolve", docs)
      BY <1>4 DEF Between
    <3>2. Unpinned(f, "resolve", tree'[b])
      <4>1. IsGcs(d) = IsGcs(f.output)
        BY <1>3, OutputFacts DEF d
      <4> QED
        BY <1>4, <2>2, <4>1 DEF Unpinned, d
    <3>3. /\ Complete(f, "resolve", docs, digest'[b])
          /\ Resolved(f, "resolve", digest'[b], stood'[b])
          /\ SavedHere(f, "resolve", docs, tree'[b])
      BY DEF Complete, Resolved, SavedHere, Ended
    <3> QED
      BY <1>7, <2>1, <3>1, <3>2, <3>3 DEF OnItsOwn
  <2> QED
    BY <1>5, <2>3, <2>4, <2>5, <2>6, <2>7, StepKeeps
<1> QED
  BY <1>2, <1>8, <1>9

LEMMA SaveExpandedKeeps == ASSUME PInv, NEW b \in Builds, SaveExpanded(b) PROVE PInv'
<1> DEFINE f == Command(b)
           docs == Expand(f, objs[b], digest[b])
           d == Expanded(f)
<1>1. /\ PTypeOK /\ pc[b] = "expand" /\ at[b] \in DOMAIN plan[b]
      /\ UNCHANGED <<plan, at, digest, handed, tag, stood>>
  BY DEF PInv, PTypeOK, SaveExpanded, registryVars
<1>2. \/ /\ LabelsAllowed(f) /\ MaySave(b, d)
         /\ Save(b, d, docs)
         /\ objs' = [objs EXCEPT ![b] = docs]
         /\ made' = made \cup {<<d, docs>>}
         /\ Goto(b, IF f.cmd = "run" THEN "apply" ELSE "exited")
      \/ Goto(b, "failed") /\ UNCHANGED <<objs, tree, bucket, made>>
  BY DEF SaveExpanded
<1>3. /\ f \in Commands /\ NamesAreStrings(f) /\ d \in Dirs /\ Suggested(f) \in Dirs
      /\ Covers(f, LooseKeys)
  BY <1>1, CommandFacts DEF Command
<1>4. OnItsOwn(f, "expand", objs[b], digest[b], tree[b], stood[b])
  BY <1>1 DEF PInv
<1>5. Command(b)' = f
  BY <1>1 DEF Command
<1>6. Docs' = Docs
  BY <1>1, DocsStay
<1>7. objs[b] \in Docs /\ digest[b] \in STRING
  BY <1>1 DEF PTypeOK
<1> HIDE DEF f
<1>8. ASSUME LabelsAllowed(f)
      PROVE  /\ docs \in Docs /\ HasAll(f, docs) /\ AllSettled(f, docs, digest[b])
             /\ GoesWith(docs, f.namespace)
  <2>1. HasAll(f, objs[b]) /\ (Given(f.app) => AllHave(objs[b], NameKey))
    BY <1>4 DEF OnItsOwn, Between
  <2> QED
    BY <1>3, <1>7, <1>8, <2>1, ExpandFacts, SettledGoesWith DEF Docs
<1> HIDE DEF docs, d
<1>9. CASE Goto(b, "failed") /\ UNCHANGED <<objs, tree, bucket, made>>
  <2>1. /\ pc' \in [Builds -> Stages] /\ pc'[b] = "failed"
        /\ \A c \in Builds \ {b} : pc'[c] = pc[c]
    BY <1>1, <1>9 DEF Goto, PTypeOK, Stages
  <2>2. PTypeOK'
    BY <1>1, <1>6, <1>9, <2>1 DEF PTypeOK
  <2>3. Touches(b) /\ Uploads(b)
    BY <1>1, <1>9, <2>1 DEF Touches, Uploads
  <2> QED
    BY <2>1, <2>2, <2>3, EarlyKeeps, StepKeeps
<1>10. ASSUME /\ LabelsAllowed(f) /\ MaySave(b, d)
              /\ Save(b, d, docs)
              /\ objs' = [objs EXCEPT ![b] = docs]
              /\ made' = made \cup {<<d, docs>>}
              /\ Goto(b, IF f.cmd = "run" THEN "apply" ELSE "exited")
       PROVE  PInv'
  <2>1. /\ docs \in Docs /\ HasAll(f, docs) /\ AllSettled(f, docs, digest[b])
        /\ GoesWith(docs, f.namespace)
    BY <1>8, <1>10
  <2>2. /\ pc' \in [Builds -> Stages] /\ pc'[b] \in {"apply", "exited"}
        /\ pc'[b] = "exited" => f.cmd # "run"
        /\ \A c \in Builds \ {b} : pc'[c] = pc[c]
    BY <1>1, <1>10 DEF Goto, PTypeOK, Stages
  <2>3. /\ tree' \in [Builds -> [Dirs -> Docs]] /\ bucket' \in [Dirs -> Docs]
        /\ \A c \in Builds \ {b} : tree'[c] = tree[c]
        /\ \A e \in Dirs : e # d => bucket'[e] = bucket[e]
    BY <1>1, <1>3, <1>10, <2>1, SaveFacts
  <2>4. /\ IsGcs(d) => tree' = tree /\ bucket'[d] = docs
        /\ ~IsGcs(d) => bucket' = bucket /\ tree'[b][d] = docs
        /\ ~IsGcs(d) => \A e \in Dirs : e # d => tree'[b][e] = tree[b][e]
    BY <1>1, <1>3, <1>10, <2>1, SaveFacts
  <2>5. /\ objs' \in [Builds -> Docs] /\ objs'[b] = docs
        /\ \A c \in Builds \ {b} : objs'[c] = objs[c]
    BY <1>1, <1>10, <2>1 DEF PTypeOK
  <2>6. PTypeOK'
    BY <1>1, <1>6, <2>2, <2>3, <2>5 DEF PTypeOK
  <2>7. Touches(b)
    BY <1>1, <2>2, <2>3, <2>5 DEF Touches
  <2>8. Uploads(b)
    <3>1. d = Expanded(plan[b][at[b]]) /\ f = plan[b][at[b]]
      BY DEF d, f, Command
    <3>2. IsGcs(d) => <<d, bucket'[d]>> \in made' /\ GoesWith(bucket'[d], f.namespace)
      BY <1>10, <2>1, <2>4
    <3>3. ~IsGcs(d) => bucket' = bucket
      BY <2>4
    <3>4. made \subseteq made'
      BY <1>10
    <3> QED
      BY <1>1, <2>3, <3>1, <3>2, <3>3, <3>4 DEF Uploads
  <2>9. HandedOver(b)'
    BY <1>5, <2>2 DEF HandedOver
  <2>10. IsGcs(d) = IsGcs(f.output)
    BY <1>3, OutputFacts DEF d
  <2>11. Uploaded(b)'
    BY <1>5, <2>4, <2>5, <2>10 DEF Uploaded, PreparedBy, d
  <2>12. Complete(f, pc'[b], docs, digest[b])
    BY <2>1 DEF Complete
  <2>13. Resolved(f, pc'[b], digest[b], stood[b])
    BY <1>4 DEF OnItsOwn, Resolved
  <2>14. Between(f, pc'[b], docs)
    BY <2>2 DEF Between
  <2>15. Unpinned(f, pc'[b], tree'[b])
    <3>1. Suggested(f) # d
      BY <1>3, OutputFacts DEF d
    <3>2. Unpinned(f, "expand", tree[b])
      BY <1>4 DEF OnItsOwn
    <3> QED
      BY <1>3, <2>4, <2>10, <3>1, <3>2 DEF Unpinned
  <2>16. SavedHere(f, pc'[b], docs, tree'[b])
    <3>1. ~IsGcs(d) => \A e \in Dirs : IsPrefix(d, e) => tree[b][e] = NoDocs
      BY <1>10 DEF MaySave
    <3> QED
      BY <2>4, <2>10, <3>1 DEF SavedHere, d
  <2>17. OnItsOwn(f, pc'[b], objs'[b], digest'[b], tree'[b], stood'[b])
    BY <1>1, <2>5, <2>12, <2>13, <2>14, <2>15, <2>16 DEF OnItsOwn
  <2> QED
    BY <1>5, <2>6, <2>7, <2>8, <2>9, <2>11, <2>17, StepKeeps
<1> QED
  BY <1>2, <1>9, <1>10

\* What the documents of a command are read from when `run` goes on from the
\* expanded ones: the directory it saved them in, and no other that has any.
LEMMA ApplyReads ==
  ASSUME PInv, NEW b \in Builds, pc[b] = "apply", Command(b).cmd = "run"
  PROVE  LET f == Command(b)
             d == Expanded(f)
         IN  Parse(b, ApplyConfig(f), f.recursive)
               = IF IsGcs(f.output) THEN bucket[d] ELSE tree[b][d]
<1> DEFINE f == Command(b)
           d == Expanded(f)
           p == ApplyConfig(f)
<1>1. PTypeOK /\ at[b] \in DOMAIN plan[b]
  BY DEF PInv, PTypeOK
<1>2. /\ f \in Commands /\ d \in Dirs
      /\ \A e \in Dirs : IsGcs(f.output) /\ IsPrefix(d, e) => e = d
  BY <1>1, CommandFacts DEF Command
<1>3. SavedHere(f, "apply", objs[b], tree[b]) /\ f.cmd = "run"
  BY DEF PInv, OnItsOwn
<1> HIDE DEF f
<1>4. IsGcs(d) = IsGcs(f.output)
  BY <1>2, OutputFacts
<1>5. f.output \in Seq(STRING) /\ d \in Seq(STRING) /\ d = Append(f.output, "expanded")
  BY <1>2, FlagFacts, DirFacts DEF Expanded
<1>6. d # <<>> /\ Last(d) = "expanded"
  <2>1. Len(d) = Len(f.output) + 1 /\ d[Len(d)] = "expanded" /\ Len(f.output) \in Nat
    BY <1>5
  <2> QED
    BY <2>1 DEF Last
<1> HIDE DEF d
<1>7. CASE ~IsGcs(f.output)
  <2>1. p = d
    BY <1>5, <1>7 DEF ApplyConfig
  <2>2. Reads(p, f.recursive, d)
    BY <1>4, <1>7, <2>1 DEF Reads
  <2>3. ASSUME NEW e \in Dirs, e # d, Reads(p, f.recursive, e)
        PROVE  Documents(b, e) = NoDocs
    <3>1. "expanded" # "*"
      OBVIOUS
    <3>2. IsPrefix(d, e)
      BY <1>6, <2>1, <2>3, <3>1 DEF Reads
    <3>3. tree[b][e] = NoDocs
      BY <1>3, <1>7, <2>3, <3>2 DEF SavedHere, d
    <3>4. e \in Seq(STRING)
      BY DirFacts
    <3>5. ~IsGcs(e)
      BY <1>4, <1>5, <1>6, <1>7, <3>2, <3>4, PrefixFacts
    <3> QED
      BY <3>3, <3>5 DEF Documents
  <2>4. Parse(b, p, f.recursive) = Documents(b, d)
    BY <1>1, <1>2, <2>2, <2>3, ParseOne
  <2>5. Documents(b, d) = tree[b][d]
    BY <1>4, <1>7 DEF Documents
  <2> QED
    BY <1>7, <2>4, <2>5 DEF f, d
<1>8. CASE IsGcs(f.output)
  <2>1. p = Append(d, "*")
    BY <1>5, <1>8 DEF ApplyConfig
  <2>2. Last(p) = "*" /\ Front(p) = d /\ d \in Seq(STRING) /\ p # <<>>
    <3> DEFINE S == STRING \cup {"*"}
    <3>1. "*" \in S /\ d \in Seq(S)
      BY <1>5
    <3>2. ASSUME NEW T, NEW s \in Seq(T), NEW x \in T
          PROVE  LET t == Append(s, x)
                 IN  Last(t) = x /\ Front(t) = s /\ Len(t) = Len(s) + 1
      <4> DEFINE t == Append(s, x)
      <4>1. /\ Len(t) = Len(s) + 1 /\ t[Len(s) + 1] = x /\ Len(s) \in Nat
            /\ \A i \in 1..Len(s) : t[i] = s[i]
            /\ t \in Seq(T)
        OBVIOUS
      <4> HIDE DEF t
      <4>2. Len(t) - 1 = Len(s)
        BY <4>1
      <4>3. Front(t) = s
        BY <4>1, <4>2 DEF Front
      <4> QED
        BY <4>1, <4>3 DEF Last, t
    <3>3. Last(p) = "*" /\ Front(p) = d /\ Len(p) = Len(d) + 1
      <4> HIDE DEF p, S
      <4> QED
        BY <2>1, <3>1, <3>2
    <3> QED
      BY <1>5, <3>3
  <2>3. Reads(p, f.recursive, d)
    BY <2>2 DEF Reads
  <2>4. IsGcs(p)
    <3>1. p[1] = d[1]
      BY <1>5, <1>6, <2>1
    <3> QED
      BY <1>4, <1>6, <1>8, <2>2, <3>1 DEF IsGcs
  <2>5. ASSUME NEW e \in Dirs, Reads(p, f.recursive, e)
        PROVE  e = d
    <3>1. e = d \/ IsPrefix(d, e) \/ IsPrefix(p, e)
      BY <2>2, <2>4, <2>5 DEF Reads
    <3>2. e \in Seq(STRING)
      BY DirFacts
    <3>3. IsPrefix(p, e) => IsPrefix(d, e)
      <4> DEFINE S == STRING \cup {"*"}
      <4>1. "*" \in S /\ d \in Seq(S) /\ e \in Seq(S)
        BY <1>5, <3>2
      <4> HIDE DEF p, S
      <4> QED
        BY <2>1, <4>1, PrefixOfPrefix
    <3> QED
      BY <1>2, <1>8, <3>1, <3>3
  <2>6. Parse(b, p, f.recursive) = Documents(b, d)
    BY <1>1, <1>2, <2>3, <2>5, ParseOne
  <2>7. Documents(b, d) = bucket[d]
    BY <1>4, <1>8 DEF Documents
  <2> QED
    BY <1>8, <2>6, <2>7 DEF f, d
<1> QED
  BY <1>7, <1>8

LEMMA HandOverKeeps == ASSUME PInv, NEW b \in Builds, HandOver(b) PROVE PInv'
<1> DEFINE f == Command(b)
           docs == Parse(b, IF f.cmd = "run" THEN ApplyConfig(f) ELSE f.file, f.recursive)
<1>1. /\ PTypeOK /\ pc[b] = "apply" /\ at[b] \in DOMAIN plan[b]
      /\ UNCHANGED <<plan, at, objs, digest, tree, bucket, made, tag, stood>>
      /\ handed' = [handed EXCEPT ![b] = docs]
      /\ pc' = [pc EXCEPT ![b] = IF docs = NoDocs THEN "failed" ELSE "exited"]
  BY DEF PInv, PTypeOK, HandOver, Goto, worldVars, registryVars
<1>2. docs \in Docs
  BY <1>1, ParseFacts
<1>3. f.cmd = "run" => docs = IF IsGcs(f.output) THEN bucket[Expanded(f)]
                              ELSE tree[b][Expanded(f)]
  BY <1>1, ApplyReads
<1>4. Command(b)' = f /\ Command(b) = f
  BY <1>1 DEF Command
<1>5. OnItsOwn(f, "apply", objs[b], digest[b], tree[b], stood[b]) /\ Uploaded(b)
  BY <1>1 DEF PInv
<1>6. \A x : PreparedBy(b, x) => PreparedBy(b, x)'
  BY <1>1, <1>4 DEF PreparedBy
<1>7. f.cmd = "run" => PreparedBy(b, docs)
  <2>1. CASE IsGcs(f.output)
    BY <1>1, <1>3, <1>5, <2>1 DEF Uploaded
  <2>2. CASE ~IsGcs(f.output)
    BY <1>3, <1>5, <2>2 DEF OnItsOwn, SavedHere, PreparedBy
  <2> QED
    BY <2>1, <2>2
<1> HIDE DEF f, docs
<1>8. /\ handed' = [handed EXCEPT ![b] = handed'[b]] /\ handed'[b] = docs
      /\ pc' = [pc EXCEPT ![b] = pc'[b]] /\ pc'[b] \in {"failed", "exited"}
  BY <1>1 DEF PTypeOK
<1>9. PTypeOK' /\ Touches(b)
  <2>1. objs[b] \in Docs /\ digest[b] \in STRING /\ at[b] \in Nat /\ pc'[b] \in Stages
    BY <1>1, <1>8 DEF PTypeOK, Stages
  <2>2. /\ at = [at EXCEPT ![b] = at[b]] /\ objs = [objs EXCEPT ![b] = objs[b]]
        /\ digest = [digest EXCEPT ![b] = digest[b]]
        /\ stood = [stood EXCEPT ![b] = stood[b]]
        /\ stood[b] \in SUBSET Digests /\ tag \in stood[b]
    BY <1>1 DEF PTypeOK
  <2> QED
    BY <1>1, <1>2, <1>8, <2>1, <2>2, QuietKeeps
<1>10. Uploads(b)
  BY <1>1 DEF Uploads
<1>11. CASE pc'[b] = "failed"
  BY <1>9, <1>10, <1>11, EarlyKeeps, StepKeeps
<1>12. CASE pc'[b] = "exited"
  <2>1. Uploaded(b)'
    BY <1>12 DEF Uploaded
  <2>2. HandedOver(b)'
    <3>1. PICK x : x = handed'[b] /\ x = docs
      BY <1>8
    <3>2. f.cmd = "run" => PreparedBy(b, x)'
      BY <1>6, <1>7, <3>1
    <3>3. f.cmd = "run" => PreparedBy(b, handed[b])'
      BY <3>1, <3>2 DEF PreparedBy
    <3> QED
      BY <1>4, <3>3 DEF HandedOver
  <2>3. OnItsOwn(f, "exited", objs[b], digest[b], tree[b], stood[b])
    BY <1>5 DEF OnItsOwn, Between, Complete, Resolved, Unpinned, SavedHere, Ended
  <2>4. OnItsOwn(f, pc'[b], objs'[b], digest'[b], tree'[b], stood'[b])
    BY <1>1, <1>12, <2>3
  <2> QED
    BY <1>4, <1>9, <1>10, <2>1, <2>2, <2>4, StepKeeps
<1> QED
  BY <1>8, <1>11, <1>12

LEMMA NextCommandKeeps == ASSUME PInv, NEW b \in Builds, NextCommand(b) PROVE PInv'
<1>1. /\ PTypeOK /\ at[b] < Len(plan[b])
      /\ UNCHANGED <<plan, tree, bucket, made, tag, pushes>>
      /\ stood' = [stood EXCEPT ![b] = {tag}]
      /\ at' = [at EXCEPT ![b] = at[b] + 1]
      /\ pc' = [pc EXCEPT ![b] = "start"]
      /\ objs' = [objs EXCEPT ![b] = NoDocs]
      /\ digest' = [digest EXCEPT ![b] = ""]
      /\ handed' = [handed EXCEPT ![b] = NoDocs]
  BY DEF PInv, NextCommand, Goto, worldVars, registryVars
<1>2. at[b] + 1 \in DOMAIN plan[b] /\ at[b] + 1 \in Nat
  <2>1. plan[b] \in Seq(Commands) /\ at[b] \in Nat
    BY <1>1, PrepareAssumption DEF PTypeOK
  <2>2. ASSUME NEW s \in Seq(Commands), NEW i \in Nat, i < Len(s)
        PROVE  i + 1 \in DOMAIN s /\ i + 1 \in Nat
    BY <2>2
  <2> QED
    BY <1>1, <2>1, <2>2
<1>3. NoDocs \in Docs
  BY DEF Docs, NoDocs
<1>4. "" \in STRING
  BY ObjectsAssumption
<1>5. /\ at'[b] = at[b] + 1 /\ pc'[b] = "start" /\ objs'[b] = NoDocs
      /\ digest'[b] = "" /\ handed'[b] = NoDocs
      /\ stood'[b] \in SUBSET Digests /\ tag \in stood'[b]
  BY <1>1 DEF PTypeOK
<1>6. PTypeOK' /\ Touches(b)
  <2>1. "start" \in Stages
    BY DEF Stages
  <2> QED
    BY <1>1, <1>2, <1>3, <1>4, <1>5, <2>1, QuietKeeps
<1>7. Uploads(b)
  BY <1>1 DEF Uploads
<1> QED
  BY <1>5, <1>6, <1>7, EarlyKeeps, StepKeeps

LEMMA CallFailsKeeps == ASSUME PInv, NEW b \in Builds, CallFails(b) PROVE PInv'
<1>1. /\ PTypeOK /\ pc[b] # "idle" /\ at[b] \in DOMAIN plan[b]
      /\ UNCHANGED <<plan, at, objs, digest, handed, tree, bucket, made, tag, stood>>
      /\ pc' = [pc EXCEPT ![b] = "failed"]
  BY DEF PInv, PTypeOK, CallFails, Goto, worldVars, registryVars
<1>2. pc'[b] = "failed" /\ pc' = [pc EXCEPT ![b] = pc'[b]]
  BY <1>1 DEF PTypeOK
<1>3. PTypeOK' /\ Touches(b)
  <2>1. /\ objs[b] \in Docs /\ digest[b] \in STRING /\ at[b] \in Nat /\ pc'[b] \in Stages
        /\ handed[b] \in Docs
    BY <1>1, <1>2 DEF PTypeOK, Stages
  <2>2. /\ at = [at EXCEPT ![b] = at[b]] /\ objs = [objs EXCEPT ![b] = objs[b]]
        /\ digest = [digest EXCEPT ![b] = digest[b]]
        /\ handed = [handed EXCEPT ![b] = handed[b]]
        /\ stood = [stood EXCEPT ![b] = stood[b]]
        /\ stood[b] \in SUBSET Digests /\ tag \in stood[b]
    BY <1>1 DEF PTypeOK
  <2> QED
    BY <1>1, <1>2, <2>1, <2>2, QuietKeeps
<1>4. Uploads(b)
  BY <1>1 DEF Uploads
<1> QED
  BY <1>2, <1>3, <1>4, EarlyKeeps, StepKeeps

LEMMA UploadTooLateKeeps == ASSUME PInv, NEW b \in Builds, UploadTooLate(b) PROVE PInv'
<1> DEFINE f == Command(b)
           docs == IF pc[b] = "suggest" THEN Suggest(f, objs[b])
                   ELSE Expand(f, objs[b], digest[b])
           d == IF pc[b] = "suggest" THEN Suggested(f) ELSE Expanded(f)
<1>1. /\ PTypeOK /\ pc[b] \in {"suggest", "expand"} /\ at[b] \in DOMAIN plan[b]
      /\ UNCHANGED <<plan, at, objs, digest, handed, tag, stood>>
      /\ pc' = [pc EXCEPT ![b] = "failed"]
  BY DEF PInv, PTypeOK, UploadTooLate, Goto, registryVars
<1>2. /\ IsGcs(d) /\ Save(b, d, docs)
      /\ pc[b] = "expand" => LabelsAllowed(f)
      /\ made' = IF pc[b] = "expand" THEN made \cup {<<d, docs>>} ELSE made
  BY DEF UploadTooLate
<1>3. /\ f \in Commands /\ NamesAreStrings(f)
      /\ Expanded(f) \in Dirs /\ Suggested(f) \in Dirs
      /\ Covers(f, LooseKeys) /\ f = plan[b][at[b]]
  BY <1>1, CommandFacts DEF Command
<1>4. pc[b] = "expand" => HasAll(f, objs[b]) /\ (Given(f.app) => AllHave(objs[b], NameKey))
  BY <1>1 DEF PInv, OnItsOwn, Between
<1>5. objs[b] \in Docs /\ digest[b] \in STRING
  BY <1>1 DEF PTypeOK
<1> HIDE DEF f
<1>6. docs \in Docs /\ (pc[b] = "expand" => GoesWith(docs, f.namespace))
  <2>1. CASE pc[b] = "suggest"
    <3>1. Suggest(f, objs[b]) \in Docs
      BY <1>3, <1>5, SuggestFacts DEF Docs
    <3> QED
      BY <2>1, <3>1
  <2>2. CASE pc[b] = "expand"
    <3>1. /\ Expand(f, objs[b], digest[b]) \in Docs
          /\ GoesWith(Expand(f, objs[b], digest[b]), f.namespace)
      BY <1>2, <1>3, <1>4, <1>5, <2>2, ExpandFacts, SettledGoesWith DEF Docs
    <3> QED
      BY <2>2, <3>1
  <2> QED
    BY <1>1, <2>1, <2>2
<1>7. d \in Dirs
  BY <1>3
<1>8. \/ d = Suggested(f)
      \/ d = Expanded(f) /\ <<d, docs>> \in made' /\ GoesWith(docs, f.namespace)
  BY <1>1, <1>2, <1>6
<1>9. made \subseteq made'
  BY <1>2
<1> HIDE DEF docs, d
<1>10. Docs' = Docs
  BY <1>1, DocsStay
<1>11. /\ tree' \in [Builds -> [Dirs -> Docs]] /\ bucket' \in [Dirs -> Docs]
       /\ \A c \in Builds \ {b} : tree'[c] = tree[c]
       /\ bucket'[d] = docs /\ \A e \in Dirs : e # d => bucket'[e] = bucket[e]
  BY <1>1, <1>2, <1>6, <1>7, SaveFacts
<1>12. /\ pc' \in [Builds -> Stages] /\ pc'[b] = "failed"
       /\ \A c \in Builds \ {b} : pc'[c] = pc[c]
  BY <1>1 DEF PTypeOK, Stages
<1>13. PTypeOK'
  BY <1>1, <1>10, <1>11, <1>12 DEF PTypeOK
<1>14. Touches(b)
  BY <1>1, <1>11, <1>12 DEF Touches
<1>15. Uploads(b)
  BY <1>1, <1>3, <1>8, <1>9, <1>11 DEF Uploads
<1> QED
  BY <1>12, <1>13, <1>14, <1>15, EarlyKeeps, StepKeeps

\* Nothing a build relies on changes.
LEMMA StutterKeeps ==
  ASSUME PInv, UNCHANGED <<plan, at, pc, objs, digest, handed, tree, bucket, made>>,
         tag' \in Digests, stood' \in [Builds -> SUBSET Digests],
         \A b \in Builds : stood[b] \subseteq stood'[b] /\ tag' \in stood'[b]
  PROVE  PInv'
<1>1. Docs' = Docs
  BY DocsStay
<1>2. PTypeOK'
  BY <1>1 DEF PInv, PTypeOK
<1>3. ASSUME NEW b \in Builds, pc'[b] # "idle"
      PROVE  /\ OnItsOwn(Command(b), pc[b], objs[b], digest[b], tree[b], stood[b])'
             /\ Uploaded(b)' /\ HandedOver(b)'
  <2>1. /\ OnItsOwn(Command(b), pc[b], objs[b], digest[b], tree[b], stood[b])
        /\ Uploaded(b) /\ HandedOver(b)
    BY <1>3 DEF PInv
  <2>2. Command(b)' = Command(b)
    BY DEF Command
  <2>3. OnItsOwn(Command(b), pc[b], objs[b], digest[b], tree[b], stood[b])'
    BY <2>1, <2>2 DEF OnItsOwn, Between, Complete, Resolved, Unpinned, SavedHere
  <2>4. Uploaded(b)' /\ HandedOver(b)'
    BY <2>1, <2>2 DEF Uploaded, HandedOver, PreparedBy
  <2> QED
    BY <2>3, <2>4
<1> QED
  BY <1>2, <1>3 DEF PInv

LEMMA NextIsGood == PInv /\ [PNext]_pvars => PInv'
<1> SUFFICES ASSUME PInv, [PNext]_pvars PROVE PInv'
  OBVIOUS
<1>1. CASE UNCHANGED pvars
  <2>1. UNCHANGED <<plan, at, pc, objs, digest, handed, tree, bucket, made, tag, stood>>
    BY <1>1 DEF pvars
  <2> QED
    BY <2>1, StutterKeeps DEF PInv, PTypeOK
<1>2. CASE Push
  <2>1. /\ UNCHANGED <<plan, at, pc, objs, digest, handed, tree, bucket, made>>
        /\ tag' \in Digests /\ stood' = [b \in Builds |-> stood[b] \cup {tag'}]
    BY <1>2 DEF Push, commandVars
  <2> QED
    BY <2>1, StutterKeeps DEF PInv, PTypeOK
<1>3. ASSUME NEW b \in Builds,
             CheckFlags(b) \/ Prepare(b) \/ HandOver(b) \/ NextCommand(b)
             \/ CallFails(b) \/ UploadTooLate(b)
      PROVE  PInv'
  BY <1>3, CheckFlagsKeeps, ReadConfigKeeps, SaveSuggestedKeeps, ResolveDigestKeeps,
     SaveExpandedKeeps, HandOverKeeps, NextCommandKeeps, CallFailsKeeps,
     UploadTooLateKeeps DEF Prepare
<1> QED
  BY <1>1, <1>2, <1>3 DEF PNext

-----------------------------------------------------------------------------
(* The theorems.                                                            *)

\* The types of the state, and where each build stands: what a build has saved
\* is what it read, with what its flags ask for, whoever else is at work.
THEOREM PrepareInvariant == PSpec => []PInv
BY InitIsGood, NextIsGood, PTL DEF PSpec

\* What `run` hands to kubectl is what it has prepared, document for document
\* (HandedOverIsPrepared), with any number of builds and any outputs: only a
\* build with the same gs:// output can come in between, and then it is what
\* that one has prepared.
THEOREM PrepareHandsOverWhatIsPrepared == PSpec => []HandedOverIsPrepared
<1>1. PInv => HandedOverIsPrepared
  <2> SUFFICES ASSUME PInv, NEW b \in Builds, pc[b] = "exited", Command(b).cmd = "run"
               PROVE  \/ handed[b] = objs[b]
                      \/ SharesOutput(b) /\ <<Expanded(Command(b)), handed[b]>> \in made
    BY DEF HandedOverIsPrepared
  <2>1. HandedOver(b)
    BY DEF PInv
  <2> QED
    BY <2>1 DEF HandedOver, PreparedBy, SharesOutput
<1> QED
  BY <1>1, PrepareInvariant, PTL

\* What is known of the documents of a command that has prepared.
LEMMA ExpandedFacts ==
  ASSUME PInv, NEW b \in Builds, IsExpanded(b)
  PROVE  LET f == Command(b)
         IN  /\ f \in Commands /\ Ended(f, pc[b])
             /\ objs[b] \in Docs /\ digest[b] \in STRING
             /\ HasAll(f, objs[b]) /\ AllSettled(f, objs[b], digest[b])
             /\ Given(f.image) => digest[b] \in stood[b]
             /\ Given(f.image) /\ ~IsGcs(f.output) =>
                  AllUse(tree[b][Suggested(f)], f.image, "")
             /\ Expanded(f) \in Seq(STRING) /\ Expanded(f) # <<>>
<1> DEFINE f == Command(b)
<1>1. PTypeOK /\ pc[b] # "idle" /\ at[b] \in DOMAIN plan[b]
  BY DEF PInv, PTypeOK, IsExpanded
<1>2. f \in Commands /\ Expanded(f) \in Dirs
  BY <1>1, CommandFacts DEF Command
<1>3. Ended(f, pc[b])
  BY DEF IsExpanded, Ended
<1>4. OnItsOwn(f, pc[b], objs[b], digest[b], tree[b], stood[b])
  BY <1>1 DEF PInv
<1>5. objs[b] \in Docs /\ digest[b] \in STRING
  BY <1>1 DEF PTypeOK
<1> HIDE DEF f
<1>6. /\ HasAll(f, objs[b]) /\ AllSettled(f, objs[b], digest[b])
      /\ Given(f.image) => digest[b] \in stood[b]
      /\ Given(f.image) /\ ~IsGcs(f.output) => AllUse(tree[b][Suggested(f)], f.image, "")
  BY <1>3, <1>4 DEF OnItsOwn, Complete, Resolved, Unpinned
<1>7. Expanded(f) \in Seq(STRING)
  BY <1>2, DirFacts
<1>8. Expanded(f) # <<>>
  <2>1. \A s \in Seq(STRING) : \A x : Len(Append(s, x)) = Len(s) + 1 /\ Len(s) + 1 # 0
    OBVIOUS
  <2>2. f.output \in Seq(STRING)
    BY <1>2, FlagFacts
  <2> QED
    BY <2>1, <2>2 DEF Expanded
<1> QED
  BY <1>2, <1>3, <1>5, <1>6, <1>7, <1>8 DEF f

\* All containers of the deployed image use one digest, and the tag stood for it
\* at some time since this command began (ImagesArePinned), however often it is
\* moved; the suggested documents name the image without a reference.
THEOREM PreparePinsImages == PSpec => []ImagesArePinned
<1>1. ASSUME PInv, NEW b \in Builds, IsExpanded(b), Given(Command(b).image)
      PROVE  /\ digest[b] \in stood[b]
             /\ AllUse(objs[b], Command(b).image, digest[b])
             /\ ~IsGcs(Command(b).output) =>
                  AllUse(tree[b][Suggested(Command(b))], Command(b).image, "")
  BY <1>1, ExpandedFacts DEF AllUse, AllSettled, Settled
<1>2. PInv => ImagesArePinned
  BY <1>1 DEF ImagesArePinned, AllUse, UsesOnly, Given
<1> QED
  BY <1>2, PrepareInvariant, PTL

\* What was expanded, prepared once more with the same flags, is the same
\* (PreparedAgainIsTheSame): even in the same order.
THEOREM PreparePreparedAgainIsTheSame == PSpec => []PreparedAgainIsTheSame
<1>1. ASSUME PInv, NEW b \in Builds, IsExpanded(b)
      PROVE  LET f == [Command(b) EXCEPT !.file = Expanded(Command(b))]
             IN  Expand(f, Suggest(f, objs[b]), digest[b]) = objs[b]
  <2> DEFINE g == Command(b)
             f == [g EXCEPT !.file = Expanded(g)]
  <2>1. /\ g \in Commands /\ objs[b] \in Docs /\ digest[b] \in STRING
        /\ HasAll(g, objs[b]) /\ AllSettled(g, objs[b], digest[b])
        /\ Expanded(g) \in Seq(STRING) /\ Expanded(g) # <<>>
    BY <1>1, ExpandedFacts
  <2> HIDE DEF g
  <2>2. /\ f \in Commands /\ f.file = Expanded(g) /\ f.app = g.app
        /\ f.expose = g.expose /\ f.cr = g.cr /\ f.namespace = g.namespace
        /\ f.version = g.version /\ f.labels = g.labels /\ f.links = g.links
        /\ f.image = g.image
    BY <2>1 DEF Commands
  <2> HIDE DEF f
  <2>3. HasAll(f, objs[b])
    BY <2>1, <2>2 DEF HasAll
  <2>4. AllSettled(f, objs[b], digest[b])
    BY <2>1, <2>2 DEF AllSettled, Settled, Marked, Put, InNamespace
  <2>5. Expand(f, Suggest(f, objs[b]), digest[b]) = objs[b]
    BY <2>1, <2>2, <2>3, <2>4, PreparedAgain DEF Docs
  <2> QED
    BY <2>5 DEF f, g
<1>2. PInv => PreparedAgainIsTheSame
  BY <1>1 DEF PreparedAgainIsTheSame, SameDocs
<1> QED
  BY <1>2, PrepareInvariant, PTL

\* A workload goes on selecting the pods it makes (LabelsKeepSelectors), but for
\* labels given on the command line and the one that says who manages it.
THEOREM PrepareKeepsSelectors == PSpec => []LabelsKeepSelectors
<1>1. ASSUME PInv, NEW b \in Builds, IsExpanded(b), NEW i \in DOMAIN objs[b],
             objs[b][i].kind \in Templated, NEW s \in objs[b][i].selector
      PROVE  \/ objs[b][i].template[s[1]] = s[2]
             \/ s[1] = ManagedByKey \/ GivenAsLabel(s[1])
  <2>1. objs[b] \in Docs
    BY <1>1, ExpandedFacts
  <2>2. objs[b][i] \in Kept(LooseKeys)
    BY <2>1, ElementOf DEF Docs
  <2> QED
    BY <1>1, <2>2 DEF Kept, LooseKeys
<1>2. PInv => LabelsKeepSelectors
  BY <1>1 DEF LabelsKeepSelectors
<1> QED
  BY <1>2, PrepareInvariant, PTL

\* What `run` hands over is in the namespace kubectl is called with, and a
\* document creates it unless it is the default one (NamespacesAgree); only with
\* an output in Cloud Storage may it be what another build that writes there has
\* made for the namespace of a command of its own.
THEOREM PrepareNamespacesAgree == PSpec => []NamespacesAgree
<1>1. PInv => NamespacesAgree
  <2> SUFFICES ASSUME PInv, NEW b \in Builds, pc[b] = "exited", Command(b).cmd = "run"
               PROVE  \/ GoesWith(handed[b], Command(b).namespace)
                      \/ \E c \in Builds \ {b} : \E i \in DOMAIN plan[c] :
                           /\ IsGcs(Command(b).output)
                           /\ plan[c][i].output = Command(b).output
                           /\ GoesWith(handed[b], plan[c][i].namespace)
    BY DEF NamespacesAgree
  <2>1. HandedOver(b)
    BY DEF PInv
  <2>2. IsExpanded(b)
    <3>1. "run" # "apply"
      OBVIOUS
    <3> QED
      BY <3>1 DEF IsExpanded
  <2>3. GoesWith(objs[b], Command(b).namespace)
    BY <2>2, ExpandedFacts, SettledGoesWith
  <2> QED
    BY <2>1, <2>3 DEF HandedOver, PreparedBy
<1> QED
  BY <1>1, PrepareInvariant, PTL
=============================================================================
