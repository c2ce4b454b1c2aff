--------------------------- MODULE GkeApplyProofs ---------------------------
(***************************************************************************)
(* Theorems about GkeApply, for every set of calls, every configuration and *)
(* every cluster, whatever fails and whatever others do meanwhile.          *)
(***************************************************************************)
EXTENDS GkeApply, GkeClusterProofs, SequenceTheorems

-----------------------------------------------------------------------------
(* Sequences and documents.                                                 *)

\* The rest of a sequence, place by place.
LEMMA TailFacts ==
  ASSUME NEW S, NEW s \in Seq(S), s # <<>>
  PROVE  /\ Head(s) = s[1] /\ 1 \in DOMAIN s /\ s[1] \in S
         /\ Tail(s) \in Seq(S)
         /\ DOMAIN s = 1..Len(s) /\ Len(s) \in Nat
         /\ \A i \in DOMAIN Tail(s) : i \in Nat /\ i + 1 \in DOMAIN s
                                      /\ Tail(s)[i] = s[i + 1]
         /\ \A i \in DOMAIN s :
              i = 1 \/ (i - 1 \in DOMAIN Tail(s) /\ s[i] = Tail(s)[i - 1])
<1>1. /\ Len(s) \in Nat /\ Len(s) # 0 /\ DOMAIN s = 1..Len(s)
      /\ \A i \in 1..Len(s) : s[i] \in S
  BY EmptySeq, LenProperties, ElementOfSeq
<1>2. /\ Tail(s) \in Seq(S) /\ Len(Tail(s)) = Len(s) - 1
      /\ \A i \in 1..Len(Tail(s)) : Tail(s)[i] = s[i + 1]
  BY HeadTailProperties
<1>3. DOMAIN Tail(s) = 1..(Len(s) - 1)
  BY <1>2, LenProperties
<1>4. \A i \in DOMAIN s : i = 1 \/ i - 1 \in DOMAIN Tail(s)
  BY <1>1, <1>3
<1>5. \A i \in DOMAIN s : i - 1 \in DOMAIN Tail(s) => s[i] = Tail(s)[i - 1]
  BY <1>1, <1>2, <1>3
<1>6. Head(s) = s[1]
  OBVIOUS
<1> QED
  BY <1>1, <1>2, <1>3, <1>4, <1>5, <1>6

LEMMA AppendFacts ==
  ASSUME NEW S, NEW s \in Seq(S), NEW e \in S
  PROVE  /\ Append(s, e) \in Seq(S) /\ Append(s, e) # <<>>
         /\ \A i \in DOMAIN s : i \in DOMAIN Append(s, e) /\ Append(s, e)[i] = s[i]
         /\ Len(s) + 1 \in DOMAIN Append(s, e) /\ Append(s, e)[Len(s) + 1] = e
         /\ \A i \in DOMAIN Append(s, e) : i \in DOMAIN s \/ i = Len(s) + 1
<1>1. /\ Append(s, e) \in Seq(S) /\ Len(Append(s, e)) = Len(s) + 1
      /\ \A i \in 1..Len(s) : Append(s, e)[i] = s[i]
      /\ Append(s, e)[Len(s) + 1] = e
  BY AppendProperties
<1>2. /\ Len(s) \in Nat /\ DOMAIN s = 1..Len(s)
      /\ DOMAIN Append(s, e) = 1..(Len(s) + 1)
  BY <1>1, LenProperties
<1>3. Append(s, e) # <<>>
  BY <1>1, <1>2, EmptySeq
<1> QED
  BY <1>1, <1>2, <1>3

LEMMA SubSeqFacts ==
  ASSUME NEW S, NEW s \in Seq(S), NEW a \in Nat, NEW b \in Nat, a >= 1, b <= Len(s)
  PROVE  /\ SubSeq(s, a, b) \in Seq(S)
         /\ \A i \in DOMAIN SubSeq(s, a, b) :
              /\ i \in Nat /\ a + i - 1 \in DOMAIN s /\ a + i - 1 \in a..b
              /\ SubSeq(s, a, b)[i] = s[a + i - 1]
         /\ \A i \in a..b : /\ i - a + 1 \in DOMAIN SubSeq(s, a, b)
                            /\ SubSeq(s, a, b)[i - a + 1] = s[i]
<1>1. /\ Len(s) \in Nat /\ DOMAIN s = 1..Len(s)
      /\ \A i \in 1..Len(s) : s[i] \in S
  BY LenProperties, ElementOfSeq
<1>2. \A i \in a..b : s[i] \in S
  BY <1>1
<1>3. /\ SubSeq(s, a, b) \in Seq(S)
      /\ Len(SubSeq(s, a, b)) = IF a <= b THEN b - a + 1 ELSE 0
      /\ \A i \in 1..b - a + 1 : SubSeq(s, a, b)[i] = s[a + i - 1]
  BY <1>2, SubSeqProperties
<1>4. DOMAIN SubSeq(s, a, b) = 1..Len(SubSeq(s, a, b))
  BY <1>3, LenProperties
<1>5. \A i \in DOMAIN SubSeq(s, a, b) :
        i \in 1..b - a + 1 /\ i \in Nat /\ a + i - 1 \in DOMAIN s /\ a + i - 1 \in a..b
  BY <1>1, <1>3, <1>4
<1>6. \A i \in a..b : i - a + 1 \in 1..b - a + 1 /\ i - a + 1 \in DOMAIN SubSeq(s, a, b)
  BY <1>3, <1>4
<1>7. \A i \in a..b : SubSeq(s, a, b)[i - a + 1] = s[i]
  BY <1>3, <1>6
<1> QED
  BY <1>3, <1>5, <1>6, <1>7

\* A record with these fields is not the one that stands for no document.
LEMMA DocumentIsThere == ASSUME NEW d \in Documents PROVE d # NoDoc
<1>1. "replicas" \in DOMAIN d
  BY DEF Documents
<1>2. "replicas" \notin DOMAIN NoDoc
  BY DEF NoDoc
<1> QED
  BY <1>1, <1>2

\* A document of the files is about an object of its kind.
LEMMA DocumentFacts ==
  ASSUME call \in Calls, NEW d \in Range(call.config)
  PROVE  /\ d \in Documents /\ Key(d) \in Keys
         /\ Kind[Key(d)] = d.kind /\ Key(d)[1] = d.kind
         /\ d.replicas \in Nat /\ d # NoDoc
<1>a. call.config \in Seq(Documents) /\ Key(d) \in Keys
  BY ApplyAssumption DEF Key
<1>b. PICK i \in DOMAIN call.config : d = call.config[i]
  BY DEF Range
<1>1. d \in Documents /\ Key(d) \in Keys
  BY <1>a, <1>b, ElementOfSeq, LenProperties
<1>2. Key(d)[1] = d.kind
  BY DEF Key, KeyIn
<1>3. d.replicas \in Nat
  BY <1>1 DEF Documents
<1>4. d # NoDoc
  BY <1>1, DocumentIsThere
<1> QED
  BY <1>1, <1>2, <1>3, <1>4, ApplyAssumption

-----------------------------------------------------------------------------
(* The documents of a call c, in the files and in what is left of them.     *)

\* s still has a document for object k.
Awaits(c, s, k) == \E i \in DOMAIN s : KeyIn(c.namespace, s[i]) = k

\* LastDoc, Wanted and OneDocumentEach, and the keys of the namespaces.
LastOf(c, k) ==
  LET last == CHOOSE i \in DOMAIN c.config :
                /\ KeyIn(c.namespace, c.config[i]) = k
                /\ \A j \in DOMAIN c.config :
                     KeyIn(c.namespace, c.config[j]) = k => j <= i
  IN  c.config[last]
WantedBy(c) ==
  {KeyIn(c.namespace, c.config[i]) :
     i \in {j \in DOMAIN c.config : NotNamespace(c.config[j])}}
NamespacesOf(c) ==
  {KeyIn(c.namespace, c.config[i]) :
     i \in {j \in DOMAIN c.config : IsNamespace(c.config[j])}}

Distinct(c, s) ==
  \A i, j \in DOMAIN s : KeyIn(c.namespace, s[i]) = KeyIn(c.namespace, s[j]) => i = j
Single(c) == Distinct(c, c.config)

LEMMA SameNames ==
  /\ \A k : LastDoc(k) = LastOf(call, k)
  /\ Wanted = WantedBy(call)
  /\ OneDocumentEach <=> Single(call)
<1>1. \A k : LastDoc(k) = LastOf(call, k)
  BY DEF LastDoc, LastOf, Key
<1>2. Wanted = WantedBy(call)
  BY DEF Wanted, WantedBy, Key
<1>3. OneDocumentEach <=> Single(call)
  BY DEF OneDocumentEach, Single, Distinct, Key
<1> QED
  BY <1>1, <1>2, <1>3

\* Of the documents in s for one object, the last is the last of the files.
LastComesLast(c, s) ==
  \A i \in DOMAIN s :
    (\A j \in DOMAIN s :
       KeyIn(c.namespace, s[j]) = KeyIn(c.namespace, s[i]) => j <= i)
    => s[i] = LastOf(c, KeyIn(c.namespace, s[i]))

OnlyNamespaces(s) == \A i \in DOMAIN s : s[i].kind = "Namespace"
NoNamespaces(s) == \A i \in DOMAIN s : s[i].kind # "Namespace"

\* What is applied and waited for: every object but the namespaces.
Complete(c, s) ==
  /\ NoNamespaces(s)
  /\ \A k \in WantedBy(c) : Awaits(c, s, k)
  /\ LastComesLast(c, s)
  /\ Single(c) => Distinct(c, s)

-----------------------------------------------------------------------------
(* The order of the documents.                                              *)

\* A kind has a place in the alphabet, and so has a name.
LEMMA RankIsNumber ==
  ASSUME NEW s \in Seq(STRING), NEW x \in Range(s)
  PROVE  Rank(s, x) \in Nat
<1>1. \E i \in DOMAIN s : s[i] = x
  BY DEF Range
<1>2. Rank(s, x) \in DOMAIN s
  BY <1>1 DEF Rank
<1> QED
  BY <1>2, LenProperties

\* Documents for one object are in no order but that of the files.
LEMMA SameKeySamePlace ==
  ASSUME NEW d \in Documents, NEW e \in Documents, Key(d) = Key(e)
  PROVE  ~Before(d, e) /\ d.kind = e.kind
<1>1. d.kind = e.kind /\ d.name = e.name
  BY DEF Key, KeyIn
<1>2. Rank(KindOrder, d.kind) \in Nat /\ Rank(NameOrder, d.name) \in Nat
  BY RankIsNumber, ApplyAssumption DEF Documents
<1> QED
  BY <1>1, <1>2 DEF Before

\* The last of the documents for an object that are listed before it or after
\* it is the last of all.
LEMMA LastDocIsLast ==
  ASSUME call \in Calls, NEW a \in DOMAIN call.config,
         \A b \in DOMAIN call.config : Key(call.config[b]) = Key(call.config[a]) => b <= a
  PROVE  LastOf(call, Key(call.config[a])) = call.config[a]
<1> DEFINE k == Key(call.config[a])
           IsLast(i) == /\ i \in DOMAIN call.config /\ Key(call.config[i]) = k
                        /\ \A j \in DOMAIN call.config : Key(call.config[j]) = k => j <= i
<1>1. call.config \in Seq(Documents) /\ DOMAIN call.config = 1..Len(call.config)
  BY ApplyAssumption, LenProperties
<1>2. IsLast(a)
  OBVIOUS
<1>3. \A i : IsLast(i) => i <= a /\ a <= i /\ i \in Nat /\ a \in Nat
  BY <1>1
<1>4. \A i : IsLast(i) => i = a
  BY <1>3
<1>5. LastOf(call, k) = call.config[CHOOSE i \in DOMAIN call.config : IsLast(i)]
  BY DEF LastOf, Key
<1>6. (CHOOSE i \in DOMAIN call.config : IsLast(i)) = a
  BY <1>2, <1>4
<1> QED
  BY <1>5, <1>6

\* What Parse leaves to be visited: the namespaces, and all of the others, the
\* documents for one object in the order of the files.
LEMMA ParseSorts ==
  ASSUME call \in Calls,
         NEW p \in Bijection(DOMAIN call.config, DOMAIN call.config),
         NEW m \in 0..Len(call.config),
         InOrder(p, m),
         NEW s, s = [i \in DOMAIN call.config |-> call.config[p[i]]]
  PROVE  /\ SubSeq(s, 1, m) \in Seq(Range(call.config))
         /\ OnlyNamespaces(SubSeq(s, 1, m))
         /\ \A k \in NamespacesOf(call) : Awaits(call, SubSeq(s, 1, m), k)
         /\ SubSeq(s, m + 1, Len(s)) \in Seq(Range(call.config))
         /\ Complete(call, SubSeq(s, m + 1, Len(s)))
<1> DEFINE c == call.config
           n == Len(c)
           t == SubSeq(s, 1, m)
           u == SubSeq(s, m + 1, n)
<1>1. c \in Seq(Documents) /\ n \in Nat /\ DOMAIN c = 1..n
  BY ApplyAssumption, LenProperties
<1>2. /\ p \in [1..n -> 1..n] /\ \A a \in 1..n : \E i \in 1..n : p[i] = a
  BY <1>1 DEF Bijection, Surjection
<1>3. \A i \in 1..n : c[p[i]] \in Range(c) /\ c[i] \in Documents
  BY <1>1, <1>2, ElementOfSeq DEF Range
<1>4. s \in Seq(Range(c)) /\ Len(s) = n
  <2>1. s \in [1..n -> Range(c)]
    BY <1>1, <1>3
  <2>2. s \in Seq(Range(c))
    BY <1>1, <2>1, SeqDef
  <2> QED
    BY <1>1, <2>1, <2>2, LenProperties
<1>5. \A i \in 1..n : s[i] = c[p[i]]
  BY <1>1
<1>m. m \in Nat /\ m <= n
  BY <1>1
<1>6. /\ \A i \in 1..n : IsNamespace(s[i]) <=> i <= m
      /\ \A i, j \in 1..n : i < j /\ (j <= m \/ m < i) =>
           ~Before(s[j], s[i]) /\ (Before(s[i], s[j]) \/ p[i] < p[j])
  BY <1>2, <1>5 DEF InOrder
<1> HIDE DEF n, c
<1>7. /\ t \in Seq(Range(c))
      /\ \A i \in DOMAIN t : i \in 1..m /\ t[i] = s[i]
      /\ \A i \in 1..m : i \in DOMAIN t /\ t[i] = s[i]
  <2>1. /\ t \in Seq(Range(c))
        /\ \A i \in DOMAIN t : i \in Nat /\ 1 + i - 1 \in 1..m /\ t[i] = s[1 + i - 1]
        /\ \A i \in 1..m : i - 1 + 1 \in DOMAIN t /\ t[i - 1 + 1] = s[i]
    BY <1>1, <1>4, <1>m, SubSeqFacts
  <2>2. \A i \in Nat : 1 + i - 1 = i /\ i - 1 + 1 = i
    OBVIOUS
  <2> QED
    BY <2>1, <2>2
<1>8. /\ u \in Seq(Range(c))
      /\ \A i \in DOMAIN u : /\ i \in Nat /\ m + i \in (m + 1)..n
                             /\ u[i] = s[m + i]
      /\ \A i \in (m + 1)..n : i - m \in DOMAIN u /\ u[i - m] = s[i]
  <2>1. /\ u \in Seq(Range(c))
        /\ \A i \in DOMAIN u : /\ i \in Nat /\ m + 1 + i - 1 \in (m + 1)..n
                               /\ u[i] = s[m + 1 + i - 1]
        /\ \A i \in (m + 1)..n : i - (m + 1) + 1 \in DOMAIN u
                                 /\ u[i - (m + 1) + 1] = s[i]
    <3>1. m + 1 \in Nat /\ m + 1 >= 1 /\ n <= Len(s)
      BY <1>1, <1>4, <1>m
    <3> QED
      BY <1>1, <1>4, <3>1, SubSeqFacts
  <2>2. /\ \A i \in Nat : m + 1 + i - 1 = m + i
        /\ \A i \in (m + 1)..n : i - (m + 1) + 1 = i - m
    BY <1>m, <1>1
  <2> QED
    BY <2>1, <2>2
<1> HIDE DEF t, u
<1>p. \A i \in DOMAIN u : i \in Nat /\ m + i \in 1..n /\ m < m + i /\ u[i] = s[m + i]
  <2> SUFFICES ASSUME NEW i \in DOMAIN u
               PROVE  i \in Nat /\ m + i \in 1..n /\ m < m + i /\ u[i] = s[m + i]
    OBVIOUS
  <2>1. i \in Nat /\ m + i \in (m + 1)..n /\ u[i] = s[m + i]
    BY <1>8
  <2>2. m + 1 <= m + i /\ m + i <= n
    BY <1>1, <1>m, <2>1
  <2> QED
    BY <1>1, <1>m, <2>1, <2>2
\* A document of the files has a place in s.
<1>9. ASSUME NEW a \in 1..n PROVE \E i \in 1..n : p[i] = a /\ s[i] = c[a]
  <2>1. PICK i \in 1..n : p[i] = a
    BY <1>2
  <2>2. s[i] = c[a]
    BY <1>5, <2>1
  <2> QED
    BY <2>1, <2>2
<1>10. ASSUME NEW i \in DOMAIN t PROVE IsNamespace(t[i])
  <2>a. i \in 1..m
    BY <1>7
  <2>1. i \in 1..n /\ i <= m
    BY <1>1, <1>m, <2>a
  <2> QED
    BY <1>6, <1>7, <2>1
<1>11. \A k \in NamespacesOf(call) : Awaits(call, t, k)
  <2> SUFFICES ASSUME NEW a \in 1..n, IsNamespace(c[a])
               PROVE  Awaits(call, t, Key(c[a]))
    BY <1>1 DEF NamespacesOf, Key, c
  <2>1. PICK i \in 1..n : p[i] = a /\ s[i] = c[a]
    BY <1>9
  <2>2. i \in 1..m
    <3>1. IsNamespace(s[i])
      BY <2>1
    <3>2. i <= m
      BY <1>6, <3>1
    <3> QED
      BY <1>1, <1>m, <3>2
  <2> QED
    BY <1>7, <2>1, <2>2 DEF Awaits, Key
<1>12. NoNamespaces(u)
  <2> SUFFICES ASSUME NEW i \in DOMAIN u PROVE ~IsNamespace(u[i])
    BY DEF NoNamespaces, IsNamespace
  <2>a. i \in Nat /\ m + i \in 1..n /\ m < m + i
    BY <1>p
  <2>1. ~(m + i <= m)
    BY <1>m, <2>a
  <2> QED
    BY <1>6, <1>8, <2>a, <2>1
<1>13. \A a \in 1..n : NotNamespace(c[a]) =>
         \E i \in DOMAIN u : u[i] = c[a] /\ p[m + i] = a /\ m + i \in 1..n
  <2> SUFFICES ASSUME NEW a \in 1..n, NotNamespace(c[a])
               PROVE  \E i \in DOMAIN u : u[i] = c[a] /\ p[m + i] = a /\ m + i \in 1..n
    OBVIOUS
  <2>1. PICK i \in 1..n : p[i] = a /\ s[i] = c[a]
    BY <1>9
  <2>2. ~(i <= m)
    BY <1>6, <2>1 DEF IsNamespace, NotNamespace
  <2>3. i \in (m + 1)..n /\ m + (i - m) = i
    BY <1>1, <1>m, <2>2
  <2>4. i - m \in DOMAIN u /\ u[i - m] = s[i]
    BY <1>8, <2>3
  <2> QED
    BY <2>1, <2>3, <2>4
<1>14. \A k \in WantedBy(call) : Awaits(call, u, k)
  BY <1>1, <1>13 DEF WantedBy, Awaits, Key, c
\* Documents for one object follow one another as they do in the files.
<1>15. \A i, j \in DOMAIN u : Key(u[i]) = Key(u[j]) /\ i < j => p[m + i] < p[m + j]
  <2> SUFFICES ASSUME NEW i \in DOMAIN u, NEW j \in DOMAIN u,
                      Key(u[i]) = Key(u[j]), i < j
               PROVE  p[m + i] < p[m + j]
    OBVIOUS
  <2>a. i \in Nat /\ j \in Nat
    BY <1>p
  <2>b. m + i < m + j
    BY <1>m, <2>a
  <2>1. m < m + i /\ m + i \in 1..n /\ m + j \in 1..n /\ m + i < m + j
    BY <1>p, <2>b
  <2>2. s[m + i] = u[i] /\ s[m + j] = u[j]
    BY <1>8
  <2>3. u[i] \in Documents /\ u[j] \in Documents
    BY <1>2, <1>3, <1>5, <2>1, <2>2
  <2>4. ~Before(u[i], u[j])
    BY <2>3, SameKeySamePlace
  <2> QED
    BY <1>6, <2>1, <2>2, <2>4
<1>16. LastComesLast(call, u)
  <2> SUFFICES ASSUME NEW i \in DOMAIN u,
                      \A j \in DOMAIN u : Key(u[j]) = Key(u[i]) => j <= i
               PROVE  u[i] = LastOf(call, Key(u[i]))
    BY DEF LastComesLast, Key
  <2>1. m + i \in 1..n /\ p[m + i] \in 1..n /\ u[i] = c[p[m + i]]
    BY <1>1, <1>2, <1>5, <1>p, <1>m
  <2>2. ASSUME NEW b \in 1..n, Key(c[b]) = Key(u[i])
        PROVE  b <= p[m + i]
    <3>1. c[b] \in Documents /\ u[i] \in Documents
      BY <1>3, <2>1
    <3>2. NotNamespace(c[b])
      BY <1>12, <2>2, <3>1, SameKeySamePlace DEF NoNamespaces, NotNamespace
    <3>3. PICK j \in DOMAIN u : u[j] = c[b] /\ p[m + j] = b
      BY <1>13, <3>2
    <3>4. j <= i /\ i \in Nat /\ j \in Nat
      BY <1>8, <2>2, <3>3
    <3>5. CASE j = i
      BY <3>3, <3>5, <1>1
    <3>6. CASE j < i
      BY <1>15, <1>1, <2>1, <2>2, <3>3, <3>6
    <3> QED
      BY <3>4, <3>5, <3>6
  <2> QED
    BY <1>1, <2>1, <2>2, LastDocIsLast DEF c
<1>17. Single(call) => Distinct(call, u)
  <2> SUFFICES ASSUME Single(call), NEW i \in DOMAIN u, NEW j \in DOMAIN u,
                      Key(u[i]) = Key(u[j]), i < j
               PROVE  FALSE
    BY <1>8 DEF Distinct, Key
  <2>1. m + i \in 1..n /\ m + j \in 1..n /\ u[i] = c[p[m + i]] /\ u[j] = c[p[m + j]]
    BY <1>1, <1>5, <1>p, <1>m
  <2>2. p[m + i] \in 1..n /\ p[m + j] \in 1..n /\ p[m + i] < p[m + j]
    BY <1>2, <1>15, <2>1
  <2>3. p[m + i] = p[m + j]
    BY <1>1, <2>1, <2>2 DEF Single, Distinct, Key, c
  <2> QED
    BY <2>2, <2>3
<1> QED
  BY <1>4, <1>7, <1>8, <1>10, <1>11, <1>12, <1>14, <1>16, <1>17
  DEF Complete, OnlyNamespaces, IsNamespace, t, u, c, n

-----------------------------------------------------------------------------
(* The inductive invariant.                                                 *)

\* An object is there when there is a document it was made from.
World ==
  /\ ClusterInv
  /\ spec = [k \in Keys |-> spec[k]]
  /\ \A k \in Keys : spec[k] = NoDoc <=> cluster[k] = NoObject

\* The documents are those of the files.
Shape ==
  /\ call \in Calls
  /\ World
  /\ todo \in Seq(Range(call.config)) /\ objs \in Seq(Range(call.config))

\* What the loops have before them.
Agenda ==
  /\ pc \in {"namespaces", "applyNamespace"} => OnlyNamespaces(todo)
  /\ pc \in {"namespaces", "applyNamespace", "apply", "installCRD"} => Complete(call, objs)
  /\ pc \in {"apply", "installCRD"} => NoNamespaces(todo) /\ LastComesLast(call, todo)
  /\ pc = "get" => NoNamespaces(todo) /\ NoNamespaces(objs)
  /\ pc = "applyNamespace" => todo # <<>>

\* What Apply saw missing still is, or another user made it.
StillMissing ==
  /\ pc = "applyNamespace" => spec[Key(Head(todo))] \notin UNION Existing
  /\ pc = "installCRD" => ~Exists(CRD)

\* A Service of the files has a host name for an address.
HostName == \E k \in WantedBy(call) : Exists(k) /\ cluster[k].bound = "host"

\* What is in the cluster so far, when it is no dry run and nobody disturbs:
\* namespaces and objects whose documents are not left, the CRD, ...
NamespacesSoFar ==
  /\ pc \in {"namespaces", "applyNamespace"} =>
       \A k \in NamespacesOf(call) : Exists(k) \/ Awaits(call, todo, k)
  /\ pc \in {"apply", "installCRD"} => \A k \in NamespacesOf(call) : Exists(k)
ObjectsSoFar ==
  pc \in {"apply", "installCRD"} =>
    \A k \in WantedBy(call) :
      (Exists(k) /\ spec[k] = LastOf(call, k)) \/ Awaits(call, todo, k)
CRDIsThere == ensured => pc = "installCRD" \/ Exists(CRD)

\* ... and in the end all objects.
AllDeployed ==
  pc \in {"get", "summary"} \/ result = "ok" =>
    \A k \in WantedBy(call) : Exists(k) /\ spec[k] = LastOf(call, k)

Applied ==
  ~call.dryRun /\ ~disturbed =>
    NamespacesSoFar /\ ObjectsSoFar /\ CRDIsThere /\ AllDeployed

\* What the wait has seen, when nobody disturbs, is still so.
StillSeen ==
  ~disturbed =>
    /\ \A k \in readied : k \in Keys /\ Exists(k) /\
         (Kind[k] \in {"Deployment", "StatefulSet"} => cluster[k].old = 0)
    /\ \A x \in DOMAIN deployed :
         deployed[x] # NoObject /\ deployed[x].obj.bound = "host" => HostName

\* Every object is ready, or it is looked at in this round or in the next; if
\* it has one document, not in both and not again when it is ready.
InRound ==
  /\ \A k \in WantedBy(call) :
       k \in readied \/ Awaits(call, todo, k) \/ Awaits(call, objs, k)
  /\ Single(call) =>
       /\ Distinct(call, todo) /\ Distinct(call, objs)
       /\ \A k \in Keys : Awaits(call, todo, k) => ~Awaits(call, objs, k)
       /\ \A k \in readied : ~Awaits(call, todo, k) /\ ~Awaits(call, objs, k)

\* Where the wait stands, and what Apply returns.
Waiting ==
  /\ pc # "done" => result = "none"
  /\ pc \notin {"get", "summary", "done"} =>
       readied = {} /\ ~timedOut /\ \A x \in DOMAIN deployed : deployed[x] = NoObject
  /\ pc = "get" => ~call.dryRun /\ ~timedOut /\ InRound
  /\ pc = "summary" =>
       /\ ~call.dryRun
       /\ timedOut => late /\ (Single(call) => ~(WantedBy(call) \subseteq readied))
       /\ ~timedOut => WantedBy(call) \subseteq readied
  /\ result = "ok" /\ ~call.dryRun => WantedBy(call) \subseteq readied
  /\ result = "timeout" =>
       late /\ (Single(call) => ~(WantedBy(call) \subseteq readied))

-----------------------------------------------------------------------------
(* The cluster.                                                             *)

LEMMA ObjectIsThere == ASSUME NEW w, IsObject(w) PROVE w # NoObject
<1>1. "obs" \in DOMAIN w
  BY DEF IsObject, IsRecord, FieldNames
<1>2. "obs" \notin DOMAIN NoObject
  BY DEF NoObject
<1> QED
  BY <1>1, <1>2

\* Object k alone is another one, made from d.
MadeFrom(k, d) ==
  /\ spec'[k] = d /\ cluster'[k] # NoObject
  /\ \A j \in Keys \ {k} : spec'[j] = spec[j] /\ cluster'[j] = cluster[j]

\* The object that Persist makes is right.
LEMMA PersistFacts ==
  ASSUME World, NEW k \in Keys, NEW d, d.replicas \in Nat, d # NoDoc, Persist(k, d)
  PROVE  World' /\ MadeFrom(k, d)
<1> DEFINE w == cluster[k]
           v == IF w = NoObject THEN Fresh(d.replicas)
                ELSE IF spec[k].ver # d.ver THEN Updated(w, d.replicas)
                ELSE IF spec[k].replicas # d.replicas THEN Scaled(w, d.replicas)
                ELSE w
<1>1. w # NoObject => IsObject(w) /\ StatusTells(Kind[k], w)
  BY DEF World, ClusterInv
<1>2. IsObject(v) /\ StatusTells(Kind[k], v)
  <2>1. CASE w = NoObject
    BY <2>1, FreshTells
  <2>2. CASE w # NoObject
    BY <1>1, <2>2, ChangedTells
  <2> QED
    BY <2>1, <2>2
<1>3. cluster' = [cluster EXCEPT ![k] = v] /\ spec' = [spec EXCEPT ![k] = d]
  BY DEF Persist
<1> HIDE DEF v
<1>4. ClusterInv'
  BY <1>2, <1>3, OneChanges DEF World
<1>5. MadeFrom(k, d)
  BY <1>2, <1>3, ObjectIsThere DEF World, ClusterInv, MadeFrom
<1>6. spec' = [j \in Keys |-> spec'[j]]
  BY <1>3 DEF World
<1>7. \A j \in Keys : spec'[j] = NoDoc <=> cluster'[j] = NoObject
  BY <1>5 DEF World, MadeFrom
<1> QED
  BY <1>4, <1>5, <1>6, <1>7 DEF World

\* kubectl apply does that, or nothing in a dry run.
LEMMA KubectlApplyFacts ==
  ASSUME World, NEW k \in Keys, NEW d, d.replicas \in Nat, d # NoDoc, KubectlApply(k, d)
  PROVE  /\ World'
         /\ (call.dryRun /\ UNCHANGED <<cluster, spec>>) \/ MadeFrom(k, d)
<1>1. CASE call.dryRun
  BY <1>1 DEF KubectlApply, World, ClusterInv
<1>2. CASE ~call.dryRun
  BY <1>2, PersistFacts DEF KubectlApply
<1> QED
  BY <1>1, <1>2

\* What the cluster does by itself makes no object and takes none away.
LEMMA WorksFacts ==
  ASSUME World, ClusterWorks
  PROVE  /\ World' /\ UNCHANGED <<spec, call, late, disturbed, deployerVars>>
         /\ \A j \in Keys : cluster'[j] = NoObject <=> cluster[j] = NoObject
         /\ \A j \in Keys : cluster[j] # NoObject =>
              /\ cluster[j].old = 0 => cluster'[j].old = 0
              /\ cluster[j].bound = "host" => cluster'[j].bound = "host"
<1>1. PICK k \in Keys : Controller(k) \/ \E b \in Addresses : Bind(k, b)
  BY DEF ClusterWorks
<1>2. \E v : Works(k, v)
  BY <1>1, ClusterStep DEF World
<1>3. PICK v : Works(k, v)
  BY <1>2
<1>4. /\ IsObject(v) /\ StatusTells(Kind[k], v) /\ cluster' = [cluster EXCEPT ![k] = v]
      /\ v # NoObject /\ cluster[k] # NoObject
  BY <1>3, ObjectIsThere DEF Works
<1>5. ClusterInv' /\ UNCHANGED <<spec, call, late, disturbed, deployerVars>>
  BY <1>4, OneChanges DEF World, ClusterWorks
<1>6. cluster'[k] = v /\ \A j \in Keys \ {k} : cluster'[j] = cluster[j]
  BY <1>4 DEF World, ClusterInv
<1>7. \A j \in Keys : cluster'[j] = NoObject <=> cluster[j] = NoObject
  BY <1>4, <1>6
<1>8. World'
  BY <1>5, <1>7 DEF World
<1>9. /\ cluster[k].old = 0 => v.old = 0
      /\ cluster[k].bound = "host" => v.bound = "host"
  <2>1. cluster[k].old \in Nat /\ v.old \in Nat /\ v.old <= cluster[k].old
    BY <1>3, <1>4 DEF World, ClusterInv, IsObject, HasNumbers, Works
  <2>2. cluster[k].bound # "no" => v.bound = cluster[k].bound
    BY <1>3 DEF Works
  <2> QED
    BY <2>1, <2>2
<1> QED
  BY <1>5, <1>6, <1>7, <1>8, <1>9

LEMMA DeleteFacts ==
  ASSUME World, NEW k \in Keys, Delete(k)
  PROVE  /\ World' /\ disturbed' /\ UNCHANGED <<call, late, deployerVars>>
         /\ \A j \in Keys : spec'[j] \in {spec[j], NoDoc}
         /\ \A j \in Keys : cluster'[j] \in {cluster[j], NoObject}
<1>1. \A j \in Keys : \/ spec'[j] = NoDoc /\ cluster'[j] = NoObject
                      \/ spec'[j] = spec[j] /\ cluster'[j] = cluster[j]
  BY DEF Delete
<1>2. spec' = [j \in Keys |-> spec'[j]] /\ cluster' = [j \in Keys |-> cluster'[j]]
  BY DEF Delete
<1>3. ClusterInv'
  BY <1>1, <1>2 DEF World, ClusterInv
<1>4. World'
  BY <1>1, <1>2, <1>3 DEF World
<1> QED
  BY <1>1, <1>4 DEF Delete

LEMMA CreateFacts ==
  ASSUME World, NEW k \in Keys, CreateNamespace(k)
  PROVE  /\ World' /\ UNCHANGED <<call, late, disturbed, deployerVars>>
         /\ Kind[k] = "Namespace" /\ ~Exists(k)
         /\ spec'[k] \notin UNION Existing
         /\ MadeFrom(k, spec'[k])
<1> DEFINE d == [kind |-> k[1], name |-> k[2], ns |-> "", ver |-> 0, replicas |-> 0]
<1>1. d.replicas \in Nat /\ d # NoDoc /\ d.ver = 0
  <2>1. "replicas" \in DOMAIN d /\ "replicas" \notin DOMAIN NoDoc
    BY DEF NoDoc
  <2> QED
    BY <2>1
<1>2. Persist(k, d)
  BY DEF CreateNamespace
<1> HIDE DEF d
<1>3. World' /\ MadeFrom(k, d)
  BY <1>1, <1>2, PersistFacts
<1>4. d \notin Documents
  BY <1>1 DEF Documents
<1> QED
  BY <1>3, <1>4, ApplyAssumption DEF CreateNamespace, MadeFrom

\* Deployed long ago.
LEMMA InitWorld == ASSUME AInit PROVE World
<1>1. PICK old \in Existing :
        /\ spec = [k \in Keys |-> IF \E d \in old : Key(d) = k
                                  THEN CHOOSE d \in old : Key(d) = k ELSE NoDoc]
        /\ cluster = [k \in Keys |-> IF spec[k] = NoDoc THEN NoObject
                                     ELSE Settled(spec[k])]
  BY DEF AInit
<1>2. spec = [k \in Keys |-> spec[k]] /\ cluster = [k \in Keys |-> cluster[k]]
  BY <1>1
<1>3. \A k \in Keys : spec[k] # NoDoc => spec[k] \in Documents
  <2>1. \A k \in Keys : spec[k] # NoDoc => spec[k] \in old
    BY <1>1
  <2> QED
    BY <2>1, ApplyAssumption
<1>4. ASSUME NEW k \in Keys, spec[k] # NoDoc
      PROVE  cluster[k] = Settled(spec[k]) /\ spec[k].replicas \in Nat
  BY <1>1, <1>3, <1>4 DEF Documents
<1>5. ASSUME NEW r \in Nat, NEW d, d.replicas = r, NEW kind
      PROVE  IsObject(Settled(d)) /\ StatusTells(kind, Settled(d))
  <2> DEFINE f == [Fresh(r) EXCEPT !.up = r]
             p == Published(f)
  <2>a. IsRecord(Fresh(r))
    BY FreshTells DEF IsObject
  <2>1. IsRecord(f)
    BY <2>a, Names DEF IsRecord
  <2>2. HasNumbers(f) /\ f.old = 0
    BY Names DEF HasNumbers, Fresh
  <2>3. IsObject(p) /\ StatusTells(kind, p)
    BY <2>1, <2>2, PublishedFields, PublishedTells DEF IsObject
  <2> HIDE DEF p
  <2>4. IsRecord(p) /\ HasNumbers(p)
    BY <2>3 DEF IsObject
  <2>5. Settled(d) = [p EXCEPT !.bound = "ip"]
    BY <1>5 DEF Settled, p
  <2>6. IsRecord([p EXCEPT !.bound = "ip"])
    BY <2>4, Names DEF IsRecord
  <2>7. HasNumbers([p EXCEPT !.bound = "ip"])
    BY <2>4, Names DEF IsRecord, HasNumbers
  <2>8. StatusTells(kind, [p EXCEPT !.bound = "ip"])
    BY <2>3, <2>4, Names DEF IsRecord, StatusTells
  <2> QED
    BY <2>5, <2>6, <2>7, <2>8 DEF IsObject
<1>6. \A k \in Keys : spec[k] # NoDoc =>
        IsObject(cluster[k]) /\ StatusTells(Kind[k], cluster[k])
  BY <1>4, <1>5
<1>7. \A k \in Keys : spec[k] = NoDoc <=> cluster[k] = NoObject
  BY <1>1, <1>6, ObjectIsThere
<1> QED
  BY <1>2, <1>6, <1>7 DEF World, ClusterInv

-----------------------------------------------------------------------------
(* The steps of Apply and of the world, on the cluster.                     *)

\* The document that is visited.
LEMMA HeadFacts ==
  ASSUME Shape, todo # <<>>
  PROVE  /\ Head(todo) \in Range(call.config) /\ Head(todo) \in Documents
         /\ Head(todo).replicas \in Nat /\ Head(todo) # NoDoc
         /\ Key(Head(todo)) \in Keys
         /\ Kind[Key(Head(todo))] = Head(todo).kind
         /\ Head(todo) = todo[1] /\ 1 \in DOMAIN todo
<1>1. Head(todo) = todo[1] /\ 1 \in DOMAIN todo /\ todo[1] \in Range(call.config)
  BY TailFacts DEF Shape
<1> QED
  BY <1>1, DocumentFacts DEF Shape

LEMMA CRDDocFacts == CRDDoc.replicas \in Nat /\ CRDDoc # NoDoc
<1>1. "replicas" \in DOMAIN CRDDoc /\ "replicas" \notin DOMAIN NoDoc
  BY DEF NoDoc, CRDDoc
<1>2. CRDDoc.replicas = 0
  BY DEF CRDDoc
<1> QED
  BY <1>1, <1>2

\* A step of Apply that runs no kubectl apply.
LooksOnly ==
  \/ CheckFlags \/ Authorize \/ Parse \/ CheckNamespace \/ NamespacesDone
  \/ EnsureCRD \/ ApplyDone \/ GetObject \/ EndRound \/ Summary \/ CommandFails

LEMMA LooksOnlyFacts ==
  ASSUME LooksOnly
  PROVE  UNCHANGED <<call, cluster, spec>>
BY DEF LooksOnly, CheckFlags, Authorize, Parse, CheckNamespace, NamespacesDone,
       EnsureCRD, ApplyDone, GetObject, EndRound, Summary, CommandFails

\* A step that may run one applies the document that is visited, or the CRD.
Applies ==
  \/ ApplyNamespace /\ KubectlApply(Key(Head(todo)), Head(todo))
  \/ InstallCRD /\ KubectlApply(CRD, CRDDoc)
  \/ ApplyObject
       /\ (UNCHANGED <<cluster, spec>> \/ KubectlApply(Key(Head(todo)), Head(todo)))
  \/ KubectlFails
       /\ \/ UNCHANGED <<cluster, spec>>
          \/ /\ pc \in {"applyNamespace", "apply"}
             /\ KubectlApply(Key(Head(todo)), Head(todo))
          \/ pc = "installCRD" /\ KubectlApply(CRD, CRDDoc)

LEMMA StepIs ==
  ASSUME [ANext]_avars
  PROVE  \/ UNCHANGED avars \/ LooksOnly \/ Applies
         \/ Deadline \/ ClusterWorks
         \/ \E k \in Keys : Delete(k) \/ CreateNamespace(k)
<1>1. ApplyNamespace => Applies
  BY DEF ApplyNamespace, Applies
<1>2. InstallCRD => Applies
  BY DEF InstallCRD, Applies
<1>3. ApplyObject => Applies
  BY DEF ApplyObject, Applies
<1>4. KubectlFails => Applies
  BY DEF KubectlFails, Applies
<1> QED
  BY <1>1, <1>2, <1>3, <1>4 DEF ANext, Apply, LooksOnly

\* Where Apply is when it applies the document it visits there is one.
LEMMA AppliesFacts ==
  ASSUME Shape, Agenda, Applies
  PROVE  /\ World' /\ call' = call
         /\ \/ UNCHANGED <<cluster, spec>>
            \/ /\ pc \in {"applyNamespace", "apply"} /\ todo # <<>>
               /\ MadeFrom(Key(Head(todo)), Head(todo))
            \/ pc = "installCRD" /\ MadeFrom(CRD, CRDDoc)
<1>1. call' = call
  BY DEF Applies, ApplyNamespace, InstallCRD, ApplyObject, KubectlFails
<1>2. CASE UNCHANGED <<cluster, spec>>
  BY <1>1, <1>2 DEF Shape, World, ClusterInv
<1>3. CASE pc \in {"applyNamespace", "apply"} /\ todo # <<>>
           /\ KubectlApply(Key(Head(todo)), Head(todo))
  BY <1>1, <1>3, HeadFacts, KubectlApplyFacts DEF Shape
<1>4. CASE pc = "installCRD" /\ KubectlApply(CRD, CRDDoc)
  BY <1>1, <1>4, CRDDocFacts, KubectlApplyFacts, ApplyAssumption DEF Shape
<1>5. \/ UNCHANGED <<cluster, spec>>
      \/ /\ pc \in {"applyNamespace", "apply"} /\ todo # <<>>
         /\ KubectlApply(Key(Head(todo)), Head(todo))
      \/ pc = "installCRD" /\ KubectlApply(CRD, CRDDoc)
  BY DEF Applies, ApplyNamespace, InstallCRD, ApplyObject, KubectlFails, Agenda
<1> QED
  BY <1>2, <1>3, <1>4, <1>5

\* Nothing goes but what others delete.
LEMMA WorldNext ==
  ASSUME Shape, Agenda, [ANext]_avars
  PROVE  /\ World' /\ call' = call
         /\ ~disturbed' => \A k \in Keys : Exists(k) => cluster'[k] # NoObject
<1>1. CASE UNCHANGED avars \/ LooksOnly \/ Deadline
  <2>1. UNCHANGED <<call, cluster, spec>>
    BY <1>1, LooksOnlyFacts DEF avars, Deadline
  <2> QED
    BY <2>1 DEF Shape, World, ClusterInv, Exists
<1>2. CASE Applies
  BY <1>2, AppliesFacts DEF MadeFrom, Exists
<1>3. CASE ClusterWorks
  BY <1>3, WorksFacts DEF Shape, Exists
<1>4. ASSUME NEW k \in Keys, Delete(k)
      PROVE  World' /\ call' = call /\ disturbed'
  BY <1>4, DeleteFacts DEF Shape
<1>5. ASSUME NEW k \in Keys, CreateNamespace(k)
      PROVE  /\ World' /\ call' = call
             /\ \A j \in Keys : Exists(j) => cluster'[j] # NoObject
  BY <1>5, CreateFacts DEF Shape, MadeFrom, Exists
<1> QED
  BY <1>1, <1>2, <1>3, <1>4, <1>5, StepIs

\* The documents that are left are documents of the files.
LEMMA ShapeNext ==
  ASSUME Shape, Agenda, [ANext]_avars
  PROVE  Shape'
<1> DEFINE S == Seq(Range(call.config))
<1>1. World' /\ call' = call /\ call' \in Calls
  BY WorldNext DEF Shape
<1>2. todo \in S /\ objs \in S
  BY DEF Shape
<1>3. todo' \in S /\ objs' \in S
  <2>0. <<>> \in S
    OBVIOUS
  <2>1. CASE UNCHANGED <<todo, objs>>
    BY <1>2, <2>1
  <2>2. CASE Parse
    <3>1. PICK p \in Bijection(DOMAIN call.config, DOMAIN call.config),
               m \in 0..Len(call.config) :
            LET s == [i \in DOMAIN call.config |-> call.config[p[i]]]
            IN  /\ InOrder(p, m)
                /\ todo' = SubSeq(s, 1, m) /\ objs' = SubSeq(s, m + 1, Len(s))
      BY <2>2 DEF Parse
    <3> DEFINE s == [i \in DOMAIN call.config |-> call.config[p[i]]]
    <3>2. SubSeq(s, 1, m) \in S /\ SubSeq(s, m + 1, Len(s)) \in S
      BY <3>1, ParseSorts DEF Shape
    <3> QED
      BY <3>1, <3>2
  <2>3. CASE todo # <<>> /\ todo' = Tail(todo) /\ objs' \in {objs, Append(objs, Head(todo))}
    <3>1. Tail(todo) \in S /\ Head(todo) \in Range(call.config)
      BY <1>2, <2>3, TailFacts
    <3>2. Append(objs, Head(todo)) \in S
      BY <1>2, <3>1, AppendFacts
    <3> QED
      BY <1>2, <2>3, <3>1, <3>2
  <2>4. CASE todo' = objs /\ objs' \in {objs, <<>>}
    BY <1>2, <2>0, <2>4
  <2>5. \/ UNCHANGED <<todo, objs>> \/ Parse
        \/ todo # <<>> /\ todo' = Tail(todo) /\ objs' \in {objs, Append(objs, Head(todo))}
        \/ todo' = objs /\ objs' \in {objs, <<>>}
    BY DEF ANext, Apply, avars, deployerVars, Agenda, CheckFlags, Authorize,
           CheckNamespace, ApplyNamespace, NamespacesDone, EnsureCRD, InstallCRD,
           ApplyObject, ApplyDone, GetObject, EndRound, Summary, CommandFails,
           KubectlFails, Deadline, ClusterWorks, Delete, CreateNamespace
  <2> QED
    BY <2>1, <2>2, <2>3, <2>4, <2>5
<1> QED
  BY <1>1, <1>3 DEF Shape

-----------------------------------------------------------------------------
(* What the loops have before them.                                         *)

\* The rest of what is left is in order.
LEMMA TailInOrder ==
  ASSUME NEW c, NEW S, NEW s \in Seq(S), s # <<>>
  PROVE  /\ OnlyNamespaces(s) => OnlyNamespaces(Tail(s))
         /\ NoNamespaces(s) => NoNamespaces(Tail(s))
         /\ LastComesLast(c, s) => LastComesLast(c, Tail(s))
<1> DEFINE K(d) == KeyIn(c.namespace, d)
<1>1. /\ \A i \in DOMAIN Tail(s) :
           i \in Nat /\ i + 1 \in DOMAIN s /\ Tail(s)[i] = s[i + 1]
      /\ \A i \in DOMAIN s :
           i = 1 \/ (i - 1 \in DOMAIN Tail(s) /\ s[i] = Tail(s)[i - 1])
      /\ \A i \in DOMAIN s : i \in Nat
  BY TailFacts
<1>2. /\ OnlyNamespaces(s) => OnlyNamespaces(Tail(s))
      /\ NoNamespaces(s) => NoNamespaces(Tail(s))
  BY <1>1 DEF OnlyNamespaces, NoNamespaces
<1>3. ASSUME LastComesLast(c, s), NEW i \in DOMAIN Tail(s),
             \A j \in DOMAIN Tail(s) : K(Tail(s)[j]) = K(Tail(s)[i]) => j <= i
      PROVE  Tail(s)[i] = LastOf(c, K(Tail(s)[i]))
  <2>1. i + 1 \in DOMAIN s /\ s[i + 1] = Tail(s)[i] /\ i \in Nat
    BY <1>1
  <2>2. ASSUME NEW j \in DOMAIN s, K(s[j]) = K(s[i + 1])
        PROVE  j <= i + 1
    <3>1. CASE j = 1
      BY <2>1, <3>1
    <3>2. CASE j # 1
      <4>1. j - 1 \in DOMAIN Tail(s) /\ s[j] = Tail(s)[j - 1] /\ j \in Nat
        BY <1>1, <3>2
      <4>2. j - 1 <= i
        BY <1>3, <2>1, <2>2, <4>1
      <4> QED
        BY <2>1, <4>1, <4>2
    <3> QED
      BY <3>1, <3>2
  <2> HIDE DEF K
  <2>3. s[i + 1] = LastOf(c, K(s[i + 1]))
    BY <1>3, <2>1, <2>2 DEF LastComesLast, K
  <2> QED
    BY <2>1, <2>3
<1>4. LastComesLast(c, s) => LastComesLast(c, Tail(s))
  BY <1>3 DEF LastComesLast
<1> QED
  BY <1>2, <1>4

LEMMA NothingLeft == NoNamespaces(<<>>)
BY DEF NoNamespaces

LEMMA AgendaNext ==
  ASSUME Shape, Agenda, [ANext]_avars
  PROVE  Agenda'
<1>0. call' = call /\ call \in Calls
  BY WorldNext DEF Shape
<1> USE DEF Goto, Return
<1>1. CASE UNCHANGED <<pc, todo, objs>>
  BY <1>0, <1>1 DEF Agenda
<1>2. CASE pc' \in {"authorize", "parse", "summary", "done"}
  BY <1>2 DEF Agenda
<1>3. CASE Parse
  <2>1. PICK p \in Bijection(DOMAIN call.config, DOMAIN call.config),
             m \in 0..Len(call.config) :
          LET s == [i \in DOMAIN call.config |-> call.config[p[i]]]
          IN  /\ InOrder(p, m)
              /\ todo' = SubSeq(s, 1, m) /\ objs' = SubSeq(s, m + 1, Len(s))
    BY <1>3 DEF Parse
  <2> DEFINE s == [i \in DOMAIN call.config |-> call.config[p[i]]]
  <2>2. OnlyNamespaces(SubSeq(s, 1, m)) /\ Complete(call, SubSeq(s, m + 1, Len(s)))
    BY <1>0, <2>1, ParseSorts
  <2>3. pc' \in {"namespaces", "done"}
    BY <1>3 DEF Parse
  <2> HIDE DEF s
  <2>4. OnlyNamespaces(todo') /\ Complete(call', objs')
    BY <1>0, <2>1, <2>2 DEF s
  <2> QED
    BY <2>3, <2>4 DEF Agenda
\* A document is done with.
<1>4. CASE todo # <<>> /\ todo' = Tail(todo) /\ UNCHANGED objs
           /\ <<pc, pc'>> \in {<<"namespaces", "namespaces">>,
                               <<"applyNamespace", "namespaces">>, <<"apply", "apply">>}
  <2>1. /\ OnlyNamespaces(todo) => OnlyNamespaces(todo')
        /\ NoNamespaces(todo) => NoNamespaces(todo')
        /\ LastComesLast(call, todo) => LastComesLast(call', todo')
    BY <1>0, <1>4, TailInOrder DEF Shape
  <2> QED
    BY <1>0, <1>4, <2>1 DEF Agenda
<1>5. CASE UNCHANGED <<todo, objs>>
           /\ \/ pc = "namespaces" /\ pc' = "applyNamespace" /\ todo # <<>>
              \/ pc = "apply" /\ pc' \in {"apply", "installCRD"}
              \/ pc = "installCRD" /\ pc' = "apply"
  BY <1>0, <1>5 DEF Agenda
<1>6. CASE NamespacesDone
  <2>1. /\ pc = "namespaces" /\ pc' = "apply" /\ todo' = objs /\ objs' = objs
    BY <1>6 DEF NamespacesDone
  <2>2. Complete(call', objs') /\ NoNamespaces(todo') /\ LastComesLast(call', todo')
    BY <1>0, <2>1 DEF Agenda, Complete
  <2> QED
    BY <2>1, <2>2 DEF Agenda
<1>7. CASE ApplyDone
  <2>1. /\ pc = "apply" /\ pc' \in {"done", "summary", "get"}
        /\ todo' = objs /\ objs' = <<>>
    BY <1>7 DEF ApplyDone
  <2>2. NoNamespaces(todo') /\ NoNamespaces(objs')
    BY <2>1, NothingLeft DEF Agenda, Complete
  <2> QED
    BY <2>1, <2>2 DEF Agenda
<1>8. CASE GetObject
  <2>1. pc = "get" /\ todo # <<>> /\ NoNamespaces(todo) /\ NoNamespaces(objs)
    BY <1>8 DEF GetObject, Agenda
  <2>2. \/ pc' = "done"
        \/ /\ pc' = "get" /\ todo' = Tail(todo)
           /\ objs' \in {objs, Append(objs, Head(todo))}
    BY <1>8 DEF GetObject
  <2>3. NoNamespaces(Tail(todo))
    BY <2>1, TailInOrder DEF Shape
  <2>4. NoNamespaces(Append(objs, Head(todo)))
    <3>1. Head(todo).kind # "Namespace" /\ Head(todo) \in Range(call.config)
      BY <2>1, HeadFacts DEF NoNamespaces
    <3>2. /\ \A i \in DOMAIN objs : Append(objs, Head(todo))[i] = objs[i]
          /\ Append(objs, Head(todo))[Len(objs) + 1] = Head(todo)
          /\ \A i \in DOMAIN Append(objs, Head(todo)) :
               i \in DOMAIN objs \/ i = Len(objs) + 1
      BY <3>1, AppendFacts DEF Shape
    <3> QED
      BY <2>1, <3>1, <3>2 DEF NoNamespaces
  <2>5. pc' = "get" => NoNamespaces(todo') /\ NoNamespaces(objs')
    BY <2>1, <2>2, <2>3, <2>4
  <2> QED
    BY <2>2, <2>5 DEF Agenda
<1>9. CASE EndRound
  <2>1. pc = "get" /\ NoNamespaces(todo) /\ NoNamespaces(objs)
    BY <1>9 DEF EndRound, Agenda
  <2>2. \/ pc' = "summary"
        \/ pc' = "get" /\ todo' = objs /\ objs' = <<>>
    BY <1>9 DEF EndRound
  <2> QED
    BY <2>1, <2>2, NothingLeft DEF Agenda
<1> QED
  <2>1. CASE CheckFlags \/ Authorize \/ Summary \/ CommandFails \/ KubectlFails
    BY <1>2, <2>1 DEF CheckFlags, Authorize, Summary, CommandFails, KubectlFails
  <2>2. CASE CheckNamespace
    BY <1>4, <1>5, <2>2 DEF CheckNamespace
  <2>3. CASE ApplyNamespace
    BY <1>4, <2>3 DEF ApplyNamespace, Agenda
  <2>4. CASE EnsureCRD \/ InstallCRD
    BY <1>5, <2>4 DEF EnsureCRD, InstallCRD
  <2>5. CASE ApplyObject
    BY <1>2, <1>4, <2>5 DEF ApplyObject
  <2>6. CASE UNCHANGED avars \/ Deadline \/ ClusterWorks
             \/ \E k \in Keys : Delete(k) \/ CreateNamespace(k)
    BY <1>1, <2>6 DEF avars, Deadline, ClusterWorks, Delete, CreateNamespace, deployerVars
  <2> QED
    BY <1>3, <1>6, <1>7, <1>8, <1>9, <2>1, <2>2, <2>3, <2>4, <2>5, <2>6 DEF ANext, Apply

-----------------------------------------------------------------------------
(* Namespaces are left alone.                                               *)

\* NoDoc is in no set of documents.
LEMMA NoDocIsNew == NoDoc \notin UNION Existing
BY ApplyAssumption, DocumentIsThere

LEMMA StillMissingNext ==
  ASSUME Shape, Agenda, StillMissing, [ANext]_avars
  PROVE  StillMissing'
<1>0. call' = call /\ call \in Calls /\ World
  BY WorldNext DEF Shape
<1> USE DEF Goto, Return
<1>1. CASE pc' \notin {"applyNamespace", "installCRD"}
  BY <1>1 DEF StillMissing
<1>2. CASE CheckNamespace /\ pc' = "applyNamespace"
  <2>1. /\ todo # <<>> /\ todo' = todo /\ ~Exists(Key(Head(todo))) /\ spec' = spec
    BY <1>2 DEF CheckNamespace, Missing
  <2>2. spec[Key(Head(todo))] = NoDoc
    BY <1>0, <2>1, HeadFacts DEF World, Exists
  <2> QED
    BY <1>0, <1>2, <2>1, <2>2, NoDocIsNew DEF StillMissing, Key
<1>3. CASE EnsureCRD /\ pc' = "installCRD"
  BY <1>3 DEF EnsureCRD, StillMissing, Exists
\* Apply waits, and the world goes on.
<1>4. CASE UNCHANGED <<pc, todo>> /\ pc \in {"applyNamespace", "installCRD"}
  <2> DEFINE h == Key(Head(todo))
  <2>1. pc = "applyNamespace" =>
          todo # <<>> /\ h \in Keys /\ Key(Head(todo))' = h /\ spec[h] \notin UNION Existing
    BY <1>0, <1>4, HeadFacts DEF Agenda, StillMissing, Key
  <2> HIDE DEF h
  <2>2. pc = "applyNamespace" => spec'[h] \notin UNION Existing
    <3>1. CASE UNCHANGED spec
      BY <2>1, <3>1
    <3>2. ASSUME NEW k \in Keys, Delete(k), pc = "applyNamespace"
          PROVE  spec'[h] \notin UNION Existing
      BY <1>0, <2>1, <3>2, DeleteFacts, NoDocIsNew
    <3>3. ASSUME NEW k \in Keys, CreateNamespace(k), pc = "applyNamespace"
          PROVE  spec'[h] \notin UNION Existing
      BY <1>0, <2>1, <3>3, CreateFacts DEF MadeFrom
    <3>4. Applies => pc' # pc
      BY <1>4 DEF Applies, ApplyNamespace, InstallCRD, ApplyObject, KubectlFails
    <3> QED
      BY <1>0, <1>4, <3>1, <3>2, <3>3, <3>4, StepIs, LooksOnlyFacts, WorksFacts
         DEF avars, Deadline
  <2>3. pc = "installCRD" => ~Exists(CRD)'
    <3>1. pc = "installCRD" => ~Exists(CRD)
      BY DEF StillMissing
    <3>2. CASE UNCHANGED cluster
      BY <3>1, <3>2 DEF Exists
    <3>3. ASSUME NEW k \in Keys, Delete(k), pc = "installCRD"
          PROVE  ~Exists(CRD)'
      BY <1>0, <3>1, <3>3, DeleteFacts, ApplyAssumption DEF Exists
    <3>4. ASSUME NEW k \in Keys, CreateNamespace(k), pc = "installCRD"
          PROVE  ~Exists(CRD)'
      <4>1. k # CRD
        BY <1>0, <3>4, CreateFacts, ApplyAssumption
      <4> QED
        BY <1>0, <3>1, <3>4, <4>1, CreateFacts, ApplyAssumption DEF MadeFrom, Exists
    <3>5. Applies => pc' # pc
      BY <1>4 DEF Applies, ApplyNamespace, InstallCRD, ApplyObject, KubectlFails
    <3>6. CASE ClusterWorks
      BY <1>0, <3>1, <3>6, WorksFacts, ApplyAssumption DEF Exists
    <3> QED
      BY <1>0, <1>4, <3>2, <3>3, <3>4, <3>5, <3>6, StepIs, LooksOnlyFacts
         DEF avars, Deadline
  <2> QED
    BY <1>4, <2>1, <2>2, <2>3 DEF StillMissing
<1>5. \/ pc' \notin {"applyNamespace", "installCRD"}
      \/ CheckNamespace /\ pc' = "applyNamespace"
      \/ EnsureCRD /\ pc' = "installCRD"
      \/ UNCHANGED <<pc, todo>>
  BY DEF ANext, Apply, avars, deployerVars, CheckFlags, Authorize, Parse,
         CheckNamespace, ApplyNamespace, NamespacesDone, EnsureCRD, InstallCRD,
         ApplyObject, ApplyDone, GetObject, EndRound, Summary, CommandFails,
         KubectlFails, Deadline, ClusterWorks, Delete, CreateNamespace
<1> QED
  BY <1>1, <1>2, <1>3, <1>4, <1>5

LEMMA InitHolds == AInit => Shape /\ Agenda /\ StillMissing
<1> SUFFICES ASSUME AInit PROVE Shape /\ Agenda /\ StillMissing
  OBVIOUS
<1>1. World /\ call \in Calls /\ todo = <<>> /\ objs = <<>> /\ pc = "flags"
  BY InitWorld DEF AInit
<1>2. <<>> \in Seq(Range(call.config))
  OBVIOUS
<1> QED
  BY <1>1, <1>2 DEF Shape, Agenda, StillMissing

\* A namespace that was there when Apply began is what it was, or it is gone:
\* Apply applies the document of a namespace only after it saw none, and what
\* others create meanwhile is not one of those (NamespacesAreLeftAlone).
THEOREM ApplyLeavesNamespacesAlone == ASpec => NamespacesAreLeftAlone
<1>1. AInit => Shape /\ Agenda /\ StillMissing
  BY InitHolds
<1>2. Shape /\ Agenda /\ StillMissing /\ [ANext]_avars => (Shape /\ Agenda /\ StillMissing)'
  BY ShapeNext, AgendaNext, StillMissingNext
<1>3. Shape /\ Agenda /\ StillMissing /\ [ANext]_avars =>
        [\A k \in Keys : Kind[k] = "Namespace" /\ spec[k] \in UNION Existing =>
           spec'[k] \in {spec[k], NoDoc}]_avars
  <2> SUFFICES ASSUME Shape, Agenda, StillMissing, [ANext]_avars,
                      NEW k \in Keys, Kind[k] = "Namespace", spec[k] \in UNION Existing
               PROVE  spec'[k] \in {spec[k], NoDoc}
    OBVIOUS
  <2>1. CASE UNCHANGED spec
    BY <2>1
  <2>2. CASE Applies
    <3>1. CASE pc = "applyNamespace" /\ todo # <<>> /\ MadeFrom(Key(Head(todo)), Head(todo))
      BY <3>1 DEF MadeFrom, StillMissing
    <3>2. CASE pc = "apply" /\ todo # <<>> /\ MadeFrom(Key(Head(todo)), Head(todo))
      <4>1. Kind[Key(Head(todo))] # "Namespace"
        BY <3>2, HeadFacts DEF Agenda, NoNamespaces
      <4> QED
        BY <3>2, <4>1 DEF MadeFrom
    <3>3. CASE MadeFrom(CRD, CRDDoc)
      BY <3>3, ApplyAssumption DEF MadeFrom
    <3> QED
      BY <2>1, <2>2, <3>1, <3>2, <3>3, AppliesFacts
  <2>3. ASSUME NEW j \in Keys, Delete(j)
        PROVE  spec'[k] \in {spec[k], NoDoc}
    BY <2>3, DeleteFacts DEF Shape
  <2>4. ASSUME NEW j \in Keys, CreateNamespace(j)
        PROVE  spec'[k] \in {spec[k], NoDoc}
    <3>1. j # k
      BY <2>4, CreateFacts, NoDocIsNew DEF Shape, World, Exists
    <3> QED
      BY <2>4, <3>1, CreateFacts DEF Shape, MadeFrom
  <2> QED
    BY <2>1, <2>2, <2>3, <2>4, StepIs, LooksOnlyFacts, WorksFacts
       DEF avars, Deadline, Shape
<1> QED
  BY <1>1, <1>2, <1>3, PTL DEF ASpec, NamespacesAreLeftAlone

-----------------------------------------------------------------------------
(* What is applied.                                                         *)

\* The objects of the files.
LEMMA WantedFacts ==
  ASSUME call \in Calls
  PROVE  /\ WantedBy(call) \subseteq Keys /\ NamespacesOf(call) \subseteq Keys
         /\ \A k \in WantedBy(call) : Kind[k] # "Namespace"
         /\ \A d \in Range(call.config) :
              d.kind # "Namespace" => Key(d) \in WantedBy(call)
         /\ \A d \in Range(call.config) :
              d.kind = "Namespace" => Key(d) \in NamespacesOf(call)
<1>1. \A i \in DOMAIN call.config : call.config[i] \in Range(call.config)
  BY DEF Range
<1>2. \A i \in DOMAIN call.config :
        /\ KeyIn(call.namespace, call.config[i]) \in Keys
        /\ Kind[KeyIn(call.namespace, call.config[i])] = call.config[i].kind
  BY <1>1, DocumentFacts DEF Key
<1>3. WantedBy(call) \subseteq Keys /\ NamespacesOf(call) \subseteq Keys
  BY <1>2 DEF WantedBy, NamespacesOf
<1>4. \A k \in WantedBy(call) : Kind[k] # "Namespace"
  BY <1>2 DEF WantedBy, NotNamespace
<1>5. \A d \in Range(call.config) : d.kind # "Namespace" => Key(d) \in WantedBy(call)
  BY DEF Range, WantedBy, NotNamespace, Key
<1>6. \A d \in Range(call.config) : d.kind = "Namespace" => Key(d) \in NamespacesOf(call)
  BY DEF Range, NamespacesOf, IsNamespace, Key
<1> QED
  BY <1>3, <1>4, <1>5, <1>6

\* A document is taken from what is left, or put there.
LEMMA AwaitsTail ==
  ASSUME NEW c, NEW S, NEW s \in Seq(S), s # <<>>, NEW k
  PROVE  Awaits(c, s, k) <=> KeyIn(c.namespace, Head(s)) = k \/ Awaits(c, Tail(s), k)
<1>1. /\ Head(s) = s[1] /\ 1 \in DOMAIN s
      /\ \A i \in DOMAIN Tail(s) : i + 1 \in DOMAIN s /\ Tail(s)[i] = s[i + 1]
      /\ \A i \in DOMAIN s :
           i = 1 \/ (i - 1 \in DOMAIN Tail(s) /\ s[i] = Tail(s)[i - 1])
  BY TailFacts
<1>2. ASSUME Awaits(c, s, k)
      PROVE  KeyIn(c.namespace, Head(s)) = k \/ Awaits(c, Tail(s), k)
  <2>1. PICK i \in DOMAIN s : KeyIn(c.namespace, s[i]) = k
    BY <1>2 DEF Awaits
  <2> QED
    BY <1>1, <2>1 DEF Awaits
<1>3. KeyIn(c.namespace, Head(s)) = k => Awaits(c, s, k)
  BY <1>1 DEF Awaits
<1>4. ASSUME Awaits(c, Tail(s), k) PROVE Awaits(c, s, k)
  <2>1. PICK i \in DOMAIN Tail(s) : KeyIn(c.namespace, Tail(s)[i]) = k
    BY <1>4 DEF Awaits
  <2> QED
    BY <1>1, <2>1 DEF Awaits
<1> QED
  BY <1>2, <1>3, <1>4

LEMMA AwaitsNothing == ASSUME NEW c, NEW k PROVE ~Awaits(c, <<>>, k)
BY DEF Awaits

\* The last document that is left for an object is the last of the files.
LEMMA HeadIsLast ==
  ASSUME NEW c, NEW S, NEW s \in Seq(S), s # <<>>, LastComesLast(c, s),
         ~Awaits(c, Tail(s), KeyIn(c.namespace, Head(s)))
  PROVE  Head(s) = LastOf(c, KeyIn(c.namespace, Head(s)))
<1>1. /\ Head(s) = s[1] /\ 1 \in DOMAIN s
      /\ \A i \in DOMAIN s :
           i = 1 \/ (i - 1 \in DOMAIN Tail(s) /\ s[i] = Tail(s)[i - 1])
  BY TailFacts
<1>2. ASSUME NEW j \in DOMAIN s, KeyIn(c.namespace, s[j]) = KeyIn(c.namespace, s[1])
      PROVE  j <= 1
  <2>1. j = 1
    BY <1>1, <1>2 DEF Awaits
  <2> QED
    BY <2>1
<1> QED
  BY <1>1, <1>2 DEF LastComesLast

\* Who disturbed has disturbed.
LEMMA StaysDisturbed ==
  ASSUME [ANext]_avars, ~disturbed'
  PROVE  ~disturbed
BY DEF ANext, Apply, avars, CheckFlags, Authorize, Parse,
       CheckNamespace, ApplyNamespace, NamespacesDone, EnsureCRD, InstallCRD,
       ApplyObject, ApplyDone, GetObject, EndRound, Summary, CommandFails,
       KubectlFails, Deadline, ClusterWorks, Delete, CreateNamespace

\* Steps that are not kubectl's.
OthersStep ==
  \/ UNCHANGED <<cluster, spec>> \/ ClusterWorks
  \/ \E k \in Keys : Delete(k) \/ CreateNamespace(k)

\* The objects of the files are left alone by all but Apply and those who
\* disturb.
LEMMA OthersLeaveWanted ==
  ASSUME Shape, Agenda, [ANext]_avars, ~disturbed', NEW k \in WantedBy(call),
         Exists(k), OthersStep
  PROVE  Exists(k)' /\ spec'[k] = spec[k]
<1>1. k \in Keys /\ Kind[k] # "Namespace"
  BY WantedFacts DEF Shape
<1>2. Exists(k)'
  BY <1>1, WorldNext DEF Exists
<1>3. ASSUME NEW j \in Keys, Delete(j) \/ CreateNamespace(j)
      PROVE  spec'[k] = spec[k]
  <2>1. CreateNamespace(j)
    BY <1>3, DeleteFacts DEF Shape
  <2> QED
    BY <1>1, <2>1, CreateFacts DEF MadeFrom, Shape
<1>4. spec'[k] = spec[k]
  BY <1>3, WorksFacts DEF OthersStep, Shape
<1> QED
  BY <1>2, <1>4

LEMMA AppliedNext ==
  ASSUME Shape, Agenda, StillMissing, Applied, Waiting, [ANext]_avars
  PROVE  Applied'
<1>0. call' = call /\ call \in Calls /\ World /\ todo \in Seq(Range(call.config))
  BY WorldNext DEF Shape
<1> SUFFICES ASSUME ~call.dryRun, ~disturbed' PROVE Applied'
  BY <1>0 DEF Applied
<1>g. ~disturbed'
  OBVIOUS
<1> USE DEF Goto, Return
<1>a. ~disturbed /\ \A k \in Keys : Exists(k) => Exists(k)'
  BY StaysDisturbed, WorldNext DEF Exists
<1>b. \A k \in WantedBy(call) \cup NamespacesOf(call) :
        k \in Keys /\ (Exists(k) => Exists(k)')
  BY <1>0, <1>a, WantedFacts
<1>c. CRD \in Keys
  BY ApplyAssumption
<1>d. NamespacesSoFar /\ ObjectsSoFar /\ CRDIsThere /\ AllDeployed
  BY <1>a DEF Applied
\* The CRD is there when it was looked for, or will be installed at once.
<1>e. CRDIsThere'
  <2>1. CASE EnsureCRD
    BY <2>1 DEF EnsureCRD, CRDIsThere, Exists
  <2>2. CASE InstallCRD
    <3>1. KubectlApply(CRD, CRDDoc)
      BY <2>2 DEF InstallCRD
    <3>2. MadeFrom(CRD, CRDDoc)
      BY <1>0, <1>c, <3>1, CRDDocFacts, KubectlApplyFacts
    <3> QED
      BY <3>2 DEF MadeFrom, CRDIsThere, Exists
  <2>3. CASE ensured' = ensured /\ (pc = "installCRD" => pc' = "installCRD")
    BY <1>a, <1>c, <1>d, <2>3 DEF CRDIsThere
  <2>4. \/ EnsureCRD \/ InstallCRD
        \/ ensured' = ensured /\ (pc = "installCRD" => pc' = "installCRD")
    BY DEF ANext, Apply, avars, deployerVars, CheckFlags, Authorize, Parse,
           CheckNamespace, ApplyNamespace, NamespacesDone, ApplyObject, ApplyDone,
           GetObject, EndRound, Summary, CommandFails, KubectlFails, Deadline,
           ClusterWorks, Delete, CreateNamespace
  <2> QED
    BY <2>1, <2>2, <2>3, <2>4
<1>f. SUFFICES NamespacesSoFar' /\ ObjectsSoFar' /\ AllDeployed'
  BY <1>e DEF Applied
\* Nothing of the files is applied.
<1>1. ASSUME OthersStep, UNCHANGED <<pc, todo, result>>
      PROVE  NamespacesSoFar' /\ ObjectsSoFar' /\ AllDeployed'
  <2>1. \A k \in WantedBy(call) : Exists(k) => Exists(k)' /\ spec'[k] = spec[k]
    BY <1>1, OthersLeaveWanted
  <2>2. NamespacesSoFar'
    BY <1>0, <1>1, <1>b, <1>d DEF NamespacesSoFar
  <2>3. ObjectsSoFar'
    BY <1>0, <1>1, <1>d, <2>1 DEF ObjectsSoFar
  <2>4. AllDeployed'
    BY <1>0, <1>1, <1>d, <2>1 DEF AllDeployed
  <2> QED
    BY <2>2, <2>3, <2>4
<1>2. CASE pc' \in {"flags", "authorize", "parse", "done"} /\ result' # "ok"
  BY <1>2 DEF NamespacesSoFar, ObjectsSoFar, AllDeployed
<1>3. CASE Parse
  <2>1. PICK p \in Bijection(DOMAIN call.config, DOMAIN call.config),
             m \in 0..Len(call.config) :
          LET s == [i \in DOMAIN call.config |-> call.config[p[i]]]
          IN  /\ InOrder(p, m)
              /\ todo' = SubSeq(s, 1, m) /\ objs' = SubSeq(s, m + 1, Len(s))
    BY <1>3 DEF Parse
  <2> DEFINE s == [i \in DOMAIN call.config |-> call.config[p[i]]]
  <2>2. \A k \in NamespacesOf(call) : Awaits(call, SubSeq(s, 1, m), k)
    BY <1>0, <2>1, ParseSorts
  <2>3. \/ pc' = "namespaces" /\ result' = result /\ pc = "parse"
        \/ pc' = "done" /\ result' = "error"
    BY <1>3 DEF Parse
  <2> HIDE DEF s
  <2>4. \A k \in NamespacesOf(call') : Awaits(call', todo', k)
    BY <1>0, <2>1, <2>2 DEF s
  <2>5. pc' = "namespaces" => result' # "ok"
    BY <2>3 DEF Waiting
  <2> QED
    BY <2>3, <2>4, <2>5 DEF NamespacesSoFar, ObjectsSoFar, AllDeployed
\* The next namespace is there.
<1>4. CASE pc \in {"namespaces", "applyNamespace"} /\ pc' = "namespaces" /\ todo # <<>>
           /\ todo' = Tail(todo) /\ cluster'[Key(Head(todo))] # NoObject /\ result' = result
  <2>1. \A k : Awaits(call, todo, k) => k = Key(Head(todo)) \/ Awaits(call, todo', k)
    BY <1>0, <1>4, AwaitsTail DEF Key
  <2>2. NamespacesSoFar'
    BY <1>0, <1>4, <1>b, <1>d, <2>1 DEF NamespacesSoFar, Exists
  <2>3. result' # "ok"
    BY <1>4 DEF Waiting
  <2> QED
    BY <1>4, <2>2, <2>3 DEF ObjectsSoFar, AllDeployed
<1>5. CASE CheckNamespace /\ pc' = "applyNamespace"
  <2>1. UNCHANGED <<cluster, spec, todo, result>> /\ pc = "namespaces"
    BY <1>5 DEF CheckNamespace
  <2>2. result' # "ok"
    BY <2>1 DEF Waiting
  <2> QED
    BY <1>0, <1>5, <1>b, <1>d, <2>1, <2>2 DEF NamespacesSoFar, ObjectsSoFar, AllDeployed
<1>6. CASE NamespacesDone
  <2>1. /\ pc = "namespaces" /\ pc' = "apply" /\ todo = <<>> /\ todo' = objs
        /\ UNCHANGED <<cluster, spec, result>>
    BY <1>6 DEF NamespacesDone
  <2>2. \A k \in WantedBy(call') : Awaits(call', todo', k)
    BY <1>0, <2>1 DEF Agenda, Complete
  <2>3. \A k \in NamespacesOf(call) : Exists(k)'
    BY <1>b, <1>d, <2>1, AwaitsNothing DEF NamespacesSoFar
  <2>4. result' # "ok"
    BY <2>1 DEF Waiting
  <2> QED
    BY <1>0, <2>1, <2>2, <2>3, <2>4 DEF NamespacesSoFar, ObjectsSoFar, AllDeployed
<1>7. CASE EnsureCRD
  <2>1. /\ pc = "apply" /\ pc' \in {"apply", "installCRD"}
        /\ UNCHANGED <<cluster, spec, todo, result>>
    BY <1>7 DEF EnsureCRD
  <2>2. result' # "ok"
    BY <2>1 DEF Waiting
  <2> QED
    BY <1>0, <1>d, <2>1, <2>2 DEF NamespacesSoFar, ObjectsSoFar, AllDeployed, Exists
\* The CRD was missing, so that no document of the files was applied for it.
<1>8. CASE InstallCRD
  <2>1. pc = "installCRD" /\ pc' = "apply" /\ UNCHANGED <<todo, result>>
    BY <1>8 DEF InstallCRD
  <2>2. MadeFrom(CRD, CRDDoc) /\ ~Exists(CRD)
    <3>1. KubectlApply(CRD, CRDDoc)
      BY <1>8 DEF InstallCRD
    <3> QED
      BY <1>0, <1>c, <2>1, <3>1, CRDDocFacts, KubectlApplyFacts DEF StillMissing
  <2>3. result' # "ok"
    BY <2>1 DEF Waiting
  <2>4. ASSUME NEW k \in WantedBy(call), ~Awaits(call, todo, k)
        PROVE  Exists(k)' /\ spec'[k] = LastOf(call, k)
    <3>1. Exists(k) /\ spec[k] = LastOf(call, k) /\ k # CRD
      BY <1>d, <2>1, <2>2, <2>4 DEF ObjectsSoFar
    <3> QED
      BY <1>b, <2>2, <3>1 DEF MadeFrom
  <2>5. ObjectsSoFar'
    BY <1>0, <2>1, <2>4 DEF ObjectsSoFar
  <2>6. NamespacesSoFar'
    BY <1>0, <1>b, <1>d, <2>1 DEF NamespacesSoFar
  <2> QED
    BY <2>1, <2>3, <2>5, <2>6 DEF AllDeployed
\* The object is the one of its last document when no other document is left.
<1>9. CASE ApplyObject /\ pc' = "apply"
  <2>1. /\ pc = "apply" /\ todo # <<>> /\ todo' = Tail(todo) /\ result' = result
        /\ KubectlApply(Key(Head(todo)), Head(todo))
    BY <1>9 DEF ApplyObject
  <2>2. MadeFrom(Key(Head(todo)), Head(todo))
    BY <2>1, HeadFacts, KubectlApplyFacts, <1>0
  <2>3. result' # "ok"
    BY <2>1 DEF Waiting
  <2>4. ASSUME NEW k \in WantedBy(call), ~Awaits(call, Tail(todo), k)
        PROVE  Exists(k)' /\ spec'[k] = LastOf(call, k)
    <3>1. CASE k = Key(Head(todo))
      <4>1. Head(todo) = LastOf(call, k)
        BY <1>0, <2>1, <2>4, <3>1, HeadIsLast DEF Agenda, Key
      <4> QED
        BY <2>2, <3>1, <4>1 DEF MadeFrom, Exists
    <3>2. CASE k # Key(Head(todo))
      <4>1. ~Awaits(call, todo, k)
        BY <1>0, <2>1, <2>4, <3>2, AwaitsTail DEF Key
      <4>2. Exists(k) /\ spec[k] = LastOf(call, k)
        BY <1>d, <2>1, <4>1 DEF ObjectsSoFar
      <4> QED
        BY <1>b, <2>2, <3>2, <4>2 DEF MadeFrom
    <3> QED
      BY <3>1, <3>2
  <2>5. ObjectsSoFar'
    BY <1>0, <2>1, <2>4 DEF ObjectsSoFar
  <2>6. NamespacesSoFar'
    BY <1>0, <1>9, <1>b, <1>d, <2>1 DEF NamespacesSoFar
  <2> QED
    BY <1>9, <2>3, <2>5, <2>6 DEF AllDeployed
<1>10. CASE ApplyDone
  <2>1. /\ pc = "apply" /\ todo = <<>> /\ UNCHANGED <<cluster, spec, result>>
        /\ pc' \in {"get", "summary"}
    BY <1>10 DEF ApplyDone
  <2>2. \A k \in WantedBy(call) : Exists(k)' /\ spec'[k] = LastOf(call, k)
    BY <1>b, <1>d, <2>1, AwaitsNothing DEF ObjectsSoFar
  <2> QED
    BY <1>0, <2>1, <2>2 DEF NamespacesSoFar, ObjectsSoFar, AllDeployed
\* Nothing is applied any more.
<1>11. CASE GetObject \/ EndRound \/ Summary
  <2>1. /\ pc \in {"get", "summary"} /\ UNCHANGED <<cluster, spec>>
        /\ pc' \in {"get", "summary", "done"}
    BY <1>11 DEF GetObject, EndRound, Summary
  <2>2. \A k \in WantedBy(call') : Exists(k)' /\ spec'[k] = LastOf(call', k)
    BY <1>0, <1>d, <2>1 DEF AllDeployed, Exists
  <2> QED
    BY <2>1, <2>2 DEF NamespacesSoFar, ObjectsSoFar, AllDeployed
<1> QED
  <2>1. CASE CheckFlags \/ Authorize
    <3>1. /\ pc' \in {"authorize", "parse", "done"}
          /\ result' = "error" \/ (result' = result /\ pc # "done")
      BY <2>1 DEF CheckFlags, Authorize
    <3> QED
      BY <1>2, <3>1 DEF Waiting
  <2>2. CASE CheckNamespace
    <3>1. Missing(Key(Head(todo))) => pc' = "applyNamespace"
      BY <2>2 DEF CheckNamespace
    <3>2. ~Missing(Key(Head(todo))) =>
            /\ pc = "namespaces" /\ pc' = "namespaces" /\ todo # <<>>
            /\ todo' = Tail(todo) /\ result' = result /\ cluster' = cluster
      BY <2>2 DEF CheckNamespace
    <3>3. ~Missing(Key(Head(todo))) => cluster[Key(Head(todo))] # NoObject
      BY DEF Missing, Exists
    <3>4. CASE Missing(Key(Head(todo)))
      BY <1>5, <2>2, <3>1, <3>4
    <3>5. CASE ~Missing(Key(Head(todo)))
      BY <1>4, <3>2, <3>3, <3>5
    <3> QED
      BY <3>4, <3>5
  <2>3. CASE ApplyNamespace
    <3>1. /\ pc = "applyNamespace" /\ pc' = "namespaces" /\ todo' = Tail(todo)
          /\ result' = result /\ KubectlApply(Key(Head(todo)), Head(todo)) /\ todo # <<>>
      BY <2>3 DEF ApplyNamespace, Agenda
    <3>2. cluster'[Key(Head(todo))] # NoObject
      BY <3>1, HeadFacts, KubectlApplyFacts, <1>0 DEF MadeFrom
    <3> QED
      BY <1>4, <3>1, <3>2
  <2>4. CASE ApplyObject
    <3>1. pc' = "apply" \/ (pc' = "done" /\ result' = "error")
      BY <2>4 DEF ApplyObject
    <3> QED
      BY <1>2, <1>9, <2>4, <3>1
  <2>5. ~CommandFails /\ ~KubectlFails
    BY <1>g DEF CommandFails, KubectlFails
  <2>6. CASE UNCHANGED avars \/ Deadline \/ ClusterWorks
             \/ \E k \in Keys : Delete(k) \/ CreateNamespace(k)
    <3>1. UNCHANGED <<pc, todo, result>>
      BY <2>6 DEF avars, Deadline, ClusterWorks, Delete, CreateNamespace, deployerVars
    <3>2. OthersStep
      BY <2>6 DEF OthersStep, avars, Deadline
    <3> QED
      BY <1>1, <3>1, <3>2
  <2> QED
    BY <1>3, <1>6, <1>7, <1>8, <1>10, <1>11, <2>1, <2>2, <2>3, <2>4, <2>5, <2>6
       DEF ANext, Apply

-----------------------------------------------------------------------------
(* What was seen is still so.                                               *)

LEMMA StillSeenNext ==
  ASSUME Shape, Agenda, Waiting, StillSeen, [ANext]_avars
  PROVE  StillSeen'
<1>0. call' = call /\ call \in Calls /\ World /\ todo \in Seq(Range(call.config))
  BY WorldNext DEF Shape
<1> SUFFICES ASSUME ~disturbed' PROVE StillSeen'
  BY DEF StillSeen
<1>a. ~disturbed /\ \A k \in Keys : Exists(k) => Exists(k)'
  BY StaysDisturbed, WorldNext DEF Exists
<1>b. /\ \A k \in readied : k \in Keys /\ Exists(k) /\
           (Kind[k] \in {"Deployment", "StatefulSet"} => cluster[k].old = 0)
      /\ \A x \in DOMAIN deployed :
           deployed[x] # NoObject /\ deployed[x].obj.bound = "host" => HostName
  BY <1>a DEF StillSeen
<1>g. ~disturbed'
  OBVIOUS
\* Before the wait there is nothing to be seen.
<1>1. CASE pc \notin {"get", "summary", "done"} /\ UNCHANGED <<readied, deployed>>
  <2>1. readied' = {} /\ \A x \in DOMAIN deployed' : deployed'[x] = NoObject
    BY <1>1 DEF Waiting
  <2> QED
    BY <2>1 DEF StillSeen
\* What is there stays what it is: no rollout begins and no address goes.
<1>2. ASSUME \A k \in Keys : Exists(k) =>
               /\ cluster[k].old = 0 => cluster'[k].old = 0
               /\ cluster[k].bound = "host" => cluster'[k].bound = "host"
      PROVE  /\ HostName => HostName'
             /\ \A k \in readied : k \in Keys /\ Exists(k)' /\
                  (Kind[k] \in {"Deployment", "StatefulSet"} => cluster'[k].old = 0)
  <2>1. WantedBy(call) \subseteq Keys
    BY <1>0, WantedFacts
  <2>2. HostName => HostName'
    BY <1>0, <1>2, <1>a, <2>1 DEF HostName
  <2> QED
    BY <1>2, <1>a, <1>b, <2>2
<1>3. ASSUME UNCHANGED <<readied, deployed>>,
             \A k \in Keys : Exists(k) =>
               /\ cluster[k].old = 0 => cluster'[k].old = 0
               /\ cluster[k].bound = "host" => cluster'[k].bound = "host"
      PROVE  StillSeen'
  BY <1>2, <1>3, <1>b DEF StillSeen
<1>4. CASE UNCHANGED <<readied, deployed, cluster>>
  BY <1>3, <1>4
<1>5. CASE ClusterWorks
  BY <1>0, <1>3, <1>5, WorksFacts DEF Exists, deployerVars
<1>6. ASSUME NEW j \in Keys, CreateNamespace(j)
      PROVE  StillSeen'
  <2>1. /\ UNCHANGED <<readied, deployed>>
        /\ \A k \in Keys : Exists(k) => cluster'[k] = cluster[k]
    BY <1>0, <1>6, CreateFacts DEF MadeFrom, Exists, deployerVars
  <2> QED
    BY <1>3, <2>1
<1>7. CASE GetObject
  <2> DEFINE d == Head(todo)
             k == Key(d)
             y == <<d.kind, d.name>>
  <2>1. pc = "get" /\ todo # <<>> /\ UNCHANGED cluster
    BY <1>7 DEF GetObject
  <2>2. k \in Keys /\ k \in WantedBy(call)
    <3>1. d \in Range(call.config) /\ d.kind # "Namespace" /\ k \in Keys
      BY <2>1, HeadFacts DEF Agenda, NoNamespaces
    <3> QED
      BY <1>0, <3>1, WantedFacts
  <2>3. \/ UNCHANGED <<deployed, readied>>
        \/ /\ Exists(k)
           /\ deployed' = [deployed EXCEPT ![y] = [key |-> k, obj |-> cluster[k]]]
           /\ readied' \in {readied, readied \cup {k}}
           /\ readied' # readied => Ready(k)
    BY <1>7 DEF GetObject
  <2> HIDE DEF k, y, d
  <2>4. CASE UNCHANGED <<deployed, readied>>
    BY <1>4, <2>1, <2>4
  <2>5. CASE /\ Exists(k)
             /\ deployed' = [deployed EXCEPT ![y] = [key |-> k, obj |-> cluster[k]]]
             /\ readied' \in {readied, readied \cup {k}}
             /\ readied' # readied => Ready(k)
    <3>1. Ready(k) /\ Kind[k] \in {"Deployment", "StatefulSet"} => cluster[k].old = 0
      BY <1>0, <2>2, ReadyTells DEF World
    <3>2. \A j \in readied' : j \in Keys /\ Exists(j) /\
            (Kind[j] \in {"Deployment", "StatefulSet"} => cluster[j].old = 0)
      BY <1>b, <2>2, <2>5, <3>1
    <3>3. \A x \in DOMAIN deployed' : deployed'[x] # NoObject
            /\ deployed'[x].obj.bound = "host" => HostName
      <4> SUFFICES ASSUME NEW x \in DOMAIN deployed, deployed'[x] # NoObject,
                          deployed'[x].obj.bound = "host"
                   PROVE  HostName
        BY <2>5
      <4>1. CASE x = y
        BY <2>2, <2>5, <4>1 DEF HostName
      <4>2. CASE x # y
        BY <1>b, <2>5, <4>2
      <4> QED
        BY <4>1, <4>2
    <3>4. HostName => HostName'
      BY <1>0, <2>1 DEF HostName, Exists
    <3> QED
      BY <2>1, <3>2, <3>3, <3>4 DEF StillSeen, Exists
  <2> QED
    BY <2>3, <2>4, <2>5
<1> QED
  <2>1. CASE LooksOnly
    <3>1. GetObject \/ UNCHANGED <<readied, deployed, cluster>>
      BY <2>1 DEF LooksOnly, CheckFlags, Authorize, Parse, CheckNamespace,
         NamespacesDone, EnsureCRD, ApplyDone, EndRound, Summary, CommandFails
    <3> QED
      BY <1>4, <1>7, <3>1
  <2>2. CASE Applies
    <3>1. \/ pc \notin {"get", "summary", "done"} /\ UNCHANGED <<readied, deployed>>
          \/ disturbed'
      BY <2>2 DEF Applies, ApplyNamespace, InstallCRD, ApplyObject, KubectlFails
    <3> QED
      BY <1>1, <1>g, <3>1
  <2>3. CASE UNCHANGED avars \/ Deadline
    BY <1>4, <2>3 DEF avars, Deadline, deployerVars
  <2>4. ASSUME NEW j \in Keys, Delete(j) \/ CreateNamespace(j)
        PROVE  StillSeen'
    BY <1>6, <1>g, <2>4 DEF Delete
  <2> QED
    BY <1>5, <2>1, <2>2, <2>3, <2>4, StepIs

-----------------------------------------------------------------------------
(* The wait.                                                                *)

LEMMA AwaitsAppend ==
  ASSUME NEW c, NEW S, NEW s \in Seq(S), NEW e \in S, NEW k
  PROVE  Awaits(c, Append(s, e), k) <=> Awaits(c, s, k) \/ KeyIn(c.namespace, e) = k
<1>1. /\ \A i \in DOMAIN s : i \in DOMAIN Append(s, e) /\ Append(s, e)[i] = s[i]
      /\ Len(s) + 1 \in DOMAIN Append(s, e) /\ Append(s, e)[Len(s) + 1] = e
      /\ \A i \in DOMAIN Append(s, e) : i \in DOMAIN s \/ i = Len(s) + 1
  BY AppendFacts
<1>2. ASSUME Awaits(c, Append(s, e), k)
      PROVE  Awaits(c, s, k) \/ KeyIn(c.namespace, e) = k
  <2>1. PICK i \in DOMAIN Append(s, e) : KeyIn(c.namespace, Append(s, e)[i]) = k
    BY <1>2 DEF Awaits
  <2> QED
    BY <1>1, <2>1 DEF Awaits
<1>3. ASSUME Awaits(c, s, k) PROVE Awaits(c, Append(s, e), k)
  <2>1. PICK i \in DOMAIN s : KeyIn(c.namespace, s[i]) = k
    BY <1>3 DEF Awaits
  <2> QED
    BY <1>1, <2>1 DEF Awaits
<1>4. KeyIn(c.namespace, e) = k => Awaits(c, Append(s, e), k)
  BY <1>1 DEF Awaits
<1> QED
  BY <1>2, <1>3, <1>4

\* With one document for each object the others are not in the rest.
LEMMA DistinctTail ==
  ASSUME NEW c, NEW S, NEW s \in Seq(S), s # <<>>, Distinct(c, s)
  PROVE  Distinct(c, Tail(s)) /\ ~Awaits(c, Tail(s), KeyIn(c.namespace, Head(s)))
<1>1. /\ Head(s) = s[1] /\ 1 \in DOMAIN s
      /\ \A i \in DOMAIN Tail(s) :
           i \in Nat /\ i + 1 \in DOMAIN s /\ Tail(s)[i] = s[i + 1]
  BY TailFacts
<1>2. ASSUME NEW i \in DOMAIN Tail(s), NEW j \in DOMAIN Tail(s),
             KeyIn(c.namespace, Tail(s)[i]) = KeyIn(c.namespace, Tail(s)[j])
      PROVE  i = j
  <2>1. i + 1 = j + 1 /\ i \in Nat /\ j \in Nat
    BY <1>1, <1>2 DEF Distinct
  <2> QED
    BY <2>1
<1>3. ASSUME NEW i \in DOMAIN Tail(s),
             KeyIn(c.namespace, Tail(s)[i]) = KeyIn(c.namespace, Head(s))
      PROVE  FALSE
  <2>1. i + 1 = 1 /\ i \in Nat
    BY <1>1, <1>3 DEF Distinct
  <2>2. 0 \notin DOMAIN Tail(s)
    <3>1. Tail(s) \in Seq(S)
      BY TailFacts
    <3> QED
      BY <3>1, LenProperties
  <2> QED
    BY <2>1, <2>2
<1> QED
  BY <1>2, <1>3 DEF Distinct, Awaits

LEMMA DistinctAppend ==
  ASSUME NEW c, NEW S, NEW s \in Seq(S), NEW e \in S, Distinct(c, s),
         ~Awaits(c, s, KeyIn(c.namespace, e))
  PROVE  Distinct(c, Append(s, e))
<1>1. /\ \A i \in DOMAIN s : Append(s, e)[i] = s[i]
      /\ Append(s, e)[Len(s) + 1] = e
      /\ \A i \in DOMAIN Append(s, e) : i \in DOMAIN s \/ i = Len(s) + 1
  BY AppendFacts
<1> SUFFICES ASSUME NEW i \in DOMAIN Append(s, e), NEW j \in DOMAIN Append(s, e),
                    KeyIn(c.namespace, Append(s, e)[i])
                      = KeyIn(c.namespace, Append(s, e)[j])
             PROVE  i = j
  BY DEF Distinct
<1>2. CASE i \in DOMAIN s /\ j \in DOMAIN s
  BY <1>1, <1>2 DEF Distinct
<1>3. CASE i \in DOMAIN s /\ j = Len(s) + 1
  BY <1>1, <1>3 DEF Awaits
<1>4. CASE j \in DOMAIN s /\ i = Len(s) + 1
  BY <1>1, <1>4 DEF Awaits
<1> QED
  BY <1>1, <1>2, <1>3, <1>4

\* An object is ready, or it is looked at again.
LEMMA GetKeepsRound ==
  ASSUME Shape, Agenda, InRound, NEW d, d = Head(todo), todo # <<>>, pc = "get",
         NEW ready \in BOOLEAN, call' = call, todo' = Tail(todo),
         objs' = IF ready THEN objs ELSE Append(objs, d),
         readied' = IF ready THEN readied \cup {Key(d)} ELSE readied
  PROVE  InRound'
<1> DEFINE c == call
           h == KeyIn(call.namespace, d)
<1>0. /\ todo \in Seq(Range(c.config)) /\ objs \in Seq(Range(c.config))
      /\ d \in Range(c.config) /\ h \in Keys /\ h = Key(d)
  BY HeadFacts DEF Shape, Key
<1>1. \A k : Awaits(c, todo, k) <=> h = k \/ Awaits(c, todo', k)
  BY <1>0, AwaitsTail
<1>2. \A k : Awaits(c, objs', k) <=> Awaits(c, objs, k) \/ (~ready /\ h = k)
  BY <1>0, AwaitsAppend
<1>3. \A k : k \in readied' <=> k \in readied \/ (ready /\ h = k)
  BY <1>0
<1> HIDE DEF h
<1>4. \A k \in WantedBy(c) :
        k \in readied' \/ Awaits(c, todo', k) \/ Awaits(c, objs', k)
  BY <1>1, <1>2, <1>3 DEF InRound
<1>5. ASSUME Single(c)
      PROVE  /\ Distinct(c, todo') /\ Distinct(c, objs')
             /\ \A k \in Keys : Awaits(c, todo', k) => ~Awaits(c, objs', k)
             /\ \A k \in readied' : ~Awaits(c, todo', k) /\ ~Awaits(c, objs', k)
  <2>1. /\ Distinct(c, todo) /\ Distinct(c, objs)
        /\ \A k \in Keys : Awaits(c, todo, k) => ~Awaits(c, objs, k)
        /\ \A k \in readied : ~Awaits(c, todo, k) /\ ~Awaits(c, objs, k)
    BY <1>5 DEF InRound
  <2>2. Distinct(c, todo') /\ ~Awaits(c, todo', h)
    BY <1>0, <2>1, DistinctTail DEF h
  <2>3. Awaits(c, todo, h) /\ ~Awaits(c, objs, h)
    BY <1>0, <1>1, <2>1
  <2>4. Distinct(c, objs')
    <3>1. Distinct(c, Append(objs, d))
      BY <1>0, <2>1, <2>3, DistinctAppend DEF h
    <3> QED
      BY <2>1, <3>1
  <2>5. \A k \in Keys : Awaits(c, todo', k) => ~Awaits(c, objs', k)
    BY <1>1, <1>2, <2>1, <2>2
  <2>6. \A k \in readied' : ~Awaits(c, todo', k) /\ ~Awaits(c, objs', k)
    BY <1>1, <1>2, <1>3, <2>1, <2>2, <2>3
  <2> QED
    BY <2>2, <2>4, <2>5, <2>6
<1> QED
  BY <1>4, <1>5 DEF InRound

LEMMA WaitingNext ==
  ASSUME Shape, Agenda, Waiting, [ANext]_avars
  PROVE  Waiting'
<1>0. call' = call /\ call \in Calls
  BY WorldNext DEF Shape
<1> USE DEF Goto, Return
\* Others do nothing to it, but time passes.
<1>1. CASE UNCHANGED <<pc, todo, objs, deployed, timedOut, result, readied>>
           /\ (late => late')
  BY <1>0, <1>1 DEF Waiting, InRound
\* Before the wait.
<1>2. CASE /\ pc \notin {"get", "summary", "done"}
           /\ UNCHANGED <<deployed, timedOut, readied>>
           /\ \/ pc' \notin {"get", "summary", "done"} /\ result' = result
              \/ pc' = "done" /\ result' = "error"
  BY <1>0, <1>2 DEF Waiting
\* A failure.
<1>3. CASE pc' = "done" /\ result' = "error"
  BY <1>3 DEF Waiting
<1>4. CASE ApplyDone
  <2>1. /\ pc = "apply" /\ todo = <<>> /\ todo' = objs /\ objs' = <<>>
        /\ readied = {} /\ readied' = {} /\ ~timedOut /\ timedOut' = timedOut
        /\ result = "none" /\ Complete(call, objs)
    BY <1>4 DEF ApplyDone, Waiting, Agenda
  <2>2. CASE call.dryRun
    BY <1>0, <1>4, <2>1, <2>2 DEF ApplyDone, Waiting
  <2>3. CASE ~call.dryRun /\ objs = <<>>
    <3>1. WantedBy(call) = {}
      BY <2>1, <2>3, AwaitsNothing DEF Complete
    <3>2. pc' = "summary" /\ result' = "none"
      BY <1>4, <2>1, <2>3 DEF ApplyDone
    <3> QED
      BY <1>0, <2>1, <2>3, <3>1, <3>2 DEF Waiting
  <2>4. CASE ~call.dryRun /\ objs # <<>>
    <3>1. pc' = "get" /\ result' = "none"
      BY <1>4, <2>1, <2>4 DEF ApplyDone
    <3>2. InRound'
      <4>1. \A k : ~Awaits(call, objs', k)
        BY <2>1, AwaitsNothing
      <4>2. Distinct(call, objs')
        BY <2>1 DEF Distinct
      <4> QED
        BY <1>0, <2>1, <4>1, <4>2 DEF InRound, Complete
    <3> QED
      BY <1>0, <2>1, <2>4, <3>1, <3>2 DEF Waiting
  <2> QED
    BY <2>2, <2>3, <2>4
<1>5. CASE GetObject /\ pc' # "done"
  <2>1. /\ pc = "get" /\ todo # <<>> /\ pc' = "get" /\ result' = result
        /\ todo' = Tail(todo) /\ timedOut' = timedOut /\ InRound
        /\ ~call.dryRun /\ ~timedOut /\ result = "none"
    BY <1>5 DEF GetObject, Waiting
  <2>2. PICK ready \in {Ready(Key(Head(todo)))} :
          /\ objs' = IF ready THEN objs ELSE Append(objs, Head(todo))
          /\ readied' = IF ready THEN readied \cup {Key(Head(todo))} ELSE readied
    BY <1>5 DEF GetObject
  <2>3. ready \in BOOLEAN
    BY <2>2 DEF Ready
  <2>4. InRound'
    BY <1>0, <2>1, <2>2, <2>3, GetKeepsRound
  <2> QED
    BY <1>0, <2>1, <2>4 DEF Waiting
<1>6. CASE EndRound
  <2>1. /\ pc = "get" /\ todo = <<>> /\ InRound /\ ~call.dryRun /\ ~timedOut
        /\ result = "none" /\ UNCHANGED <<readied, late, result>>
    BY <1>6 DEF EndRound, Waiting
  <2>a. \A k : ~Awaits(call, todo, k)
    BY <2>1, AwaitsNothing
  <2>2. CASE objs = <<>>
    <3>1. pc' = "summary" /\ timedOut' = timedOut
      BY <1>6, <2>2 DEF EndRound
    <3>2. WantedBy(call) \subseteq readied
      BY <2>1, <2>2, <2>a, AwaitsNothing DEF InRound
    <3> QED
      BY <1>0, <2>1, <3>1, <3>2 DEF Waiting
  <2>3. CASE objs # <<>> /\ late
    <3>1. pc' = "summary" /\ timedOut'
      BY <1>6, <2>3 DEF EndRound, TimeIsUp
    <3>2. ASSUME Single(call) PROVE ~(WantedBy(call) \subseteq readied)
      <4>1. 1 \in DOMAIN objs /\ objs[1] \in Range(call.config)
        BY <2>3, TailFacts DEF Shape
      <4>2. Key(objs[1]) \in WantedBy(call)
        BY <1>0, <2>1, <4>1, WantedFacts DEF Agenda, NoNamespaces
      <4>3. Awaits(call, objs, Key(objs[1]))
        BY <4>1 DEF Awaits, Key
      <4> QED
        BY <2>1, <3>2, <4>2, <4>3 DEF InRound
    <3> QED
      BY <1>0, <2>1, <2>3, <3>1, <3>2 DEF Waiting
  <2>4. CASE objs # <<>> /\ ~late
    <3>1. pc' = "get" /\ timedOut' = timedOut /\ todo' = objs /\ objs' = <<>>
      BY <1>6, <2>1, <2>4 DEF EndRound, TimeIsUp
    <3>2. InRound'
      <4>1. \A k : ~Awaits(call, objs', k)
        BY <3>1, AwaitsNothing
      <4>2. Distinct(call, objs')
        BY <3>1 DEF Distinct
      <4> QED
        BY <1>0, <2>1, <2>a, <3>1, <4>1, <4>2 DEF InRound
    <3> QED
      BY <1>0, <2>1, <3>1, <3>2 DEF Waiting
  <2> QED
    BY <2>2, <2>3, <2>4
<1>7. CASE Summary
  <2>1. /\ pc = "summary" /\ pc' = "done" /\ UNCHANGED <<readied, late, timedOut>>
        /\ result' \in {"error", IF timedOut THEN "timeout" ELSE "ok"}
    BY <1>7 DEF Summary, Verdict
  <2> QED
    BY <1>0, <2>1 DEF Waiting
<1> QED
  <2>1. CASE CheckFlags \/ Authorize \/ Parse \/ CommandFails
    BY <1>2, <2>1 DEF CheckFlags, Authorize, Parse, CommandFails, Waiting
  <2>2. CASE CheckNamespace \/ ApplyNamespace \/ NamespacesDone
    BY <1>2, <2>2 DEF CheckNamespace, ApplyNamespace, NamespacesDone
  <2>3. CASE EnsureCRD \/ InstallCRD \/ ApplyObject
    BY <1>2, <2>3 DEF EnsureCRD, InstallCRD, ApplyObject
  <2>4. CASE KubectlFails
    BY <1>3, <2>4 DEF KubectlFails
  <2>5. CASE GetObject
    BY <1>3, <1>5, <2>5 DEF GetObject
  <2>6. CASE UNCHANGED avars \/ Deadline \/ ClusterWorks
             \/ \E k \in Keys : Delete(k) \/ CreateNamespace(k)
    <3>1. UNCHANGED <<pc, todo, objs, deployed, timedOut, result, readied>>
      BY <2>6 DEF avars, Deadline, ClusterWorks, Delete, CreateNamespace, deployerVars
    <3>2. late' = late \/ late' = TRUE
      BY <2>6 DEF avars, Deadline, ClusterWorks, Delete, CreateNamespace
    <3> QED
      BY <1>1, <3>1, <3>2
  <2> QED
    BY <1>4, <1>6, <1>7, <2>1, <2>2, <2>3, <2>4, <2>5, <2>6 DEF ANext, Apply

-----------------------------------------------------------------------------
(* The theorems.                                                            *)

Inv == Shape /\ Agenda /\ StillMissing /\ Applied /\ StillSeen /\ Waiting

LEMMA InvInit == AInit => Inv
<1> SUFFICES ASSUME AInit PROVE Inv
  OBVIOUS
<1>1. Shape /\ Agenda /\ StillMissing
  BY InitHolds
<1>2. Applied
  BY DEF AInit, Applied, NamespacesSoFar, ObjectsSoFar, CRDIsThere, AllDeployed
<1>3. StillSeen /\ Waiting
  BY DEF AInit, StillSeen, Waiting
<1> QED
  BY <1>1, <1>2, <1>3 DEF Inv

LEMMA InvNext == Inv /\ [ANext]_avars => Inv'
<1> SUFFICES ASSUME Inv, [ANext]_avars PROVE Inv'
  OBVIOUS
<1>1. Shape' /\ Agenda' /\ StillMissing'
  BY ShapeNext, AgendaNext, StillMissingNext DEF Inv
<1>2. Applied' /\ StillSeen' /\ Waiting'
  BY AppliedNext, StillSeenNext, WaitingNext DEF Inv
<1> QED
  BY <1>1, <1>2 DEF Inv

LEMMA InvAlways == ASpec => []Inv
  BY InvInit, InvNext, PTL DEF ASpec

\* Apply returns without an error only when every object is the one of its last
\* document, no pod of another template left (SuccessMeansDeployed): what it
\* saw, one object after the other, is still so when it has seen the last.
THEOREM ApplySuccessMeansDeployed == ASpec => []SuccessMeansDeployed
<1>1. Inv => SuccessMeansDeployed
  BY SameNames DEF Inv, Waiting, StillSeen, Applied, AllDeployed, SuccessMeansDeployed
<1> QED
  BY <1>1, InvAlways, PTL

\* Success and timeout tell what Apply saw (ResultTellsReadiness).
THEOREM ApplyResultTellsReadiness == ASpec => []ResultTellsReadiness
<1>1. Inv => ResultTellsReadiness
  BY SameNames DEF Inv, Waiting, ResultTellsReadiness
<1> QED
  BY <1>1, InvAlways, PTL

-----------------------------------------------------------------------------
(* Errors.                                                                  *)

LEMMA DoneIsDone ==
  ASSUME pc = "done", [ANext]_avars
  PROVE  UNCHANGED <<call, cluster, spec, disturbed, result>>
BY DEF ANext, Apply, avars, deployerVars, CheckFlags, Authorize, Parse,
       CheckNamespace, ApplyNamespace, NamespacesDone, EnsureCRD, InstallCRD,
       ApplyObject, ApplyDone, GetObject, EndRound, Summary, CommandFails,
       KubectlFails, Deadline, ClusterWorks, Delete, CreateNamespace

\* The steps that return an error where nothing was disturbed.
LEMMA ErrorIs ==
  ASSUME pc # "done", result # "error", [ANext]_avars, result' = "error", ~disturbed'
  PROVE  /\ UNCHANGED <<call, cluster, spec>>
         /\ \/ ~FlagsOK
            \/ call.config = <<>>
            \/ pc = "apply" /\ todo # <<>> /\ ~NeedsCRD(Head(todo)) /\ ~Accepts(Head(todo))
            \/ pc = "get" /\ todo # <<>> /\ ~Exists(Key(Head(todo)))
            \/ pc = "summary" /\ ~SummaryOK
<1> USE DEF Goto, Return
<1>1. CASE CheckFlags \/ Parse
  BY <1>1 DEF CheckFlags, Parse
<1>2. CASE ApplyObject
  BY <1>2 DEF ApplyObject
<1>3. CASE GetObject
  BY <1>3 DEF GetObject
<1>4. CASE Summary
  BY <1>4 DEF Summary, Verdict
<1> QED
  BY <1>1, <1>2, <1>3, <1>4 DEF ANext, Apply, avars, deployerVars, Authorize,
     CheckNamespace, ApplyNamespace, NamespacesDone, EnsureCRD, InstallCRD, ApplyDone,
     EndRound, CommandFails, KubectlFails, Deadline, ClusterWorks, Delete, CreateNamespace

\* In a call that is valid the document that is visited is taken: the namespaces
\* of the files were applied before, and the CRD was looked for.
LEMMA ValidIsTaken ==
  ASSUME Inv, Valid, ~call.dryRun, ~disturbed, pc = "apply", todo # <<>>,
         ~NeedsCRD(Head(todo))
  PROVE  Accepts(Head(todo))
<1> DEFINE d == Head(todo)
           namespace == <<"Namespace", Key(d)[3], "">>
<1>1. d \in Range(call.config) /\ call \in Calls
  BY HeadFacts DEF Inv, Shape
<1>2. NamespacesSoFar /\ CRDIsThere
  BY DEF Inv, Applied
<1>3. /\ \/ Key(d)[3] \in {"", "default"}
         \/ Exists(namespace)
         \/ namespace \in {Key(e) : e \in Range(call.config)}
      /\ call.namespace # "" => d.ns \in {"", call.namespace}
  BY <1>1 DEF Valid
<1>4. ASSUME NEW e \in Range(call.config), namespace = Key(e)
      PROVE  Exists(namespace)
  <2>1. e.kind = "Namespace"
    BY <1>4 DEF Key, KeyIn
  <2>2. Key(e) \in NamespacesOf(call)
    BY <1>1, <2>1, WantedFacts
  <2> QED
    BY <1>2, <1>4, <2>2 DEF NamespacesSoFar
<1>5. d.kind = "Application" => Exists(CRD)
  BY <1>2 DEF NeedsCRD, CRDIsThere
<1>6. Key(d)[3] \notin {"", "default"} => Exists(namespace)
  BY <1>3, <1>4
<1> QED
  BY <1>3, <1>5, <1>6 DEF Accepts

LEMMA NoNeedlessErrorNext ==
  ASSUME Inv, NoNeedlessError, [ANext]_avars
  PROVE  NoNeedlessError'
<1>1. CASE pc = "done"
  BY <1>1, DoneIsDone DEF NoNeedlessError, Valid, Exists, FlagsOK, Key, Wanted
<1>2. CASE pc # "done"
  <2>1. result # "error"
    BY <1>2 DEF Inv, Waiting
  <2> SUFFICES ASSUME result' = "error", ~call.dryRun, ~disturbed', Valid
               PROVE  \E k \in Wanted : Exists(k) /\ cluster[k].bound = "host"
    BY <1>2, <2>1, ErrorIs DEF NoNeedlessError, Valid, Exists, FlagsOK, Key, Wanted
  <2>2. ~disturbed
    BY StaysDisturbed
  <2>3. CASE ~FlagsOK \/ call.config = <<>>
    BY <2>3 DEF Valid
  <2>4. CASE pc = "apply" /\ todo # <<>> /\ ~NeedsCRD(Head(todo)) /\ ~Accepts(Head(todo))
    BY <2>2, <2>4, ValidIsTaken
  <2>5. CASE pc = "get" /\ todo # <<>> /\ ~Exists(Key(Head(todo)))
    <3>1. Key(Head(todo)) \in WantedBy(call)
      BY <2>5, HeadFacts, WantedFacts DEF Inv, Shape, Agenda, NoNamespaces
    <3> QED
      BY <2>2, <2>5, <3>1 DEF Inv, Applied, AllDeployed
  <2>6. CASE pc = "summary" /\ ~SummaryOK
    <3>1. HostName
      BY <2>2, <2>6 DEF Inv, StillSeen, SummaryOK
    <3> QED
      BY <3>1, SameNames DEF HostName
  <2> QED
    BY <1>2, <2>1, <2>3, <2>4, <2>5, <2>6, ErrorIs
<1> QED
  BY <1>1, <1>2

\* An error has a reason (NoNeedlessError): in a call that is valid, with nothing
\* disturbed, all that is needed is there when it is needed.
THEOREM ApplyMakesNoNeedlessError == ASpec => []NoNeedlessError
<1>1. AInit => NoNeedlessError
  BY DEF AInit, NoNeedlessError
<1>2. Inv /\ NoNeedlessError /\ [ANext]_avars => NoNeedlessError'
  BY NoNeedlessErrorNext
<1> QED
  BY <1>1, <1>2, InvAlways, PTL DEF ASpec

-----------------------------------------------------------------------------
(* The cluster that is named.                                               *)

\* After the flags were checked a named cluster comes with gcloud, and after
\* AuthorizeAccess its credentials are kubectl's.
ContextIsGiven ==
  /\ pc = "authorize" /\ call.cluster => call.gcloud
  /\ pc \notin {"flags", "authorize", "done"} /\ call.cluster => context = "given"

ContextInv == ContextIsGiven /\ NamedClusterIsUsed

\* The flags change nothing but where Apply stands.
LEMMA FlagsKeepContext ==
  ASSUME ContextInv, CheckFlags
  PROVE  ContextInv'
BY DEF ContextInv, ContextIsGiven, NamedClusterIsUsed, CheckFlags, FlagsOK,
       Goto, Return

LEMMA AuthorizeKeepsContext ==
  ASSUME ContextInv, Authorize
  PROVE  ContextInv'
BY DEF ContextInv, ContextIsGiven, NamedClusterIsUsed, Authorize, Goto

\* From there on kubectl may be run, always in the same context, and Apply
\* does not go back.
LEMMA LaterStepsKeepContext ==
  ASSUME ContextInv, UNCHANGED <<call, context>>,
         used' \in {used, used \cup {context}},
         used' # used => pc \notin {"flags", "authorize", "done"},
         \/ pc' \in {"done", pc}
         \/ pc \notin {"flags", "authorize", "done"} /\ pc' # "authorize"
  PROVE  ContextInv'
BY DEF ContextInv, ContextIsGiven, NamedClusterIsUsed

LEMMA ContextInvNext ==
  ASSUME ContextInv, [ANext]_avars
  PROVE  ContextInv'
<1> USE DEF Kubectl, KubectlApply, Goto, Return
<1>1. CASE UNCHANGED avars
  BY <1>1, LaterStepsKeepContext DEF avars, deployerVars
<1>2. CASE CheckFlags \/ Authorize
  BY <1>2, FlagsKeepContext, AuthorizeKeepsContext
<1>3. CASE Parse
  BY <1>3, LaterStepsKeepContext DEF Parse
<1>4. CASE CheckNamespace
  BY <1>4, LaterStepsKeepContext DEF CheckNamespace
<1>5. CASE ApplyNamespace \/ NamespacesDone
  BY <1>5, LaterStepsKeepContext DEF ApplyNamespace, NamespacesDone
<1>6. CASE EnsureCRD \/ InstallCRD
  BY <1>6, LaterStepsKeepContext DEF EnsureCRD, InstallCRD
<1>7. CASE ApplyObject
  BY <1>7, LaterStepsKeepContext DEF ApplyObject
<1>8. CASE ApplyDone
  BY <1>8, LaterStepsKeepContext DEF ApplyDone
<1>9. CASE GetObject
  BY <1>9, LaterStepsKeepContext DEF GetObject
<1>10. CASE EndRound \/ Summary
  BY <1>10, LaterStepsKeepContext DEF EndRound, Summary
<1>11. CASE CommandFails
  BY <1>11, LaterStepsKeepContext DEF CommandFails
<1>12. CASE KubectlFails
  BY <1>12, LaterStepsKeepContext DEF KubectlFails
<1>13. CASE Deadline \/ ClusterWorks
  BY <1>13, LaterStepsKeepContext DEF Deadline, ClusterWorks, deployerVars
<1>14. ASSUME NEW k \in Keys, Delete(k) \/ CreateNamespace(k)
       PROVE  ContextInv'
  BY <1>14, LaterStepsKeepContext DEF Delete, CreateNamespace, deployerVars
<1> QED
  BY <1>1, <1>2, <1>3, <1>4, <1>5, <1>6, <1>7, <1>8, <1>9, <1>10, <1>11,
     <1>12, <1>13, <1>14 DEF ANext, Apply

\* kubectl is not run with the configuration it was found with when a cluster
\* is named on the command line (NamedClusterIsUsed).
THEOREM ApplyNamedClusterIsUsed == ASpec => []NamedClusterIsUsed
<1>1. AInit => ContextInv
  BY DEF AInit, ContextInv, ContextIsGiven, NamedClusterIsUsed
<1>2. ContextInv /\ [ANext]_avars => ContextInv'
  BY ContextInvNext
<1>3. ContextInv => NamedClusterIsUsed
  BY DEF ContextInv
<1> QED
  BY <1>1, <1>2, <1>3, PTL DEF ASpec

-----------------------------------------------------------------------------
(* A dry run.                                                               *)

LEMMA DryRunStep ==
  ASSUME Apply \/ CommandFails \/ KubectlFails, call.dryRun
  PROVE  UNCHANGED <<cluster, spec>>
<1> USE DEF KubectlApply
<1>1. CASE CheckFlags \/ Authorize \/ Parse \/ CommandFails
  BY <1>1 DEF CheckFlags, Authorize, Parse, CommandFails
<1>2. CASE CheckNamespace \/ ApplyNamespace \/ NamespacesDone
  BY <1>2 DEF CheckNamespace, ApplyNamespace, NamespacesDone
<1>3. CASE EnsureCRD \/ InstallCRD
  BY <1>3 DEF EnsureCRD, InstallCRD
<1>4. CASE ApplyObject \/ ApplyDone
  BY <1>4 DEF ApplyObject, ApplyDone
<1>5. CASE GetObject \/ EndRound \/ Summary
  BY <1>5 DEF GetObject, EndRound, Summary
<1>6. CASE KubectlFails
  BY <1>6 DEF KubectlFails
<1> QED
  BY <1>1, <1>2, <1>3, <1>4, <1>5, <1>6 DEF Apply

\* No step of Apply changes the cluster in a dry run, one that fails included
\* (DryRunChangesNothing): what changes it are its controllers and other users.
THEOREM ApplyDryRunChangesNothing == ASpec => DryRunChangesNothing
<1>1. [ANext]_avars =>
        [call.dryRun /\ deployerVars' # deployerVars => UNCHANGED <<cluster, spec>>]_avars
  <2> SUFFICES ASSUME ANext, call.dryRun, deployerVars' # deployerVars
               PROVE  UNCHANGED <<cluster, spec>>
    OBVIOUS
  <2>1. ~Deadline /\ ~ClusterWorks /\ \A k \in Keys : ~Delete(k) /\ ~CreateNamespace(k)
    BY DEF Deadline, ClusterWorks, Delete, CreateNamespace
  <2> QED
    BY <2>1, DryRunStep DEF ANext
<1> QED
  BY <1>1, PTL DEF ASpec, DryRunChangesNothing
=============================================================================
