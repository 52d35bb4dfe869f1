--------------------------- MODULE MetadataProofs ---------------------------
(***************************************************************************)
(* Proofs about Metadata, for every alphabet, every set of names and every   *)
(* number of objects.                                                        *)
(***************************************************************************)
EXTENDS Metadata, WellFoundedInduction, TLAPS

-----------------------------------------------------------------------------
(* Lemmas on numbers and sequences                                           *)

(* Every non-empty set of natural numbers has a minimum: what Min's CHOOSE    *)
(* needs.                                                                     *)
LEMMA MinOfNats ==
    ASSUME NEW S \in SUBSET Nat, S # {}
    PROVE  Min(S) \in S /\ \A y \in S : Min(S) <= y
<1>1. PICK m \in S : \A k \in S : <<k, m>> \notin OpToRel(<, Nat)
  BY WFMin, NatLessThanWellFounded, Zenon
<1>2. \A k \in S : ~(k < m)
  BY <1>1, Zenon DEF OpToRel
<1>3. \A k \in S : m <= k
  BY <1>2
<1>. QED
  BY <1>3 DEF Min

(* Every bounded non-empty set of natural numbers has a maximum.              *)
LEMMA MaxOfNats ==
    ASSUME NEW n \in Nat, NEW S \in SUBSET (1..n), S # {}
    PROVE  \E x \in S : \A y \in S : x >= y
<1> DEFINE mirrored == {n - x : x \in S}
<1>1. mirrored \in SUBSET Nat /\ mirrored # {}
  <2>1. \A x \in S : n - x \in Nat
    OBVIOUS
  <2>. QED
    BY <2>1, Zenon
<1>2. PICK m \in mirrored : \A y \in mirrored : m <= y
  BY <1>1, MinOfNats
<1>3. PICK x \in S : m = n - x
  OBVIOUS
<1>4. \A y \in S : n - x <= n - y
  BY <1>2, <1>3
<1>. QED
  BY <1>3, <1>4

(* SubSeq(s, 1, n), position by position.                                     *)
LEMMA InitialSubSeq ==
    ASSUME NEW C, NEW s \in Seq(C), NEW n \in 0..Len(s)
    PROVE  /\ SubSeq(s, 1, n) \in Seq(C)
           /\ Len(SubSeq(s, 1, n)) = n
           /\ \A i \in 1..n : SubSeq(s, 1, n)[i] = s[i]
  OBVIOUS

(* A prefix, position by position.                                            *)
LEMMA PrefixByPosition ==
    ASSUME NEW C, NEW s \in Seq(C), NEW t \in Seq(C)
    PROVE  IsPrefix(s, t) <=>
             Len(s) <= Len(t) /\ \A i \in 1..Len(s) : s[i] = t[i]
<1>1. ASSUME IsPrefix(s, t)
      PROVE  Len(s) <= Len(t) /\ \A i \in 1..Len(s) : s[i] = t[i]
  <2>1. Len(s) <= Len(t) /\ SubSeq(s, 1, Len(s)) = SubSeq(t, 1, Len(s))
    BY <1>1 DEF IsPrefix
  <2>2. \A i \in 1..Len(s) : SubSeq(s, 1, Len(s))[i] = s[i] /\ SubSeq(t, 1, Len(s))[i] = t[i]
    BY <2>1
  <2>. QED
    BY <2>1, <2>2
<1>2. ASSUME Len(s) <= Len(t), \A i \in 1..Len(s) : s[i] = t[i]
      PROVE  IsPrefix(s, t)
  <2>1. SubSeq(s, 1, Len(s)) = SubSeq(t, 1, Len(s))
    BY <1>2
  <2>. QED
    BY <1>2, <2>1 DEF IsPrefix
<1>. QED
  BY <1>1, <1>2

(* What the Go function commonPrefix computes: the longest sequence that is a *)
(* prefix of both names.                                                      *)
LEMMA CommonPrefixIsLongest ==
    ASSUME NEW C, NEW one \in Seq(C), NEW two \in Seq(C)
    PROVE  /\ CommonPrefix(one, two) \in Seq(C)
           /\ IsPrefix(CommonPrefix(one, two), one)
           /\ IsPrefix(CommonPrefix(one, two), two)
           /\ \A k \in 1..Len(one) :
                (k <= Len(two) /\ \A i \in 1..k : one[i] = two[i])
                    => k <= Len(CommonPrefix(one, two))
<1> DEFINE shorter    == IF Len(one) > Len(two) THEN Len(two) ELSE Len(one)
           mismatches == {i \in 1..shorter : one[i] # two[i]}
           cut        == IF mismatches = {} THEN shorter ELSE Min(mismatches) - 1
<1>1. CommonPrefix(one, two) = SubSeq(one, 1, cut)
  BY DEF CommonPrefix
<1>2. shorter \in Nat /\ shorter <= Len(one) /\ shorter <= Len(two)
  OBVIOUS
<1>3. /\ cut \in 0..shorter
      /\ \A i \in 1..cut : one[i] = two[i]
      /\ cut < shorter => one[cut + 1] # two[cut + 1]
  <2>1. CASE mismatches = {}
    BY <1>2, <2>1
  <2>2. CASE mismatches # {}
    <3>1. mismatches \in SUBSET Nat
      BY <1>2
    <3>2. PICK m \in mismatches : m = Min(mismatches) /\ \A y \in mismatches : m <= y
      BY <2>2, <3>1, MinOfNats
    <3>3. m \in 1..shorter /\ one[m] # two[m]
      OBVIOUS
    <3>4. \A i \in 1..shorter : i < m => one[i] = two[i]
      BY <1>2, <3>2, <3>3
    <3>5. cut = m - 1
      BY <2>2, <3>2
    <3> HIDE DEF mismatches, cut, shorter
    <3>. QED
      BY <1>2, <3>3, <3>4, <3>5
  <2>. QED
    BY <2>1, <2>2
<1> HIDE DEF cut, shorter
<1>4. /\ SubSeq(one, 1, cut) \in Seq(C)
      /\ Len(SubSeq(one, 1, cut)) = cut
      /\ \A i \in 1..cut : SubSeq(one, 1, cut)[i] = one[i]
  BY <1>2, <1>3, InitialSubSeq
<1>5. /\ IsPrefix(SubSeq(one, 1, cut), one)
      /\ IsPrefix(SubSeq(one, 1, cut), two)
  <2> DEFINE p == SubSeq(one, 1, cut)
  <2>1. /\ p \in Seq(C) /\ Len(p) <= Len(one) /\ Len(p) <= Len(two)
        /\ \A i \in 1..Len(p) : p[i] = one[i] /\ p[i] = two[i]
    BY <1>2, <1>3, <1>4
  <2> HIDE DEF p
  <2>2. IsPrefix(p, one) /\ IsPrefix(p, two)
    BY <2>1, PrefixByPosition
  <2>. QED
    BY <2>2 DEF p
<1>6. ASSUME NEW k \in 1..Len(one), k <= Len(two), \A i \in 1..k : one[i] = two[i]
      PROVE  k <= cut
  <2>1. k <= shorter
    BY <1>6 DEF shorter
  <2>. QED
    BY <1>2, <1>3, <1>6, <2>1
<1>. QED
  BY <1>1, <1>4, <1>5, <1>6

(* TrimName never returns the empty name for a name that is not empty.        *)
LEMMA TrimNameNotEmpty ==
    ASSUME NEW n, n # NoName
    PROVE  TrimName(n) # NoName
  BY DEF TrimName

-----------------------------------------------------------------------------
(* Type correctness                                                           *)

LEMMA DetectCommonPrefixType ==
    ASSUME NEW obj \in Objects, NEW p \in Seq(Char)
    PROVE  DetectCommonPrefix(obj, p) \in Seq(Char)
<1>1. obj.name \in Seq(Char)
  BY MetadataAssumption DEF Objects
<1>. QED
  BY <1>1, CommonPrefixIsLongest DEF DetectCommonPrefix

LEMMA LoadKeepsType == \A obj \in Objects : TypeOK /\ Load(obj) => TypeOK'
<1>. SUFFICES ASSUME NEW obj \in Objects, TypeOK, Load(obj)
              PROVE  TypeOK'
  OBVIOUS
<1>1. obj.name \in Names /\ ExtractAppNamespace(obj) \in Names \union Namespaces
  BY DEF Objects, ExtractAppNamespace
<1>2. commonPrefix' \in Seq(Char)
  BY DetectCommonPrefixType DEF TypeOK, Load
<1>3. names' \subseteq Names /\ namespace' \in Names \union Namespaces
  BY <1>1 DEF TypeOK, Load
<1>4. loaded' \in Seq(Objects)
  BY DEF TypeOK, Load
<1>. QED
  BY <1>2, <1>3, <1>4 DEF TypeOK

LEMMA TypeStep ==
    ASSUME TypeOK, [Next]_metadataVars
    PROVE  TypeOK'
<1>1. ASSUME NEW obj \in Objects, Load(obj)
      PROVE  TypeOK'
  BY <1>1, LoadKeepsType
<1>2. CASE UNCHANGED metadataVars
  BY <1>2 DEF TypeOK, metadataVars
<1>. QED
  BY <1>1, <1>2 DEF Next

(* The state of the metadata service is well formed after any sequence of     *)
(* loads.                                                                     *)
THEOREM TypeCorrect == Spec => []TypeOK
<1>1. Init => TypeOK
  BY MetadataAssumption DEF Init, TypeOK, NoName
<1>. QED
  BY <1>1, TypeStep, PTL DEF Spec

-----------------------------------------------------------------------------
(* The common prefix                                                          *)

LEMMA LoadedAfterLoad ==
    ASSUME TypeOK, NEW obj \in Objects, Load(obj)
    PROVE  /\ LoadedObjects' = LoadedObjects \union {obj}
           /\ AppNames' = IF obj.kind = "other" THEN AppNames \union {obj.name} ELSE AppNames
           /\ AppNames \subseteq Names
<1>1. /\ loaded \in Seq(Objects) /\ loaded' = Append(loaded, obj)
      /\ Len(loaded') = Len(loaded) + 1
      /\ loaded'[Len(loaded) + 1] = obj
      /\ \A i \in 1..Len(loaded) : loaded'[i] = loaded[i]
  BY DEF Load, TypeOK
<1>2. LoadedObjects' = LoadedObjects \union {obj}
  BY <1>1 DEF LoadedObjects
<1>3. LoadedObjects \subseteq Objects
  BY <1>1 DEF LoadedObjects
<1>. QED
  BY <1>2, <1>3 DEF AppNames, Objects

(* What holds of the prefix in every reachable state and is preserved by a    *)
(* load: before the first application object there is no prefix to cut, so    *)
(* the first one's whole name becomes the prefix.                             *)
PrefixInv ==
    /\ TypeOK
    /\ AppNames = {} => commonPrefix = NoName
    /\ PrefixExactWhenShared

(* One more name: the longest common prefix of the names so far and the new   *)
(* name is the longest common prefix of all of them.                          *)
LEMMA LongestPrefixExtends ==
    ASSUME NEW C, NEW S \in SUBSET Seq(C), S # {}, NEW p \in Seq(C), NEW n \in Seq(C),
           IsLongestCommonPrefix(p, S)
    PROVE  IsLongestCommonPrefix(CommonPrefix(n, p), S \union {n})
<1> DEFINE q == CommonPrefix(n, p)
<1>1. /\ q \in Seq(C) /\ IsPrefix(q, n) /\ IsPrefix(q, p)
      /\ \A k \in 1..Len(n) :
            (k <= Len(p) /\ \A i \in 1..k : n[i] = p[i]) => k <= Len(q)
  BY CommonPrefixIsLongest
<1> HIDE DEF q
<1>2. \A m \in S : IsPrefix(p, m)
  BY DEF IsLongestCommonPrefix
<1>3. ASSUME NEW m \in S \union {n}
      PROVE  IsPrefix(q, m)
  <2>1. CASE m = n
    BY <1>1, <2>1
  <2>2. CASE m \in S
    <3>1. m \in Seq(C) /\ IsPrefix(p, m)
      BY <1>2, <2>2
    <3>. QED
      BY <1>1, <3>1, PrefixByPosition
  <2>. QED
    BY <2>1, <2>2
<1>4. ASSUME NEW m \in S \union {n}, NEW k \in 1..Len(m),
             \A l \in S \union {n} : IsPrefix(SubSeq(m, 1, k), l)
      PROVE  k <= Len(q)
  <2> DEFINE c == SubSeq(m, 1, k)
  <2>1. c \in Seq(C) /\ Len(c) = k /\ \A i \in 1..k : c[i] = m[i]
    BY InitialSubSeq
  <2>2. PICK l \in S : TRUE
    OBVIOUS
  <2>3. IsPrefix(c, l) /\ IsPrefix(c, n)
    BY <1>4
  <2>4. \A o \in S : IsPrefix(c, o)
    BY <1>4
  <2>5. l \in Seq(C) /\ 1 <= k /\ k \in Nat
    BY <1>4
  <2> HIDE DEF c
  <2>6. /\ k <= Len(l) /\ \A i \in 1..k : c[i] = l[i]
        /\ k <= Len(n) /\ \A i \in 1..k : c[i] = n[i]
    <3>1. Len(c) <= Len(l) /\ \A i \in 1..Len(c) : c[i] = l[i]
      BY <2>1, <2>3, <2>5, PrefixByPosition
    <3>2. Len(c) <= Len(n) /\ \A i \in 1..Len(c) : c[i] = n[i]
      BY <2>1, <2>3, PrefixByPosition
    <3>. QED
      BY <2>1, <3>1, <3>2
  <2>7. c = SubSeq(l, 1, k)
    BY <2>1, <2>5, <2>6
  <2>8. k <= Len(p)
    <3>1. k \in 1..Len(l) /\ \A o \in S : IsPrefix(SubSeq(l, 1, k), o)
      BY <2>4, <2>5, <2>6, <2>7
    <3>. QED
      BY <3>1 DEF IsLongestCommonPrefix
  <2>9. \A i \in 1..Len(p) : p[i] = l[i]
    BY <1>2, <2>5, PrefixByPosition
  <2>. QED
    BY <1>1, <2>5, <2>6, <2>8, <2>9
<1>. QED
  BY <1>3, <1>4 DEF IsLongestCommonPrefix, q

(* A single name is its own longest common prefix.                            *)
LEMMA LongestPrefixOfOne ==
    ASSUME NEW C, NEW n \in Seq(C)
    PROVE  IsLongestCommonPrefix(n, {n})
  BY PrefixByPosition DEF IsLongestCommonPrefix

(* Names that begin with the same character have a common prefix.             *)
LEMMA SharedPrefixNotEmpty ==
    ASSUME NEW S \in SUBSET Seq(Char), S # {}, ShareFirstChar(S), NEW p \in Seq(Char),
           IsLongestCommonPrefix(p, S)
    PROVE  p # NoName
<1>1. PICK c \in Char : \A n \in S : n # NoName /\ n[1] = c
  BY DEF ShareFirstChar
<1>2. PICK n \in S : TRUE
  OBVIOUS
<1>3. \A m \in S : m \in Seq(Char) /\ Len(m) >= 1
  BY <1>1 DEF NoName
<1>4. \A m \in S : IsPrefix(SubSeq(n, 1, 1), m)
  <2>1. SubSeq(n, 1, 1) \in Seq(Char) /\ Len(SubSeq(n, 1, 1)) = 1 /\ SubSeq(n, 1, 1)[1] = n[1]
    BY <1>3, InitialSubSeq
  <2> DEFINE first == SubSeq(n, 1, 1)
  <2>2. first \in Seq(Char) /\ Len(first) = 1 /\ \A m \in S : first[1] = m[1]
    BY <1>1, <2>1
  <2> HIDE DEF first
  <2>3. \A m \in S : Len(first) <= Len(m) /\ \A i \in 1..Len(first) : first[i] = m[i]
    BY <1>3, <2>2
  <2>4. \A m \in S : IsPrefix(first, m)
    BY <1>3, <2>2, <2>3, PrefixByPosition
  <2>. QED
    BY <2>4 DEF first
<1>5. 1 <= Len(p)
  BY <1>3, <1>4 DEF IsLongestCommonPrefix
<1>. QED
  BY <1>5 DEF NoName

LEMMA PrefixStep ==
    ASSUME PrefixInv, [Next]_metadataVars
    PROVE  PrefixInv'
<1>1. ASSUME NEW obj \in Objects, Load(obj)
      PROVE  PrefixInv'
  <2>1. TypeOK /\ TypeOK'
    BY <1>1, TypeStep DEF PrefixInv, Next
  <2>2. /\ AppNames' = IF obj.kind = "other" THEN AppNames \union {obj.name} ELSE AppNames
        /\ AppNames \subseteq Names
    BY <1>1, <2>1, LoadedAfterLoad
  <2>3. commonPrefix' = DetectCommonPrefix(obj, commonPrefix)
    BY <1>1 DEF Load
  <2>4. CASE obj.kind # "other"
    <3>1. AppNames' = AppNames /\ commonPrefix' = commonPrefix
      BY <2>2, <2>3, <2>4 DEF DetectCommonPrefix, Objects, Kinds
    <3>. QED
      BY <2>1, <3>1 DEF PrefixInv, PrefixExactWhenShared
  <2>5. CASE obj.kind = "other"
    <3>1. AppNames' = AppNames \union {obj.name}
      BY <2>2, <2>5
    <3>2. /\ obj.name \in Seq(Char) /\ AppNames \in SUBSET Seq(Char)
          /\ commonPrefix \in Seq(Char)
      BY <2>1, <2>2, MetadataAssumption DEF Objects, TypeOK
    <3>3. ASSUME ShareFirstChar(AppNames \union {obj.name})
          PROVE  IsLongestCommonPrefix(commonPrefix', AppNames \union {obj.name})
      <4>1. CASE AppNames = {}
        <5>1. commonPrefix' = obj.name
          BY <2>3, <2>5, <4>1 DEF PrefixInv, DetectCommonPrefix
        <5>. QED
          BY <3>2, <4>1, <5>1, LongestPrefixOfOne
      <4>2. CASE AppNames # {}
        <5>1. ShareFirstChar(AppNames)
          BY <3>3 DEF ShareFirstChar
        <5>2. IsLongestCommonPrefix(commonPrefix, AppNames)
          BY <4>2, <5>1 DEF PrefixInv, PrefixExactWhenShared
        <5>3. commonPrefix # NoName
          BY <3>2, <4>2, <5>1, <5>2, SharedPrefixNotEmpty
        <5>4. commonPrefix' = CommonPrefix(obj.name, commonPrefix)
          BY <2>3, <2>5, <5>3 DEF DetectCommonPrefix
        <5>. QED
          BY <3>2, <4>2, <5>2, <5>4, LongestPrefixExtends
      <4>. QED
        BY <4>1, <4>2
    <3>4. (ShareFirstChar(AppNames))' <=> ShareFirstChar(AppNames \union {obj.name})
      BY <3>1 DEF ShareFirstChar
    <3>5. (IsLongestCommonPrefix(commonPrefix, AppNames))'
            <=> IsLongestCommonPrefix(commonPrefix', AppNames \union {obj.name})
      BY <3>1 DEF IsLongestCommonPrefix
    <3>. QED
      BY <2>1, <3>1, <3>3, <3>4, <3>5 DEF PrefixInv, PrefixExactWhenShared
  <2>. QED
    BY <2>4, <2>5
<1>2. CASE UNCHANGED metadataVars
  <2>1. AppNames' = AppNames /\ commonPrefix' = commonPrefix /\ TypeOK'
    BY <1>2 DEF PrefixInv, TypeOK, metadataVars, AppNames, LoadedObjects
  <2>. QED
    BY <2>1 DEF PrefixInv, PrefixExactWhenShared
<1>. QED
  BY <1>1, <1>2 DEF Next

LEMMA PrefixInvariant == Spec => []PrefixInv
<1>1. Init => PrefixInv
  <2>. SUFFICES ASSUME Init PROVE PrefixInv
    OBVIOUS
  <2>1. TypeOK
    BY MetadataAssumption DEF Init, TypeOK, NoName
  <2>2. AppNames = {}
    BY DEF Init, AppNames, LoadedObjects
  <2>. QED
    BY <2>1, <2>2 DEF Init, PrefixInv, PrefixExactWhenShared
<1>. QED
  BY <1>1, PrefixStep, PTL DEF Spec

(* For every input: when the names of the application's objects have anything *)
(* in common, the detected prefix is their longest common prefix, in whatever *)
(* order they were loaded and whatever else was loaded between them.          *)
THEOREM PrefixExact == Spec => []PrefixExactWhenShared
<1>1. PrefixInv => PrefixExactWhenShared
  BY DEF PrefixInv
<1>. QED
  BY <1>1, PrefixInvariant, PTL

(* For every input: a load only ever cuts a detected prefix.                  *)
THEOREM PrefixShrinks == Spec => PrefixOnlyShrinks
<1>1. ASSUME TypeOK, [Next]_metadataVars
      PROVE  [commonPrefix # NoName => IsPrefix(commonPrefix', commonPrefix)]_metadataVars
  <2>1. ASSUME NEW obj \in Objects, Load(obj), commonPrefix # NoName
        PROVE  IsPrefix(commonPrefix', commonPrefix)
    <3>1. obj.name \in Seq(Char) /\ commonPrefix \in Seq(Char)
      BY <1>1, MetadataAssumption DEF Objects, TypeOK
    <3>2. commonPrefix' \in {commonPrefix, CommonPrefix(obj.name, commonPrefix)}
      BY <2>1 DEF Load, DetectCommonPrefix
    <3>3. IsPrefix(commonPrefix, commonPrefix)
      BY <3>1, PrefixByPosition
    <3>4. IsPrefix(CommonPrefix(obj.name, commonPrefix), commonPrefix)
      BY <3>1, CommonPrefixIsLongest
    <3>. QED
      BY <3>2, <3>3, <3>4
  <2>. QED
    BY <1>1, <2>1 DEF Next
<1>. QED
  BY <1>1, TypeCorrect, PTL DEF Spec, PrefixOnlyShrinks

(* For every input: no name but the empty one is rendered as the empty name.  *)
THEOREM NamesNotEmpty == Spec => []NoEmptyRendering
<1>1. NoEmptyRendering
  BY TrimNameNotEmpty DEF NoEmptyRendering, TemplatedName, Templated, Verbatim
<1>. QED
  BY <1>1, PTL

-----------------------------------------------------------------------------
(* The namespace                                                              *)

NamespaceInv == TypeOK /\ NamespaceIsLastNamed

LEMMA NamespaceStep ==
    ASSUME NamespaceInv, [Next]_metadataVars
    PROVE  NamespaceInv'
<1> DEFINE Naming(l) == {i \in 1..Len(l) : ExtractAppNamespace(l[i]) # NoName}
<1>1. ASSUME NEW obj \in Objects, Load(obj)
      PROVE  NamespaceIsLastNamed'
  <2>1. /\ loaded \in Seq(Objects) /\ loaded' = Append(loaded, obj)
        /\ Len(loaded) \in Nat /\ Len(loaded') = Len(loaded) + 1
        /\ loaded'[Len(loaded) + 1] = obj
        /\ \A i \in 1..Len(loaded) : loaded'[i] = loaded[i]
    BY <1>1 DEF Load, NamespaceInv, TypeOK
  <2>2. CASE ExtractAppNamespace(obj) = NoName
    <3>1. Naming(loaded') = Naming(loaded) /\ namespace' = namespace
      BY <1>1, <2>1, <2>2 DEF Load
    <3>2. Naming(loaded) # {} => Max(Naming(loaded)) \in Naming(loaded)
      <4>1. ASSUME Naming(loaded) # {}
            PROVE  \E x \in Naming(loaded) : \A y \in Naming(loaded) : x >= y
        BY <2>1, <4>1, MaxOfNats
      <4> HIDE DEF Naming
      <4>. QED
        BY <4>1 DEF Max
    <3>. QED
      BY <2>1, <3>1, <3>2 DEF NamespaceIsLastNamed, NamespaceInv
  <2>3. CASE ExtractAppNamespace(obj) # NoName
    <3>1. /\ Len(loaded') \in Naming(loaded')
          /\ \A y \in Naming(loaded') : Len(loaded') >= y /\ y \in Nat
      BY <2>1, <2>3
    <3>2. Max(Naming(loaded')) = Len(loaded')
      <4> HIDE DEF Naming
      <4>. QED
        BY <2>1, <3>1 DEF Max
    <3>3. namespace' = ExtractAppNamespace(obj)
      BY <1>1, <2>3 DEF Load
    <3>. QED
      BY <2>1, <3>1, <3>2, <3>3 DEF NamespaceIsLastNamed
  <2>. QED
    BY <2>2, <2>3
<1>2. ASSUME UNCHANGED metadataVars
      PROVE  NamespaceIsLastNamed'
  BY <1>2 DEF NamespaceInv, NamespaceIsLastNamed, metadataVars
<1>3. TypeOK'
  BY TypeStep DEF NamespaceInv
<1>4. NamespaceIsLastNamed'
  BY <1>1, <1>2 DEF Next
<1>. QED
  BY <1>3, <1>4 DEF NamespaceInv

(* For every input: the application namespace is the last one an object named. *)
THEOREM NamespaceCorrect == Spec => []NamespaceIsLastNamed
<1>1. Init => NamespaceInv
  <2>. SUFFICES ASSUME Init PROVE NamespaceInv
    OBVIOUS
  <2>1. TypeOK
    BY MetadataAssumption DEF Init, TypeOK, NoName
  <2>. QED
    BY <2>1 DEF Init, NamespaceInv, NamespaceIsLastNamed
<1>2. NamespaceInv => NamespaceIsLastNamed
  BY DEF NamespaceInv
<1>. QED
  BY <1>1, <1>2, NamespaceStep, PTL DEF Spec

-----------------------------------------------------------------------------
(* Trimmed names                                                             *)

(* TrimLeft drops a beginning made of the characters of the cutset; what is   *)
(* left is empty only when there is nothing else.                            *)
LEMMA TrimLeftCuts ==
    ASSUME NEW C, NEW s \in Seq(C), NEW cutset
    PROVE  \/ TrimLeft(s, cutset) = NoName /\ ToSet(s) \subseteq cutset
           \/ /\ TrimLeft(s, cutset) # NoName
              /\ \E i \in 0..Len(s) :
                    /\ ToSet(SubSeq(s, 1, i)) \subseteq cutset
                    /\ TrimLeft(s, cutset) = SubSeq(s, i + 1, Len(s))
<1> DEFINE kept == {i \in 1..Len(s) : s[i] \notin cutset}
           n    == Min(kept)
<1>1. CASE kept = {}
  <2>1. \A i \in 1..Len(s) : s[i] \in cutset
    BY <1>1
  <2>2. DOMAIN s = 1..Len(s)
    OBVIOUS
  <2>. QED
    BY <1>1, <2>1, <2>2 DEF TrimLeft, ToSet
<1>2. CASE kept # {}
  <2>1. kept \in SUBSET Nat
    OBVIOUS
  <2>2. n \in kept /\ \A j \in kept : n <= j
    BY <1>2, <2>1, MinOfNats
  <2>. HIDE DEF n
  <2>3. n \in 1..Len(s) /\ Len(s) \in Nat /\ \A j \in 1..n - 1 : s[j] \in cutset
    BY <2>2
  <2>4. TrimLeft(s, cutset) = SubSeq(s, n, Len(s))
    BY <1>2 DEF TrimLeft, n
  <2>5. Len(SubSeq(s, n, Len(s))) > 0
    BY <2>3
  <2>6. SubSeq(s, n, Len(s)) # NoName
    <3>1. Len(NoName) = 0
      BY DEF NoName
    <3>2. Len(SubSeq(s, n, Len(s))) # 0
      BY <2>3, <2>5
    <3>. QED
      BY <3>1, <3>2, Zenon
  <2>7. n - 1 \in 0..Len(s) /\ (n - 1) + 1 = n
    BY <2>3
  <2>8. ToSet(SubSeq(s, 1, n - 1)) \subseteq cutset
    <3>1. /\ Len(SubSeq(s, 1, n - 1)) = n - 1
          /\ \A j \in 1..n - 1 : SubSeq(s, 1, n - 1)[j] = s[j]
          /\ SubSeq(s, 1, n - 1) \in Seq(C)
      BY <2>7, InitialSubSeq
    <3>2. DOMAIN SubSeq(s, 1, n - 1) = 1..n - 1
      BY <3>1
    <3>. QED
      BY <2>3, <3>1, <3>2 DEF ToSet
  <2>. QED
    BY <2>4, <2>6, <2>7, <2>8
<1>. QED
  BY <1>1, <1>2

(* Two names of a run are rendered the same only where trimming cannot tell   *)
(* them apart by design, for every alphabet and every prefix that the loads   *)
(* may have left (metadata.go TrimName, TemplatedName).                       *)
THEOREM NamesStayApart == Spec => []TrimKeepsNamesApart
<1>1. TypeOK => TrimKeepsNamesApart
  <2>. SUFFICES ASSUME TypeOK, NEW m \in names, NEW n \in names, m # n,
                       TemplatedName(m) = TemplatedName(n),
                       ~OnlySeparators(AfterPrefix(m)), ~OnlySeparators(AfterPrefix(n))
                PROVE  SameUpToSeparators(AfterPrefix(m), AfterPrefix(n))
    BY DEF TrimKeepsNamesApart
  <2>1. TrimName(m) = TrimName(n)
    <3>1. Verbatim(m) # Verbatim(n)
      BY DEF Verbatim
    <3>2. Templated(TrimName(m)) = Templated(TrimName(n))
      BY <3>1 DEF TemplatedName
    <3>. QED
      BY <3>2 DEF Templated
  <2>2. \A k \in names : AfterPrefix(k) \in Seq(Char)
    <3>1. names \subseteq Seq(Char) /\ commonPrefix \in Seq(Char)
      BY MetadataAssumption DEF TypeOK
    <3>. QED
      BY <3>1 DEF AfterPrefix, TrimPrefix
  <2>3. ASSUME NEW k \in names, ~OnlySeparators(AfterPrefix(k))
        PROVE  \E i \in 0..Len(AfterPrefix(k)) :
                  /\ OnlySeparators(SubSeq(AfterPrefix(k), 1, i))
                  /\ TrimName(k) = SubSeq(AfterPrefix(k), i + 1, Len(AfterPrefix(k)))
    <3>1. /\ TrimLeft(AfterPrefix(k), Separators) # NoName
          /\ \E i \in 0..Len(AfterPrefix(k)) :
                /\ OnlySeparators(SubSeq(AfterPrefix(k), 1, i))
                /\ TrimLeft(AfterPrefix(k), Separators)
                      = SubSeq(AfterPrefix(k), i + 1, Len(AfterPrefix(k)))
      BY <2>2, <2>3, TrimLeftCuts DEF OnlySeparators
    <3>2. TrimName(k) = TrimLeft(AfterPrefix(k), Separators)
      BY <3>1 DEF TrimName, AfterPrefix
    <3>. QED
      BY <3>1, <3>2
  <2>. QED
    BY <2>1, <2>3 DEF SameUpToSeparators
<1>. QED
  BY <1>1, TypeCorrect, PTL
=============================================================================
