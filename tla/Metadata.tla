------------------------------ MODULE Metadata ------------------------------
(***************************************************************************)
(* metadata.Service (pkg/metadata/metadata.go): what the objects of a run   *)
(* say about the application they belong to.  The service sees the objects  *)
(* one by one, before any of them is processed, and keeps a common name     *)
(* prefix, a namespace and the set of names; the processors then ask it for *)
(* trimmed and templated names.                                             *)
(*                                                                          *)
(* A name is a sequence of characters.  Of an object the model keeps its    *)
(* kind (the prefix ignores custom resource definitions and namespaces),    *)
(* its name and its metadata.namespace; an unset field is the empty name,   *)
(* as obj.GetName() and obj.GetNamespace() return it.                       *)
(***************************************************************************)
EXTENDS Naturals, Sequences, FiniteSets, FiniteSetsExt, SequencesExt

CONSTANTS
    Char,          \* characters of names
    Separators,    \* the characters TrimName strips: "-./_ "
    Names,         \* the names objects may carry
    Namespaces,    \* the namespaces they may carry, the empty name included
    OriginalName,  \* the --original-name flag
    MaxLoads       \* bound: how many objects a run may load

NoName == << >>

ASSUME MetadataAssumption ==
    /\ Separators \subseteq Char
    /\ Names \subseteq Seq(Char)
    /\ Namespaces \subseteq Seq(Char)
    /\ NoName \in Namespaces
    /\ OriginalName \in BOOLEAN
    /\ MaxLoads \in Nat

Kinds == {"crd", "namespace", "other"}
Objects == [kind : Kinds, name : Names, ns : Namespaces]

VARIABLES
    commonPrefix,  \* Service.commonPrefix
    namespace,     \* Service.namespace
    names,         \* Service.names
    loaded         \* the objects given to Load so far, in order

metadataVars == <<commonPrefix, namespace, names, loaded>>

-----------------------------------------------------------------------------
(* commonPrefix(one, two): cut at the first position where the two differ.  *)

(* Mutant: keeps the first character that differs.                           *)
CommonPrefixOneTooMany(one, two) ==
    LET shorter    == IF Len(one) > Len(two) THEN Len(two) ELSE Len(one)
        mismatches == {i \in 1..shorter : one[i] # two[i]}
    IN  SubSeq(one, 1, IF mismatches = {} THEN shorter ELSE Min(mismatches))

CommonPrefix(one, two) ==
    LET shorter    == IF Len(one) > Len(two) THEN Len(two) ELSE Len(one)
        mismatches == {i \in 1..shorter : one[i] # two[i]}
    IN  SubSeq(one, 1, IF mismatches = {} THEN shorter ELSE Min(mismatches) - 1)

(* Mutant: looks at the names of CRDs and namespaces too.                    *)
DetectCommonPrefixOfAll(obj, prevName) ==
    IF prevName = NoName THEN obj.name ELSE CommonPrefix(obj.name, prevName)

DetectCommonPrefix(obj, prevName) ==
    IF obj.kind \in {"crd", "namespace"} THEN prevName
    ELSE IF prevName = NoName THEN obj.name
    ELSE CommonPrefix(obj.name, prevName)

ExtractAppNamespace(obj) ==
    IF obj.kind = "namespace" THEN obj.name ELSE obj.ns

(* strings.TrimPrefix and strings.TrimLeft                                  *)
TrimPrefix(s, prefix) ==
    IF IsPrefix(prefix, s) THEN SubSeq(s, Len(prefix) + 1, Len(s)) ELSE s

TrimLeft(s, cutset) ==
    LET kept == {i \in 1..Len(s) : s[i] \notin cutset}
    IN  IF kept = {} THEN NoName ELSE SubSeq(s, Min(kept), Len(s))

(* Mutants: strings.TrimLeft with the prefix as cutset where TrimPrefix is   *)
(* meant; no fallback for a name that is nothing but the prefix.             *)
TrimNameByCharacters(objName) ==
    LET trimmed == TrimLeft(objName, ToSet(commonPrefix) \union Separators)
    IN  IF trimmed = NoName THEN objName ELSE trimmed
TrimNameToNothing(objName) ==
    TrimLeft(TrimPrefix(objName, commonPrefix), Separators)

TrimName(objName) ==
    LET trimmed == TrimLeft(TrimPrefix(objName, commonPrefix), Separators)
    IN  IF trimmed = NoName THEN objName ELSE trimmed

(* nameTeml, the CUE expression #config.metadata.name + "-%s", or a name    *)
(* left as it is.                                                           *)
Templated(name) == [templated |-> TRUE, name |-> name]
Verbatim(name)  == [templated |-> FALSE, name |-> name]

TemplatedName(name) ==
    IF OriginalName \/ name \notin names
    THEN Verbatim(name)
    ELSE Templated(TrimName(name))

-----------------------------------------------------------------------------
Init ==
    /\ commonPrefix = NoName
    /\ namespace = NoName
    /\ names = {}
    /\ loaded = << >>

(* Mutants: an object without a namespace resets it; the namespace is        *)
(* recorded where the name is meant.                                         *)
LoadResetsNamespace(obj) ==
    /\ names' = names \union {obj.name}
    /\ commonPrefix' = DetectCommonPrefix(obj, commonPrefix)
    /\ namespace' = ExtractAppNamespace(obj)
    /\ loaded' = Append(loaded, obj)
LoadRecordsNamespace(obj) ==
    /\ names' = names \union {ExtractAppNamespace(obj)}
    /\ commonPrefix' = DetectCommonPrefix(obj, commonPrefix)
    /\ UNCHANGED namespace
    /\ loaded' = Append(loaded, obj)

Load(obj) ==
    /\ names' = names \union {obj.name}
    /\ commonPrefix' = DetectCommonPrefix(obj, commonPrefix)
    /\ namespace' = IF ExtractAppNamespace(obj) = NoName
                    THEN namespace
                    ELSE ExtractAppNamespace(obj)
    /\ loaded' = Append(loaded, obj)

Next ==
    /\ Len(loaded) < MaxLoads
    /\ \E obj \in Objects : Load(obj)

Spec == Init /\ [][Next]_metadataVars

-----------------------------------------------------------------------------
(* Properties                                                               *)

TypeOK ==
    /\ commonPrefix \in Seq(Char)
    /\ namespace \in Names \union Namespaces
    /\ names \subseteq Names
    /\ loaded \in Seq(Objects)

LoadedObjects == {loaded[i] : i \in 1..Len(loaded)}

(* The names detectCommonPrefix looks at.                                   *)
AppNames == {obj.name : obj \in {o \in LoadedObjects : o.kind = "other"}}

ShareFirstChar(S) == \E c \in Char : \A n \in S : n # NoName /\ n[1] = c

(* p is a prefix of every name of S and no longer sequence is.              *)
IsLongestCommonPrefix(p, S) ==
    /\ \A n \in S : IsPrefix(p, n)
    /\ \A n \in S : \A k \in 1..Len(n) :
          (\A m \in S : IsPrefix(SubSeq(n, 1, k), m)) => k <= Len(p)

(* Whatever the order the objects came in, and whatever namespaces and CRDs  *)
(* came between them, when the names of the application's objects have       *)
(* anything in common the detected prefix is their longest common prefix     *)
(* (metadata.go Load and detectCommonPrefix keep it incrementally).          *)
PrefixExactWhenShared ==
    AppNames # {} /\ ShareFirstChar(AppNames)
        => IsLongestCommonPrefix(commonPrefix, AppNames)

(* A prefix once detected is only ever cut shorter by a load, down to the    *)
(* empty prefix (detectCommonPrefix never extends or replaces it then).      *)
PrefixOnlyShrinks ==
    [][commonPrefix # NoName => IsPrefix(commonPrefix', commonPrefix)]_metadataVars

(* Two different application names are rendered the same only when trimming  *)
(* cannot tell them apart by design: separators after the prefix are         *)
(* dropped, a name that is nothing but the prefix and separators is kept     *)
(* whole (TrimName's fallback), or only one of the two carries the prefix.   *)
OnlySeparators(s) == ToSet(s) \subseteq Separators
AfterPrefix(n) == TrimPrefix(n, commonPrefix)
SameUpToSeparators(s, t) ==
    \E i \in 0..Len(s), j \in 0..Len(t) :
        /\ OnlySeparators(SubSeq(s, 1, i))
        /\ OnlySeparators(SubSeq(t, 1, j))
        /\ SubSeq(s, i + 1, Len(s)) = SubSeq(t, j + 1, Len(t))
TrimKeepsNamesApart ==
    \A m, n \in names :
        m # n /\ TemplatedName(m) = TemplatedName(n)
            => \/ SameUpToSeparators(AfterPrefix(m), AfterPrefix(n))
               \/ OnlySeparators(AfterPrefix(m))
               \/ OnlySeparators(AfterPrefix(n))
               \/ IsPrefix(commonPrefix, m) # IsPrefix(commonPrefix, n)

(* The application namespace is the last one any loaded object named: an     *)
(* object without one, even loaded later, does not reset it, and a Namespace *)
(* object counts by its own name (metadata.go Load, lines 62-69).            *)
NamespaceIsLastNamed ==
    LET named == {i \in 1..Len(loaded) : ExtractAppNamespace(loaded[i]) # NoName}
    IN  namespace = IF named = {} THEN NoName
                    ELSE ExtractAppNamespace(loaded[Max(named)])

(* A name is never rendered as the empty string: templates are stored in     *)
(* files named after it (processor/default.go Filename) and an empty one     *)
(* would be ".cue" and render "<instance>-".                                 *)
NoEmptyRendering ==
    \A n \in names \ {NoName} : TemplatedName(n).name # NoName

(* metadata.go:57-58 says Load defines the "name common prefix" of the app:  *)
(* a prefix of every application object's name.                              *)
PrefixIsCommon == \A n \in AppNames : IsPrefix(commonPrefix, n)
=============================================================================
