---------------------------- MODULE FileWalkProofs ----------------------------
(***************************************************************************)
(* Proofs about FileWalk, for every finite file system, every list of paths  *)
(* given with -f, and any number of removals while they are walked.          *)
(***************************************************************************)
EXTENDS FileWalk, FiniteSetTheorems, WellFoundedInduction, TLAPS

-----------------------------------------------------------------------------
(* Prefixes and the lexical order                                            *)

(* Every set of natural numbers that is not empty has a least one.           *)
LEMMA LeastNat ==
    ASSUME NEW T \in SUBSET Nat, T # {}
    PROVE  \E n \in T : \A m \in T : n <= m
<1>1. PICK n \in T : \A m \in T : <<m, n>> \notin OpToRel(<, Nat)
  BY WFMin, NatLessThanWellFounded, Zenon
<1>2. \A m \in T : ~(m < n)
  BY <1>1, Zenon DEF OpToRel
<1>. QED
  BY <1>2

(* Prefixes, index by index.                                                 *)
LEMMA PrefixByIndex ==
    ASSUME NEW p \in Seq(Nat), NEW q \in Seq(Nat)
    PROVE  IsPrefix(p, q) <=> Len(p) <= Len(q) /\ \A j \in 1..Len(p) : p[j] = q[j]
<1>1. CASE Len(p) <= Len(q)
  <2>1. /\ SubSeq(p, 1, Len(p)) \in Seq(Nat) /\ SubSeq(q, 1, Len(p)) \in Seq(Nat)
        /\ Len(SubSeq(p, 1, Len(p))) = Len(p) /\ Len(SubSeq(q, 1, Len(p))) = Len(p)
        /\ \A j \in 1..Len(p) : /\ SubSeq(p, 1, Len(p))[j] = p[j]
                                /\ SubSeq(q, 1, Len(p))[j] = q[j]
    BY <1>1
  <2>2. SubSeq(p, 1, Len(p)) = SubSeq(q, 1, Len(p))
           <=> \A j \in 1..Len(p) : p[j] = q[j]
    BY <2>1
  <2>. QED
    BY <1>1, <2>2 DEF IsPrefix
<1>2. CASE ~(Len(p) <= Len(q))
  BY <1>2 DEF IsPrefix
<1>. QED
  BY <1>1, <1>2

LEMMA SameByIndex ==
    ASSUME NEW p \in Seq(Nat), NEW q \in Seq(Nat), Len(p) = Len(q),
           \A j \in 1..Len(p) : p[j] = q[j]
    PROVE  p = q
  OBVIOUS

LEMMA StrictIsShorter ==
    ASSUME NEW p \in Seq(Nat), NEW q \in Seq(Nat), IsStrictPrefix(p, q)
    PROVE  Len(p) < Len(q)
  BY PrefixByIndex, SameByIndex DEF IsStrictPrefix

LEMMA PrefixTransitive ==
    ASSUME NEW p \in Seq(Nat), NEW q \in Seq(Nat), NEW r \in Seq(Nat),
           IsPrefix(p, q), IsPrefix(q, r)
    PROVE  IsPrefix(p, r)
<1>1. /\ Len(p) <= Len(q) /\ Len(q) <= Len(r)
      /\ \A j \in 1..Len(p) : p[j] = q[j]
      /\ \A j \in 1..Len(q) : q[j] = r[j]
  BY PrefixByIndex
<1>2. Len(p) <= Len(r) /\ \A j \in 1..Len(p) : p[j] = r[j]
  BY <1>1
<1>. QED
  BY <1>2, PrefixByIndex

(* The first place at which two paths differ.                                *)
Differ(p, q, i) ==
    /\ i \in 1..Len(p) /\ i <= Len(q)
    /\ p[i] < q[i]
    /\ \A j \in 1..i - 1 : p[j] = q[j]

LEMMA PrecedesByIndex ==
    ASSUME NEW p \in Seq(Nat), NEW q \in Seq(Nat)
    PROVE  Precedes(p, q) <=> \/ Len(p) < Len(q) /\ \A j \in 1..Len(p) : p[j] = q[j]
                              \/ \E i \in 1..Len(p) : Differ(p, q, i)
<1>1. IsStrictPrefix(p, q) <=> Len(p) < Len(q) /\ \A j \in 1..Len(p) : p[j] = q[j]
  <2>1. ASSUME IsStrictPrefix(p, q)
        PROVE  Len(p) < Len(q) /\ \A j \in 1..Len(p) : p[j] = q[j]
    BY <2>1, PrefixByIndex, StrictIsShorter DEF IsStrictPrefix
  <2>2. ASSUME Len(p) < Len(q), \A j \in 1..Len(p) : p[j] = q[j]
        PROVE  IsStrictPrefix(p, q)
    BY <2>2, PrefixByIndex DEF IsStrictPrefix
  <2>. QED
    BY <2>1, <2>2
<1>. QED
  BY <1>1 DEF Precedes, Differ

LEMMA PrecedesTransitive ==
    ASSUME NEW p \in Seq(Nat), NEW q \in Seq(Nat), NEW r \in Seq(Nat),
           Precedes(p, q), Precedes(q, r)
    PROVE  Precedes(p, r)
<1>0. \A s \in {p, q, r} : s \in Seq(Nat) /\ Len(s) \in Nat /\ \A j \in 1..Len(s) : s[j] \in Nat
  OBVIOUS
<1>1. CASE /\ Len(p) < Len(q) /\ \A j \in 1..Len(p) : p[j] = q[j]
           /\ Len(q) < Len(r) /\ \A j \in 1..Len(q) : q[j] = r[j]
  <2>1. Len(p) < Len(r) /\ \A j \in 1..Len(p) : p[j] = r[j]
    BY <1>0, <1>1
  <2>. QED
    BY <2>1, PrecedesByIndex
<1>2. ASSUME Len(p) < Len(q), \A j \in 1..Len(p) : p[j] = q[j],
             NEW i \in 1..Len(q), Differ(q, r, i)
      PROVE  Precedes(p, r)
  <2>1. CASE i <= Len(p)
    <3>1. Differ(p, r, i) /\ i \in 1..Len(p)
      BY <1>0, <1>2, <2>1 DEF Differ
    <3>. QED
      BY <3>1, PrecedesByIndex
  <2>2. CASE ~(i <= Len(p))
    <3>1. Len(p) < Len(r) /\ \A j \in 1..Len(p) : p[j] = r[j]
      BY <1>0, <1>2, <2>2 DEF Differ
    <3>. QED
      BY <3>1, PrecedesByIndex
  <2>. QED
    BY <2>1, <2>2
<1>3. ASSUME NEW i \in 1..Len(p), Differ(p, q, i),
             Len(q) < Len(r), \A j \in 1..Len(q) : q[j] = r[j]
      PROVE  Precedes(p, r)
  <2>1. Differ(p, r, i)
    BY <1>0, <1>3 DEF Differ
  <2>. QED
    BY <2>1, PrecedesByIndex
<1>4. ASSUME NEW i \in 1..Len(p), Differ(p, q, i), NEW k \in 1..Len(q), Differ(q, r, k)
      PROVE  Precedes(p, r)
  <2>1. /\ i <= Len(q) /\ p[i] < q[i] /\ \A j \in 1..i - 1 : p[j] = q[j]
        /\ k <= Len(r) /\ q[k] < r[k] /\ \A j \in 1..k - 1 : q[j] = r[j]
    BY <1>4 DEF Differ
  <2>2. /\ Len(p) \in Nat /\ Len(q) \in Nat /\ Len(r) \in Nat /\ i \in Nat /\ k \in Nat
        /\ 1 <= i /\ i <= Len(p) /\ 1 <= k /\ k <= Len(q)
    BY <1>0
  <2>3. CASE i <= k
    <3>1. i <= Len(r)
      BY <2>1, <2>2, <2>3
    <3>2. \A j \in 1..i - 1 : p[j] = r[j]
      BY <2>1, <2>2, <2>3
    <3>3. q[i] <= r[i]
      <4>1. i = k \/ i \in 1..k - 1
        BY <2>2, <2>3
      <4>2. q[i] \in Nat /\ r[i] \in Nat
        BY <1>0, <2>1, <2>2, <3>1
      <4>. QED
        BY <2>1, <4>1, <4>2
    <3>4. p[i] \in Nat /\ q[i] \in Nat /\ r[i] \in Nat
      BY <1>0, <2>1, <2>2, <3>1
    <3>5. p[i] < r[i]
      <4>1. p[i] < q[i]
        BY <2>1
      <4>. QED
        BY <3>3, <3>4, <4>1
    <3>. QED
      BY <3>1, <3>2, <3>5, PrecedesByIndex DEF Differ
  <2>4. CASE k < i
    <3>1. k \in 1..i - 1 /\ k \in 1..Len(p)
      BY <2>2, <2>4
    <3>2. p[k] < r[k]
      BY <2>1, <3>1
    <3>3. \A j \in 1..k - 1 : p[j] = r[j]
      BY <2>1, <2>2, <2>4
    <3>. QED
      BY <2>1, <3>1, <3>2, <3>3, PrecedesByIndex DEF Differ
  <2>. QED
    BY <2>2, <2>3, <2>4
<1>. QED
  BY <1>1, <1>2, <1>3, <1>4, PrecedesByIndex

LEMMA PrecedesIrreflexive ==
    ASSUME NEW p \in Seq(Nat)
    PROVE  ~Precedes(p, p)
  BY PrecedesByIndex DEF Differ

LEMMA PrecedesTotal ==
    ASSUME NEW p \in Seq(Nat), NEW q \in Seq(Nat), p # q
    PROVE  Precedes(p, q) \/ Precedes(q, p)
<1> DEFINE Places == {i \in 1..Len(p) : i <= Len(q) /\ p[i] # q[i]}
<1>0. /\ Len(p) \in Nat /\ Len(q) \in Nat
      /\ \A j \in 1..Len(p) : p[j] \in Nat
      /\ \A j \in 1..Len(q) : q[j] \in Nat
  OBVIOUS
<1>1. CASE Places = {}
  <2>1. \A j \in 1..Len(p) : j <= Len(q) => p[j] = q[j]
    BY <1>1
  <2>2. Len(p) # Len(q)
    BY <2>1, SameByIndex
  <2>3. CASE Len(p) < Len(q)
    <3>1. \A j \in 1..Len(p) : p[j] = q[j]
      BY <1>0, <2>1, <2>3
    <3>. QED
      BY <2>3, <3>1, PrecedesByIndex
  <2>4. CASE Len(q) < Len(p)
    <3>1. \A j \in 1..Len(q) : q[j] = p[j]
      BY <1>0, <2>1, <2>4
    <3>. QED
      BY <2>4, <3>1, PrecedesByIndex
  <2>. QED
    BY <1>0, <2>2, <2>3, <2>4
<1>2. CASE Places # {}
  <2>1. PICK i \in Places : \A j \in Places : i <= j
    <3>1. Places \in SUBSET Nat
      OBVIOUS
    <3>. HIDE DEF Places
    <3>. QED
      BY <1>2, <3>1, LeastNat, Zenon
  <2>2. \A j \in 1..i - 1 : p[j] = q[j]
    <3>. SUFFICES ASSUME NEW j \in 1..i - 1, p[j] # q[j] PROVE FALSE
      OBVIOUS
    <3>1. j \in Places
      BY <1>0
    <3>. QED
      BY <2>1, <3>1
  <2>3. i \in 1..Len(p) /\ i \in 1..Len(q) /\ (p[i] < q[i] \/ q[i] < p[i])
    <3>1. i \in 1..Len(p) /\ i \in 1..Len(q) /\ p[i] # q[i]
      BY <1>0
    <3>2. p[i] \in Nat /\ q[i] \in Nat
      BY <1>0, <3>1
    <3>. QED
      BY <3>1, <3>2
  <2>4. i <= Len(p) /\ i <= Len(q)
    BY <1>0, <2>3
  <2>5. Differ(p, q, i) \/ Differ(q, p, i)
    BY <2>2, <2>3, <2>4 DEF Differ
  <2>. QED
    BY <2>3, <2>5, PrecedesByIndex
<1>. QED
  BY <1>1, <1>2

(* The walk takes the first of what is left: there is one.                    *)
LEMMA FirstIsFirst ==
    ASSUME NEW S \in SUBSET Seq(Nat), IsFiniteSet(S), S # {}
    PROVE  First(S) \in S /\ \A q \in S \ {First(S)} : Precedes(First(S), q)
<1> DEFINE Before(p) == {q \in S : Precedes(q, p)}
           Ranks == {Cardinality(Before(p)) : p \in S}
<1>1. \A p \in S : IsFiniteSet(Before(p)) /\ Cardinality(Before(p)) \in Nat
  <2>. SUFFICES ASSUME NEW p \in S
                PROVE  IsFiniteSet(Before(p)) /\ Cardinality(Before(p)) \in Nat
    OBVIOUS
  <2>1. Before(p) \in SUBSET S
    OBVIOUS
  <2>. HIDE DEF Before
  <2>2. IsFiniteSet(Before(p))
    BY <2>1, FS_Subset
  <2>. QED
    BY <2>2, FS_CardinalityType
<1>2. PICK r \in Ranks : \A s \in Ranks : r <= s
  <2>1. Ranks \in SUBSET Nat
    BY <1>1
  <2>2. Ranks # {}
    OBVIOUS
  <2>. HIDE DEF Ranks
  <2>. QED
    BY <2>1, <2>2, LeastNat, Zenon
<1>3. PICK p \in S : r = Cardinality(Before(p))
  OBVIOUS
<1>4. \A s \in S : Cardinality(Before(p)) <= Cardinality(Before(s))
  BY <1>2, <1>3
<1>5. ASSUME NEW q \in S, Precedes(q, p)
      PROVE  FALSE
  <2>1. Before(q) \subseteq Before(p)
    BY <1>5, PrecedesTransitive
  <2>2. q \in Before(p) /\ q \notin Before(q)
    BY <1>5, PrecedesIrreflexive
  <2>3. Cardinality(Before(p)) <= Cardinality(Before(q))
    BY <1>4
  <2>4. /\ IsFiniteSet(Before(p)) /\ Cardinality(Before(p)) \in Nat
        /\ Cardinality(Before(q)) \in Nat
    BY <1>1
  <2>. HIDE DEF Before
  <2>5. /\ Cardinality(Before(q)) <= Cardinality(Before(p))
        /\ Cardinality(Before(p)) = Cardinality(Before(q)) => Before(p) = Before(q)
    BY <2>1, <2>4, FS_Subset
  <2>6. Cardinality(Before(p)) = Cardinality(Before(q))
    BY <2>3, <2>4, <2>5
  <2>. QED
    BY <2>2, <2>5, <2>6
<1>6. \A q \in S \ {p} : Precedes(p, q)
  BY <1>5, PrecedesTotal
<1>. QED
  BY <1>6 DEF First

-----------------------------------------------------------------------------
(* The inductive invariant                                                   *)

Visiting == {"file", "list", "entries", "walk"}

(* The branch of Walk a path is in is the one its kind and the flag ask for.  *)
Branch ==
    /\ pc \in Visiting => cur <= Len(given) /\ given[cur] \in DOMAIN Entry
    /\ pc \in {"file", "list"} => left = {given[cur]}
    /\ pc = "file" => ~IsDir(Real(given[cur]))
    /\ pc \in {"list", "entries", "walk"} => IsDir(Real(given[cur]))
    /\ pc \in {"list", "entries"} => ~recursively
    /\ pc = "walk" => recursively
    /\ pc = "done" => cur = Len(given) + 1

(* What is still to be visited is asked for, and comes after what the path    *)
(* has handed over.                                                          *)
LeftAsAsked ==
    /\ pc \in Visiting => \A p \in left : StandsFor(cur, p)
    /\ \A k \in 1..Len(handed) : handed[k].by <= cur
    /\ pc \in {"path", "file", "list"} => \A k \in 1..Len(handed) : handed[k].by < cur
    /\ pc \in {"entries", "walk"} =>
          \A k \in 1..Len(handed) : handed[k].by = cur =>
             \A p \in left : IF recursively THEN Precedes(handed[k].path, p)
                                            ELSE handed[k].path # p

(* A file of the path that is still there is handed over, or is still to be   *)
(* visited with the directory it is in.                                      *)
Taken(i) ==
    \/ i \in warned
    \/ recursively /\ LinkedDir(given[i])
    \/ {p \in FilesAt(i) : Lstat(p)} \subseteq HandedBy(i)
NoneLost ==
    /\ \A i \in 1..cur - 1 : Taken(i)
    /\ pc = "entries" => {p \in FilesAt(cur) : Lstat(p)} \subseteq HandedBy(cur) \union left
    /\ pc = "walk" /\ ~LinkedDir(given[cur]) =>
          \A p \in FilesAt(cur) :
             Lstat(p) => p \in HandedBy(cur) \/ \E q \in left : IsPrefix(q, p)

WalkInv ==
    /\ TypeOK /\ Branch /\ LeftAsAsked /\ NoneLost
    /\ StreamsAreFiles /\ HandedAsAsked /\ PanicsOnlyUnopened

-----------------------------------------------------------------------------
(* Type correctness                                                          *)

(* What the file system is made of.                                          *)
LEMMA Entries ==
    ASSUME NEW p \in DOMAIN Entry
    PROVE  /\ p \in Seq(Nat) /\ Len(p) \in Nat /\ Len(p) >= 1 /\ Last(p) \in Nat
           /\ Real(p) \in DOMAIN Entry
           /\ Entry[p].kind # "link" => Real(p) = p
           /\ Entry[Real(p)].kind \in {"file", "dir"}
           /\ \A n \in 1..Len(p) - 1 :
                 SubSeq(p, 1, n) \in DOMAIN Entry /\ IsDir(SubSeq(p, 1, n))
<1>1. p \in Path
  BY FileWalkAssumption
<1>2. p \in Seq(Nat) /\ Len(p) \in Nat /\ Len(p) >= 1
  BY <1>1 DEF Path
<1>3. Last(p) \in Nat
  BY <1>2 DEF Last
<1>4. Entry[p].target \in DOMAIN Entry
  BY FileWalkAssumption
<1>. QED
  BY <1>2, <1>3, <1>4, FileWalkAssumption DEF Real, IsDir

LEMMA GivenPaths ==
    ASSUME TypeOK
    PROVE  /\ Len(given) \in Nat /\ cur \in Nat /\ Len(handed) \in Nat
           /\ \A i \in 1..Len(given) : given[i] \in Seq(Nat)
<1>1. given \in Seq(Path)
  BY FileWalkAssumption DEF TypeOK
<1>2. \A i \in 1..Len(given) : given[i] \in Path
  BY <1>1
<1>. QED
  BY <1>1, <1>2 DEF TypeOK, Path

(* What walkFunc is given.                                                   *)
Handed(p) == [path |-> p, name |-> Last(p), by |-> cur]
HandedType == [path : DOMAIN Entry, name : Nat, by : 1..Len(given)]

LEMMA HandedTypes ==
    ASSUME TypeOK
    PROVE  \A k \in 1..Len(handed) : handed[k].path \in DOMAIN Entry /\ handed[k].by \in Nat
<1>0. handed \in Seq(HandedType)
  BY DEF TypeOK, HandedType
<1>1. \A k \in 1..Len(handed) : handed[k] \in HandedType
  BY <1>0
<1>. QED
  BY <1>1 DEF HandedType

LEMMA HandTypes ==
    ASSUME TypeOK, NEW p \in DOMAIN Entry, cur <= Len(given), Hand(p)
    PROVE  handed' \in Seq(HandedType) /\ handed' = Append(handed, Handed(p))
<1>1. Handed(p) \in HandedType
  BY Entries, GivenPaths DEF TypeOK, Handed, HandedType
<1>2. handed \in Seq(HandedType)
  BY DEF TypeOK, HandedType
<1>. QED
  BY <1>1, <1>2 DEF Hand, Handed

LEMMA ChildrenTypes == \A p : Children(p) \subseteq DOMAIN Entry
  BY DEF Children

LEMMA InitTypes == ASSUME Init PROVE TypeOK
<1>1. Len(given) \in Nat
  BY FileWalkAssumption DEF Init
<1>. QED
  BY <1>1 DEF Init, TypeOK

LEMMA StepKeepsType ==
    ASSUME TypeOK, Branch, [Next]_vars
    PROVE  TypeOK'
<1>. DEFINE Visited ==
        /\ pc' \in {"path", "file", "list", "entries", "walk", "done", "panic"}
        /\ cur' \in 1..Len(given) + 1
        /\ left' \subseteq DOMAIN Entry
        /\ pc' \in {"path", "done"} => left' = {}
        /\ warned' \subseteq 1..Len(given)
<1>1. ASSUME UNCHANGED <<given, recursively, gone>>, Visited, handed' \in Seq(HandedType)
      PROVE  TypeOK'
  BY <1>1 DEF TypeOK, HandedType
<1>2. handed \in Seq(HandedType)
  BY DEF TypeOK, HandedType
<1>3. ASSUME cur <= Len(given)
      PROVE  cur \in 1..Len(given) /\ cur + 1 \in 1..Len(given) + 1
  BY <1>3, GivenPaths DEF TypeOK
<1>4. \A p : Open(p) => p \in DOMAIN Entry
  BY DEF Open, Stat, Lstat
<1>. HIDE DEF HandedType
<1>5. CASE StatPath
  <2>1. cur <= Len(given) /\ UNCHANGED <<given, recursively, handed, gone>>
    BY <1>5 DEF StatPath
  <2>2. Visited
    BY <1>3, <1>5, <2>1 DEF StatPath, Warn, NextPath, Stat, Lstat, TypeOK
  <2>. QED
    BY <1>1, <1>2, <2>1, <2>2
<1>6. ASSUME NEW p \in DOMAIN Entry, Hand(p), cur <= Len(given),
             UNCHANGED <<given, recursively, gone>>, Visited
      PROVE  TypeOK'
  BY <1>1, <1>6, HandTypes
<1>7. CASE SingleFile
  <2>1. cur <= Len(given) /\ UNCHANGED <<given, recursively, gone>>
    BY <1>7 DEF SingleFile, Branch, Visiting
  <2>2. CASE Open(given[cur]) /\ Hand(given[cur]) /\ NextPath /\ UNCHANGED warned
    <3>1. Visited
      BY <1>3, <2>1, <2>2 DEF NextPath, TypeOK
    <3>. QED
      BY <1>4, <1>6, <2>1, <2>2, <3>1
  <2>3. CASE Panic
    BY <1>1, <1>2, <2>1, <2>3 DEF Panic, TypeOK
  <2>. QED
    BY <1>7, <2>2, <2>3 DEF SingleFile
<1>8. CASE ListDir
  <2>1. cur <= Len(given) /\ UNCHANGED <<given, recursively, gone, handed>>
    BY <1>8 DEF ListDir, Branch, Visiting, Panic
  <2>2. Visited
    BY <1>3, <1>8, <2>1, ChildrenTypes DEF ListDir, Warn, NextPath, Panic, TypeOK
  <2>. QED
    BY <1>1, <1>2, <2>1, <2>2
<1>9. CASE OpenEntry
  <2>1. cur <= Len(given) /\ UNCHANGED <<given, recursively, gone>> /\ pc = "entries"
    BY <1>9 DEF OpenEntry, Branch, Visiting
  <2>2. PICK p \in left :
          \/ left' = left \ {p} /\ UNCHANGED <<pc, cur, handed, warned>>
          \/ Open(p) /\ Hand(p) /\ left' = left \ {p} /\ UNCHANGED <<pc, cur, warned>>
          \/ Panic
    BY <1>9 DEF OpenEntry
  <2>3. Visited
    BY <2>1, <2>2 DEF Panic, TypeOK
  <2>. QED
    BY <1>1, <1>2, <1>4, <1>6, <2>1, <2>2, <2>3 DEF Panic
<1>10. CASE WalkEntry
  <2>1. cur <= Len(given) /\ UNCHANGED <<given, recursively, gone>> /\ pc = "walk"
    BY <1>10 DEF WalkEntry, Branch, Visiting
  <2>2. PICK p : VisitDir(p) \/ VisitFile(p) \/ (Fails(p) /\ EntryFailed(p))
    BY <1>10 DEF WalkEntry
  <2>3. CASE VisitDir(p)
    <3>1. Visited /\ handed' = handed
      BY <2>1, <2>3, ChildrenTypes DEF VisitDir, TypeOK
    <3>. QED
      BY <1>1, <1>2, <2>1, <3>1
  <2>4. CASE VisitFile(p)
    <3>1. Visited /\ Open(p) /\ Hand(p)
      BY <2>1, <2>4 DEF VisitFile, TypeOK
    <3>. QED
      BY <1>4, <1>6, <2>1, <3>1
  <2>5. CASE EntryFailed(p)
    <3>1. Visited /\ handed' = handed
      BY <1>3, <2>1, <2>5 DEF EntryFailed, Warn, NextPath, TypeOK
    <3>. QED
      BY <1>1, <1>2, <2>1, <3>1
  <2>. QED
    BY <2>2, <2>3, <2>4, <2>5
<1>11. CASE PathDone
  <2>1. cur <= Len(given) /\ UNCHANGED <<given, recursively, gone, handed>>
    BY <1>11 DEF PathDone, Branch, Visiting
  <2>2. Visited
    BY <1>3, <1>11, <2>1 DEF PathDone, NextPath, TypeOK
  <2>. QED
    BY <1>1, <1>2, <2>1, <2>2
<1>12. CASE Done
  BY <1>12 DEF Done, TypeOK
<1>13. CASE RemovePath
  <2>1. gone' \subseteq DOMAIN Entry
    BY <1>13 DEF RemovePath, TypeOK
  <2>. QED
    BY <1>13, <2>1 DEF RemovePath, TypeOK
<1>14. CASE UNCHANGED vars
  BY <1>14 DEF vars, TypeOK
<1>. QED
  BY <1>5, <1>7, <1>8, <1>9, <1>10, <1>11, <1>12, <1>13, <1>14 DEF Next, Walk

-----------------------------------------------------------------------------
(* The branches                                                              *)

LEMMA StepKeepsBranch ==
    ASSUME TypeOK, Branch, PanicsOnlyUnopened, [Next]_vars
    PROVE  Branch' /\ PanicsOnlyUnopened'
<1>. USE DEF Branch, Visiting, PanicsOnlyUnopened, IsDir, Real
<1>1. CASE StatPath
  BY <1>1 DEF StatPath, Warn, NextPath, Stat, Lstat
<1>2. CASE SingleFile
  BY <1>2 DEF SingleFile, NextPath, Panic, Open, Stat, Lstat
<1>3. CASE ListDir
  BY <1>3 DEF ListDir, Warn, NextPath, Panic, Open, Stat, Lstat
<1>4. CASE OpenEntry
  BY <1>4 DEF OpenEntry, Hand, Panic, Open, Stat, Lstat
<1>5. CASE WalkEntry
  BY <1>5 DEF WalkEntry, VisitDir, VisitFile, EntryFailed, Warn, NextPath
<1>6. CASE PathDone
  BY <1>6 DEF PathDone, NextPath
<1>7. CASE Done
  BY <1>7, GivenPaths DEF Done, TypeOK
<1>8. CASE RemovePath
  BY <1>8 DEF RemovePath
<1>9. CASE UNCHANGED vars
  BY <1>9 DEF vars, Open, Stat, Lstat
<1>. QED
  BY <1>1, <1>2, <1>3, <1>4, <1>5, <1>6, <1>7, <1>8, <1>9 DEF Next, Walk

-----------------------------------------------------------------------------
(* What is handed over                                                       *)

(* One more is handed over.                                                  *)
LEMMA HandAppends ==
    ASSUME TypeOK, NEW p, handed' = Append(handed, Handed(p))
    PROVE  /\ Len(handed') = Len(handed) + 1
           /\ \A k \in 1..Len(handed) : handed'[k] = handed[k]
           /\ handed'[Len(handed) + 1] = Handed(p)
           /\ 1..Len(handed') = 1..Len(handed) \union {Len(handed) + 1}
<1>1. Len(handed) \in Nat
  BY GivenPaths
<1>2. /\ Len(handed') = Len(handed) + 1
      /\ \A k \in 1..Len(handed) : handed'[k] = handed[k]
      /\ handed'[Len(handed) + 1] = Handed(p)
  BY <1>1 DEF TypeOK
<1>. QED
  BY <1>1, <1>2

LEMMA HandsAFile ==
    ASSUME TypeOK, StreamsAreFiles, NEW p \in DOMAIN Entry,
           handed' = Append(handed, Handed(p)), ~IsDir(p) \/ ~IsDir(Real(p))
    PROVE  StreamsAreFiles'
<1>1. Entry[Real(p)].kind = "file" \/ LinkedDir(p)
  <2>1. CASE ~IsDir(Real(p))
    BY <2>1, Entries DEF IsDir
  <2>2. CASE ~IsDir(p) /\ IsDir(Real(p))
    BY <2>2 DEF LinkedDir
  <2>. QED
    BY <2>1, <2>2
<1>2. Handed(p).path = p
  BY DEF Handed
<1>. QED
  BY <1>1, <1>2, HandAppends DEF StreamsAreFiles, LinkedDir, Real, IsDir

LEMMA HandsAsAsked ==
    ASSUME TypeOK, LeftAsAsked, HandedAsAsked, pc \in Visiting, NEW p \in left,
           handed' = Append(handed, Handed(p)), UNCHANGED <<given, recursively>>
    PROVE  /\ HandedAsAsked'
           /\ \A k \in 1..Len(handed') : handed'[k].by <= cur
<1>1. /\ Handed(p).path = p /\ Handed(p).by = cur
      /\ StandsFor(cur, p) /\ cur \in Nat /\ Len(handed) \in Nat
  BY GivenPaths DEF Handed, LeftAsAsked
<1>3. \A k \in 1..Len(handed') :
          IF k \in 1..Len(handed) THEN handed'[k] = handed[k] ELSE handed'[k] = Handed(p)
  BY <1>1, HandAppends
<1>4. \A k \in 1..Len(handed) : handed[k].by <= cur
  BY DEF LeftAsAsked
<1>5. \A k \in 1..Len(handed') : StandsFor(handed'[k].by, handed'[k].path)
  BY <1>1, <1>3 DEF HandedAsAsked
<1>6. \A k \in 1..Len(handed') : handed'[k].by <= cur
  BY <1>1, <1>3, <1>4
<1>7. \A k \in 1..Len(handed) : handed[k].by = cur =>
          IF recursively THEN Precedes(handed[k].path, p) ELSE handed[k].path # p
  <2>1. CASE pc \in {"file", "list"}
    BY <1>1, <2>1 DEF LeftAsAsked, TypeOK
  <2>2. CASE pc \in {"entries", "walk"}
    BY <2>2 DEF LeftAsAsked
  <2>. QED
    BY <2>1, <2>2 DEF Visiting
<1>8. ASSUME NEW k \in 1..Len(handed'), NEW l \in 1..Len(handed'), k < l
      PROVE  /\ handed'[k].by <= handed'[l].by
             /\ handed'[k].by = handed'[l].by =>
                   IF recursively THEN Precedes(handed'[k].path, handed'[l].path)
                                  ELSE handed'[k].path # handed'[l].path
  <2>1. k \in 1..Len(handed) /\ (l \in 1..Len(handed) \/ l = Len(handed) + 1)
    BY <1>1, <1>8, HandAppends
  <2>2. CASE l \in 1..Len(handed)
    BY <1>3, <1>8, <2>1, <2>2 DEF HandedAsAsked
  <2>3. CASE l = Len(handed) + 1
    BY <1>1, <1>3, <1>4, <1>7, <2>1, <2>3, HandAppends
  <2>. QED
    BY <2>1, <2>2, <2>3
<1>. QED
  BY <1>5, <1>6, <1>8 DEF HandedAsAsked, StandsFor, Real

LEMMA HandedKept ==
    ASSUME HandedAsAsked, StreamsAreFiles, UNCHANGED <<given, recursively, handed>>
    PROVE  HandedAsAsked' /\ StreamsAreFiles'
  BY DEF HandedAsAsked, StreamsAreFiles, StandsFor, LinkedDir, Real, IsDir

(* What is in a directory the path asks for, the path asks for.               *)
LEMMA ChildrenAsked ==
    ASSUME TypeOK, Branch, pc = "walk", NEW p \in DOMAIN Entry, IsDir(p), StandsFor(cur, p),
           NEW c \in Children(p)
    PROVE  StandsFor(cur, c) /\ IsStrictPrefix(p, c)
<1>1. Real(p) = p /\ p \in Seq(Nat) /\ c \in DOMAIN Entry /\ c \in Seq(Nat)
  BY Entries, ChildrenTypes DEF IsDir
<1>2. Len(c) = Len(p) + 1 /\ IsPrefix(p, c)
  BY <1>1 DEF Children
<1>3. IsStrictPrefix(p, c)
  BY <1>1, <1>2 DEF IsStrictPrefix
<1>4. cur <= Len(given) /\ given[cur] \in DOMAIN Entry /\ recursively
  BY DEF Branch, Visiting
<1>5. IsStrictPrefix(Real(given[cur]), c)
  <2>1. CASE p = given[cur] \/ p = Real(given[cur])
    BY <1>1, <1>3, <2>1
  <2>2. CASE IsStrictPrefix(Real(given[cur]), p)
    <3>1. Real(given[cur]) \in Seq(Nat)
      BY <1>4, Entries
    <3>2. IsPrefix(Real(given[cur]), c)
      BY <1>1, <1>2, <2>2, <3>1, PrefixTransitive DEF IsStrictPrefix
    <3>3. Len(Real(given[cur])) < Len(p)
      BY <1>1, <2>2, <3>1, StrictIsShorter
    <3>4. Real(given[cur]) # c
      BY <1>1, <1>2, <3>1, <3>3
    <3>. QED
      BY <3>2, <3>4 DEF IsStrictPrefix
  <2>. QED
    BY <2>1, <2>2 DEF StandsFor
<1>. QED
  BY <1>3, <1>4, <1>5 DEF StandsFor

(* The next entry of a recursive walk.                                       *)
LEMMA NextEntry ==
    ASSUME TypeOK, left # {}
    PROVE  /\ First(left) \in left
           /\ \A q \in left \ {First(left)} : Precedes(First(left), q)
<1>1. left \in SUBSET DOMAIN Entry /\ IsFiniteSet(DOMAIN Entry) /\ DOMAIN Entry \subseteq Seq(Nat)
  BY FileWalkAssumption, Entries DEF TypeOK
<1>2. IsFiniteSet(left)
  BY <1>1, FS_Subset
<1>3. left \in SUBSET Seq(Nat)
  BY <1>1
<1>. QED
  BY <1>2, <1>3, FirstIsFirst

OrderInv == LeftAsAsked /\ HandedAsAsked /\ StreamsAreFiles

LEMMA StepKeepsOrder ==
    ASSUME TypeOK, Branch, OrderInv, [Next]_vars
    PROVE  OrderInv'
<1>. USE DEF OrderInv
<1>0. /\ cur \in Nat /\ Len(handed) \in Nat
      /\ \A k \in 1..Len(handed) : handed[k].by \in Nat
      /\ \A p : Open(p) => p \in DOMAIN Entry
  BY GivenPaths, HandedTypes DEF Open, Stat, Lstat
<1>1. ASSUME UNCHANGED <<given, recursively, handed>>, NextPath
      PROVE  OrderInv'
  <2>1. LeftAsAsked'
    BY <1>0, <1>1 DEF NextPath, LeftAsAsked, Visiting
  <2>. QED
    BY <1>1, <2>1, HandedKept
<1>2. ASSUME UNCHANGED <<given, recursively, handed, cur>>,
             left' \subseteq left \/ pc \in {"path", "file", "list"},
             \A q \in left' : StandsFor(cur, q),
             \/ pc' = pc \/ pc' = "panic"
             \/ pc = "path" /\ pc' \in {"file", "walk", "list", "done"}
             \/ pc = "list" /\ pc' = "entries"
      PROVE  OrderInv'
  <2>1. pc \in {"path", "file", "list"} => \A k \in 1..Len(handed) : handed[k].by < cur
    BY DEF LeftAsAsked
  <2>2. pc' \in {"path", "file", "list"} => pc \in {"path", "file", "list"}
    BY <1>2
  <2>3. pc' \in {"entries", "walk"} => pc \in {"path", "list", "entries", "walk"}
    BY <1>2
  <2>4. ASSUME pc' \in {"entries", "walk"}, NEW k \in 1..Len(handed), handed[k].by = cur,
               NEW q \in left'
        PROVE  IF recursively THEN Precedes(handed[k].path, q) ELSE handed[k].path # q
    <3>1. pc \in {"entries", "walk"} /\ q \in left
      BY <1>0, <1>2, <2>1, <2>3, <2>4
    <3>. QED
      BY <2>4, <3>1 DEF LeftAsAsked
  <2>5. LeftAsAsked'
    BY <1>2, <2>1, <2>2, <2>4 DEF LeftAsAsked, StandsFor, Real
  <2>. QED
    BY <1>2, <2>5, HandedKept
<1>3. CASE StatPath
  <2>1. CASE NextPath
    BY <1>1, <1>3, <2>1 DEF StatPath
  <2>2. CASE ~NextPath
    <3>1. /\ pc = "path" /\ pc' \in {"file", "walk", "list"} /\ left' = {given[cur]}
          /\ UNCHANGED <<given, recursively, handed, cur>>
      BY <1>3, <2>2 DEF StatPath
    <3>. QED
      BY <1>2, <3>1 DEF StandsFor
  <2>. QED
    BY <2>1, <2>2
<1>4. CASE SingleFile
  <2> DEFINE p == given[cur]
  <2>1. /\ pc = "file" /\ left = {p} /\ ~IsDir(Real(p)) /\ p \in DOMAIN Entry
        /\ UNCHANGED <<given, recursively>>
    BY <1>4 DEF SingleFile, Branch, Visiting
  <2>2. CASE Hand(p) /\ NextPath
    <3>1. handed' = Append(handed, Handed(p))
      BY <2>2 DEF Hand, Handed
    <3>2. StreamsAreFiles'
      BY <2>1, <3>1, HandsAFile
    <3>3. HandedAsAsked' /\ \A k \in 1..Len(handed') : handed'[k].by <= cur
      BY <2>1, <3>1, HandsAsAsked DEF Visiting
    <3>4. handed' \in Seq(HandedType) /\ Len(handed') \in Nat
              /\ \A k \in 1..Len(handed') : handed'[k].by \in Nat
      <4>1. handed' \in Seq(HandedType)
        BY <2>1, <2>2, HandTypes DEF Branch, Visiting
      <4>2. \A k \in 1..Len(handed') : handed'[k] \in HandedType
        BY <4>1
      <4>. QED
        BY <4>1, <4>2 DEF HandedType
    <3>5. LeftAsAsked'
      BY <1>0, <2>2, <3>3, <3>4 DEF NextPath, LeftAsAsked, Visiting
    <3>. QED
      BY <3>2, <3>3, <3>5
  <2>3. CASE Panic
    <3>1. \A q \in left : StandsFor(cur, q)
      BY <2>1 DEF LeftAsAsked, Visiting
    <3>. QED
      BY <1>2, <2>1, <2>3, <3>1 DEF Panic
  <2>. QED
    BY <1>4, <2>2, <2>3 DEF SingleFile
<1>5. CASE ListDir
  <2>1. pc = "list" /\ UNCHANGED <<given, recursively>> /\ given[cur] \in DOMAIN Entry
        /\ \A q \in left : StandsFor(cur, q)
    BY <1>5 DEF ListDir, Branch, LeftAsAsked, Visiting
  <2>2. CASE NextPath /\ UNCHANGED handed
    BY <1>1, <2>1, <2>2
  <2>3. CASE Panic
    BY <1>2, <2>1, <2>3 DEF Panic
  <2>4. CASE pc' = "entries" /\ left' = Children(given[cur]) /\ UNCHANGED <<cur, handed, warned>>
    <3>1. ASSUME NEW q \in left'
          PROVE  StandsFor(cur, q)
      <4>1. Real(given[cur]) \in Seq(Nat) /\ q \in Seq(Nat)
        BY <2>1, <2>4, Entries, ChildrenTypes
      <4>2. Len(q) = Len(Real(given[cur])) + 1 /\ IsPrefix(Real(given[cur]), q)
        BY <2>4 DEF Children
      <4>3. Real(given[cur]) # q
        BY <4>1, <4>2
      <4>. QED
        BY <4>2, <4>3 DEF StandsFor, IsStrictPrefix
    <3>. QED
      BY <1>2, <2>1, <2>4, <3>1
  <2>. QED
    BY <1>5, <2>2, <2>3, <2>4 DEF ListDir
<1>6. ASSUME NEW p \in left, Open(p), ~IsDir(p), Hand(p), left' = left \ {p},
             pc \in {"entries", "walk"},
             recursively => \A q \in left \ {p} : Precedes(p, q),
             UNCHANGED <<pc, cur, given, recursively>>
      PROVE  OrderInv'
  <2>1. handed' = Append(handed, Handed(p)) /\ p \in DOMAIN Entry
    BY <1>0, <1>6 DEF Hand, Handed
  <2>2. StreamsAreFiles'
    BY <1>6, <2>1, HandsAFile
  <2>3. HandedAsAsked' /\ \A k \in 1..Len(handed') : handed'[k].by <= cur
    BY <1>6, <2>1, HandsAsAsked DEF Visiting
  <2>4. \A q \in left' : StandsFor(cur, q)
    BY <1>6 DEF LeftAsAsked, Visiting
  <2>5. ASSUME NEW k \in 1..Len(handed'), handed'[k].by = cur, NEW q \in left'
        PROVE  IF recursively THEN Precedes(handed'[k].path, q) ELSE handed'[k].path # q
    <3>1. CASE k \in 1..Len(handed)
      BY <1>6, <2>1, <2>5, <3>1, HandAppends DEF LeftAsAsked
    <3>2. CASE k = Len(handed) + 1
      <4>1. handed'[k].path = p
        BY <2>1, <3>2, HandAppends DEF Handed
      <4>. QED
        BY <1>6, <4>1
    <3>. QED
      BY <2>1, <3>1, <3>2, HandAppends
  <2>6. LeftAsAsked'
    BY <1>6, <2>3, <2>4, <2>5 DEF LeftAsAsked, StandsFor, Real
  <2>. QED
    BY <2>2, <2>3, <2>6
<1>7. CASE OpenEntry
  <2>1. pc = "entries" /\ UNCHANGED <<given, recursively>> /\ ~recursively
        /\ \A q \in left : StandsFor(cur, q)
    BY <1>7 DEF OpenEntry, Branch, LeftAsAsked, Visiting
  <2>2. PICK p \in left :
          \/ left' = left \ {p} /\ UNCHANGED <<pc, cur, handed, warned>>
          \/ /\ ~IsDir(p) /\ Open(p)
             /\ Hand(p) /\ left' = left \ {p} /\ UNCHANGED <<pc, cur, warned>>
          \/ Panic
    BY <1>7 DEF OpenEntry, SkippedEntry
  <2>3. CASE left' = left \ {p} /\ UNCHANGED <<pc, cur, handed, warned>>
    BY <1>2, <2>1, <2>3
  <2>4. CASE Panic
    BY <1>2, <2>1, <2>4 DEF Panic
  <2>. QED
    BY <1>6, <2>1, <2>2, <2>3, <2>4
<1>8. CASE WalkEntry
  <2> DEFINE p == First(left)
  <2>1. pc = "walk" /\ UNCHANGED <<given, recursively>> /\ recursively /\ left # {}
        /\ \A q \in left : StandsFor(cur, q)
    BY <1>8 DEF WalkEntry, Branch, LeftAsAsked, Visiting
  <2>2. p \in left /\ (\A q \in left \ {p} : Precedes(p, q)) /\ p \in DOMAIN Entry
    BY <2>1, NextEntry DEF TypeOK
  <2>3. VisitDir(p) \/ VisitFile(p) \/ EntryFailed(p)
    BY <1>8 DEF WalkEntry
  <2>. HIDE DEF p
  <2>4. CASE VisitFile(p)
    BY <1>6, <2>1, <2>2, <2>4 DEF VisitFile
  <2>5. CASE EntryFailed(p)
    BY <1>1, <2>1, <2>5 DEF EntryFailed
  <2>6. CASE VisitDir(p)
    <3>1. IsDir(p) /\ left' = (left \ {p}) \union Children(p) /\ UNCHANGED <<pc, cur, handed>>
      BY <2>6 DEF VisitDir
    <3>2. \A q \in left' : StandsFor(cur, q)
      BY <2>1, <2>2, <3>1, ChildrenAsked
    <3>3. ASSUME NEW k \in 1..Len(handed), handed[k].by = cur, NEW q \in left'
          PROVE  Precedes(handed[k].path, q)
      <4>1. CASE q \in left
        BY <2>1, <3>3, <4>1 DEF LeftAsAsked
      <4>2. CASE q \in Children(p)
        <5>1. Precedes(handed[k].path, p)
          BY <2>1, <2>2, <3>3 DEF LeftAsAsked
        <5>2. Precedes(p, q)
          BY <2>1, <2>2, <3>1, <4>2, ChildrenAsked DEF Precedes
        <5>3. handed[k].path \in Seq(Nat) /\ p \in Seq(Nat) /\ q \in Seq(Nat)
          <6>1. handed[k].path \in DOMAIN Entry /\ q \in DOMAIN Entry
            BY <4>2, ChildrenTypes, HandedTypes
          <6>. QED
            BY <2>2, <6>1, Entries
        <5>. QED
          BY <5>1, <5>2, <5>3, PrecedesTransitive
      <4>. QED
        BY <3>1, <4>1, <4>2
    <3>4. LeftAsAsked'
      BY <2>1, <3>1, <3>2, <3>3 DEF LeftAsAsked, StandsFor, Real
    <3>. QED
      BY <2>1, <3>1, <3>4, HandedKept
  <2>. QED
    BY <2>3, <2>4, <2>5, <2>6
<1>9. CASE PathDone
  BY <1>1, <1>9 DEF PathDone
<1>10. CASE Done
  <2>1. left = {}
    BY <1>10 DEF Done, TypeOK
  <2>. QED
    BY <1>2, <1>10, <2>1 DEF Done
<1>11. CASE RemovePath
  BY <1>11, HandedKept DEF RemovePath, LeftAsAsked, StandsFor, Real
<1>12. CASE UNCHANGED vars
  BY <1>12, HandedKept DEF vars, LeftAsAsked, StandsFor, Real
<1>. QED
  BY <1>3, <1>4, <1>5, <1>7, <1>8, <1>9, <1>10, <1>11, <1>12 DEF Next, Walk

-----------------------------------------------------------------------------
(* No file is lost quietly                                                   *)

LEMMA AncestorIsDir ==
    ASSUME NEW p \in DOMAIN Entry, NEW q \in DOMAIN Entry, IsStrictPrefix(q, p)
    PROVE  IsDir(q)
<1>1. p \in Seq(Nat) /\ q \in Seq(Nat) /\ Len(q) \in Nat /\ Len(q) >= 1
  BY Entries
<1>2. Len(q) < Len(p) /\ IsPrefix(q, p)
  BY <1>1, StrictIsShorter DEF IsStrictPrefix
<1>3. q = SubSeq(p, 1, Len(q))
  <2>1. \A j \in 1..Len(q) : q[j] = p[j]
    BY <1>1, <1>2, PrefixByIndex
  <2>2. /\ SubSeq(p, 1, Len(q)) \in Seq(Nat) /\ Len(SubSeq(p, 1, Len(q))) = Len(q)
        /\ \A j \in 1..Len(q) : SubSeq(p, 1, Len(q))[j] = p[j]
    BY <1>1, <1>2
  <2>. QED
    BY <1>1, <2>1, <2>2
<1>4. Len(q) \in 1..Len(p) - 1
  <2>1. Len(p) \in Nat
    BY <1>1
  <2>. QED
    BY <1>1, <1>2, <2>1
<1>5. IsDir(SubSeq(p, 1, Len(q)))
  BY <1>4, Entries
<1>. QED
  BY <1>3, <1>5

(* The entry of a directory through which the walk comes to a path below it.  *)
LEMMA ChildAbove ==
    ASSUME TypeOK, NEW p \in DOMAIN Entry, Lstat(p),
           NEW q \in DOMAIN Entry, IsDir(q), IsStrictPrefix(q, p)
    PROVE  \E c \in Children(q) : IsPrefix(c, p)
<1> DEFINE c == SubSeq(p, 1, Len(q) + 1)
<1>1. /\ p \in Seq(Nat) /\ q \in Seq(Nat) /\ Len(q) \in Nat /\ Len(p) \in Nat
      /\ Real(q) = q
  BY Entries DEF IsDir
<1>2. Len(q) < Len(p) /\ \A j \in 1..Len(q) : q[j] = p[j]
  BY <1>1, StrictIsShorter, PrefixByIndex DEF IsStrictPrefix
<1>3. c \in Seq(Nat) /\ Len(c) = Len(q) + 1 /\ \A j \in 1..Len(q) + 1 : c[j] = p[j]
  BY <1>1, <1>2
<1>4. c \in DOMAIN Entry
  <2>1. CASE Len(q) + 1 = Len(p)
    <3>1. c = p
      BY <1>1, <1>3, <2>1, SameByIndex
    <3>. QED
      BY <3>1
  <2>2. CASE Len(q) + 1 # Len(p)
    <3>1. Len(q) + 1 \in 1..Len(p) - 1
      BY <1>1, <1>2, <2>2
    <3>. QED
      BY <3>1, Entries
  <2>. QED
    BY <2>1, <2>2
<1>. HIDE DEF c
<1>5. IsPrefix(c, p) /\ IsPrefix(q, c)
  <2>1. Len(c) <= Len(p) /\ \A j \in 1..Len(c) : c[j] = p[j]
    BY <1>1, <1>2, <1>3
  <2>2. Len(q) <= Len(c)
    BY <1>1, <1>3
  <2>3. \A j \in 1..Len(q) : q[j] = c[j]
    <3>1. \A j \in 1..Len(q) : j \in 1..Len(q) + 1
      BY <1>1
    <3>. QED
      BY <1>2, <1>3, <3>1
  <2>. QED
    BY <1>1, <1>3, <2>1, <2>2, <2>3, PrefixByIndex
<1>6. Lstat(c)
  <2>1. ASSUME NEW g \in gone, IsPrefix(g, c)
        PROVE  FALSE
    <3>1. g \in Seq(Nat)
      BY Entries DEF TypeOK
    <3>2. IsPrefix(g, p)
      BY <1>1, <1>3, <1>5, <2>1, <3>1, PrefixTransitive
    <3>. QED
      BY <3>2 DEF Lstat
  <2>. QED
    BY <1>4, <2>1 DEF Lstat
<1>. QED
  BY <1>1, <1>3, <1>4, <1>5, <1>6 DEF Children

(* What is handed over stays so; what is taken care of stays so.             *)
LEMMA HandedByGrows ==
    ASSUME TypeOK, NEW p, handed' = Append(handed, Handed(p))
    PROVE  \A i : /\ HandedBy(i) \subseteq HandedBy(i)'
                  /\ i = cur => Real(p) \in HandedBy(i)'
<1>1. ASSUME NEW i, NEW r \in HandedBy(i)
      PROVE  r \in HandedBy(i)'
  <2>1. PICK k \in 1..Len(handed) : handed[k].by = i /\ r = Real(handed[k].path)
    BY <1>1 DEF HandedBy
  <2>2. k \in 1..Len(handed') /\ handed'[k] = handed[k]
    BY <2>1, HandAppends
  <2>. QED
    BY <2>1, <2>2 DEF HandedBy, Real
<1>2. ASSUME NEW i, i = cur
      PROVE  Real(p) \in HandedBy(i)'
  <2>1. Len(handed) + 1 \in 1..Len(handed') /\ handed'[Len(handed) + 1] = Handed(p)
    BY HandAppends
  <2>2. Handed(p).path = p /\ Handed(p).by = i
    BY <1>2 DEF Handed
  <2>. QED
    BY <2>1, <2>2 DEF HandedBy, Real
<1>. QED
  BY <1>1, <1>2

LEMMA TakenStays ==
    ASSUME UNCHANGED <<given, recursively>>, warned \subseteq warned', gone \subseteq gone',
           \A i : HandedBy(i) \subseteq HandedBy(i)'
    PROVE  \A i : Taken(i) => Taken(i)'
<1>1. \A q : Lstat(q)' => Lstat(q)
  BY DEF Lstat
<1>2. \A i : FilesAt(i)' = FilesAt(i)
  BY DEF FilesAt, StandsFor, Real
<1>. QED
  BY <1>1, <1>2 DEF Taken, LinkedDir, IsDir, Real

LEMMA PathEnds ==
    ASSUME TypeOK, NoneLost, UNCHANGED <<given, recursively, gone>>, warned \subseteq warned',
           \A i : HandedBy(i) \subseteq HandedBy(i)',
           NextPath, \A i : i = cur => Taken(i)'
    PROVE  NoneLost'
<1>1. \A i \in 1..cur' - 1 : i \in 1..cur - 1 \/ i = cur
  BY GivenPaths DEF NextPath
<1>2. \A i \in 1..cur' - 1 : Taken(i)'
  BY <1>1, TakenStays DEF NoneLost
<1>. QED
  BY <1>2 DEF NoneLost, NextPath

(* The files of a path that is a directory are in it, or below it.            *)
LEMMA FilesInDir ==
    ASSUME TypeOK, Branch, pc \in Visiting, IsDir(Real(given[cur])), NEW p \in FilesAt(cur)
    PROVE  /\ p \in DOMAIN Entry /\ Real(p) = p /\ ~IsDir(p)
           /\ IsStrictPrefix(Real(given[cur]), p)
           /\ recursively \/ Len(p) = Len(Real(given[cur])) + 1
<1>1. p \in DOMAIN Entry /\ Entry[p].kind = "file" /\ StandsFor(cur, p)
  BY DEF FilesAt
<1>2. Real(p) = p /\ ~IsDir(p)
  BY <1>1, Entries DEF IsDir
<1>. QED
  BY <1>1, <1>2 DEF StandsFor

LEMMA StepKeepsNoneLost ==
    ASSUME TypeOK, TypeOK', Branch, NoneLost, [Next]_vars
    PROVE  NoneLost'
<1>0. \A p : Open(p) => p \in DOMAIN Entry
  BY DEF Open, Stat, Lstat
<1>1. ASSUME UNCHANGED <<given, recursively, gone, handed>>, NextPath,
             cur \in warned' \/ Taken(cur), warned \subseteq warned'
      PROVE  NoneLost'
  <2>1. \A i : HandedBy(i)' = HandedBy(i)
    BY <1>1 DEF HandedBy, Real
  <2>2. \A i : i = cur => Taken(i)'
    BY <1>1, <2>1, TakenStays DEF Taken
  <2>. QED
    BY <1>1, <2>1, <2>2, PathEnds
<1>2. ASSUME UNCHANGED <<given, recursively, cur, warned>>, gone \subseteq gone',
             \A i : HandedBy(i) \subseteq HandedBy(i)',
             pc' = "entries" =>
                \A p \in FilesAt(cur) : Lstat(p) => \A i : i = cur => p \in HandedBy(i)' \union left',
             pc' = "walk" /\ ~LinkedDir(given[cur]) =>
                \A p \in FilesAt(cur) : Lstat(p) =>
                   \/ \A i : i = cur => p \in HandedBy(i)'
                   \/ \E q \in left' : IsPrefix(q, p)
      PROVE  NoneLost'
  <2>1. \A i \in 1..cur' - 1 : Taken(i)'
    BY <1>2, TakenStays DEF NoneLost
  <2>2. \A q : Lstat(q)' => Lstat(q)
    BY <1>2 DEF Lstat
  <2>3. FilesAt(cur)' = FilesAt(cur)
    BY <1>2 DEF FilesAt, StandsFor, Real
  <2>. QED
    BY <1>2, <2>1, <2>2, <2>3 DEF NoneLost, LinkedDir, Real, IsDir
<1>3. ASSUME UNCHANGED <<given, recursively, cur, warned, handed>>, gone \subseteq gone',
             \/ pc' \notin {"entries", "walk"}
             \/ pc' = pc /\ left' = left
      PROVE  NoneLost'
  <2>1. \A i : HandedBy(i)' = HandedBy(i)
    BY <1>3 DEF HandedBy, Real
  <2>. QED
    BY <1>2, <1>3, <2>1 DEF NoneLost
<1>4. CASE StatPath
  <2>1. CASE Warn /\ NextPath
    BY <1>1, <1>4, <2>1 DEF StatPath, Warn
  <2>2. CASE ~(Warn /\ NextPath)
    <3>1. /\ pc' = (IF ~IsDir(Real(given[cur])) THEN "file"
                    ELSE IF recursively THEN "walk" ELSE "list")
          /\ left' = {given[cur]} /\ given[cur] \in DOMAIN Entry
          /\ UNCHANGED <<given, recursively, cur, warned, handed, gone>>
      BY <1>4, <2>2 DEF StatPath, Stat, Lstat
    <3>2. ASSUME pc' = "walk", ~LinkedDir(given[cur]), NEW p \in FilesAt(cur)
          PROVE  IsPrefix(given[cur], p)
      <4>1. given[cur] = Real(given[cur]) /\ IsDir(given[cur])
        BY <3>1, <3>2 DEF LinkedDir
      <4>2. p \in DOMAIN Entry /\ Entry[p].kind = "file" /\ StandsFor(cur, p)
        BY DEF FilesAt
      <4>. QED
        BY <4>1, <4>2 DEF StandsFor, IsDir, IsStrictPrefix
    <3>3. \A i : HandedBy(i)' = HandedBy(i)
      BY <3>1 DEF HandedBy, Real
    <3>. QED
      BY <1>2, <3>1, <3>2, <3>3
  <2>. QED
    BY <2>1, <2>2
<1>5. CASE SingleFile
  <2> DEFINE top == Real(given[cur])
  <2>1. /\ ~IsDir(top) /\ given[cur] \in DOMAIN Entry /\ cur <= Len(given) /\ pc = "file"
        /\ UNCHANGED <<given, recursively, gone>>
    BY <1>5 DEF SingleFile, Branch, Visiting
  <2>2. CASE Panic
    BY <1>3, <2>1, <2>2 DEF Panic
  <2>3. CASE Hand(given[cur]) /\ NextPath /\ UNCHANGED warned
    <3>1. handed' = Append(handed, Handed(given[cur]))
      BY <2>3 DEF Hand, Handed
    <3>2. \A i : /\ HandedBy(i) \subseteq HandedBy(i)'
                 /\ i = cur => top \in HandedBy(i)'
      BY <3>1, HandedByGrows
    <3>3. ASSUME NEW p \in FilesAt(cur)
          PROVE  p = top
      <4>1. p \in DOMAIN Entry /\ Entry[p].kind = "file" /\ StandsFor(cur, p)
        BY DEF FilesAt
      <4>2. Real(p) = p /\ top \in DOMAIN Entry
        BY <2>1, <4>1, Entries
      <4>3. ~IsStrictPrefix(top, p)
        BY <2>1, <4>1, <4>2, AncestorIsDir
      <4>. QED
        BY <4>1, <4>2, <4>3 DEF StandsFor
    <3>4. FilesAt(cur) \subseteq {top} /\ \A i : FilesAt(i)' = FilesAt(i)
      BY <2>1, <3>3 DEF FilesAt, StandsFor, Real
    <3>5. \A i : i = cur => Taken(i)'
      BY <3>2, <3>4 DEF Taken
    <3>. QED
      BY <2>1, <2>3, <3>2, <3>5, PathEnds
  <2>. QED
    BY <1>5, <2>2, <2>3 DEF SingleFile
<1>6. CASE ListDir
  <2>1. /\ pc = "list" /\ ~recursively /\ IsDir(Real(given[cur]))
        /\ UNCHANGED <<given, recursively, gone>>
    BY <1>6 DEF ListDir, Branch
  <2>2. CASE Warn /\ NextPath /\ UNCHANGED handed
    BY <1>1, <2>1, <2>2 DEF Warn
  <2>3. CASE Panic
    BY <1>3, <2>1, <2>3 DEF Panic
  <2>4. CASE pc' = "entries" /\ left' = Children(given[cur]) /\ UNCHANGED <<cur, handed, warned>>
    <3>1. ASSUME NEW p \in FilesAt(cur), Lstat(p)
          PROVE  p \in Children(given[cur])
      BY <2>1, <3>1, FilesInDir DEF Children, IsStrictPrefix, Visiting
    <3>2. \A i : HandedBy(i)' = HandedBy(i)
      BY <2>4 DEF HandedBy, Real
    <3>. QED
      BY <1>2, <2>1, <2>4, <3>1, <3>2
  <2>. QED
    BY <1>6, <2>2, <2>3, <2>4 DEF ListDir
<1>7. CASE OpenEntry
  <2>1. /\ pc = "entries" /\ IsDir(Real(given[cur]))
        /\ UNCHANGED <<given, recursively, gone>>
    BY <1>7 DEF OpenEntry, Branch
  <2>2. PICK q \in left :
          \/ IsDir(q) /\ left' = left \ {q} /\ UNCHANGED <<pc, cur, handed, warned>>
          \/ Hand(q) /\ left' = left \ {q} /\ UNCHANGED <<pc, cur, warned>>
          \/ Panic
    BY <1>7 DEF OpenEntry, SkippedEntry
  <2>3. \A p \in FilesAt(cur) : Real(p) = p /\ ~IsDir(p)
    BY <2>1, FilesInDir DEF Visiting
  <2>4. \A p \in FilesAt(cur) : Lstat(p) => p \in HandedBy(cur) \union left
    BY <2>1 DEF NoneLost
  <2>5. CASE IsDir(q) /\ left' = left \ {q} /\ UNCHANGED <<pc, cur, handed, warned>>
    <3>1. \A i : HandedBy(i)' = HandedBy(i)
      BY <2>5 DEF HandedBy, Real
    <3>. QED
      BY <1>2, <2>1, <2>3, <2>4, <2>5, <3>1
  <2>6. CASE Hand(q) /\ left' = left \ {q} /\ UNCHANGED <<pc, cur, warned>>
    <3>1. handed' = Append(handed, Handed(q))
      BY <2>6 DEF Hand, Handed
    <3>2. \A i : /\ HandedBy(i) \subseteq HandedBy(i)'
                 /\ i = cur => Real(q) \in HandedBy(i)'
      BY <3>1, HandedByGrows
    <3>3. \A p \in FilesAt(cur) : Lstat(p) => \A i : i = cur => p \in HandedBy(i)' \union left'
      BY <2>3, <2>4, <2>6, <3>2
    <3>. QED
      BY <1>2, <2>1, <2>6, <3>2, <3>3
  <2>7. CASE Panic
    BY <1>3, <2>1, <2>7 DEF Panic
  <2>. QED
    BY <2>2, <2>5, <2>6, <2>7
<1>8. CASE WalkEntry
  <2> DEFINE q == First(left)
  <2>1. /\ pc = "walk" /\ IsDir(Real(given[cur])) /\ left # {}
        /\ UNCHANGED <<given, recursively, gone>>
    BY <1>8 DEF WalkEntry, Branch
  <2>2. q \in left /\ q \in DOMAIN Entry
    BY <2>1, NextEntry DEF TypeOK
  <2>3. VisitDir(q) \/ VisitFile(q) \/ EntryFailed(q)
    BY <1>8 DEF WalkEntry
  <2>. HIDE DEF q
  <2>4. \A p \in FilesAt(cur) : p \in DOMAIN Entry /\ Real(p) = p /\ ~IsDir(p)
    BY <2>1, FilesInDir DEF Visiting
  <2>5. ~LinkedDir(given[cur]) => \A p \in FilesAt(cur) :
            Lstat(p) => p \in HandedBy(cur) \/ \E r \in left : IsPrefix(r, p)
    BY <2>1 DEF NoneLost
  <2>6. CASE EntryFailed(q)
    BY <1>1, <2>1, <2>6 DEF EntryFailed, Warn
  <2>7. CASE VisitDir(q)
    <3>1. /\ IsDir(q) /\ left' = (left \ {q}) \union Children(q)
          /\ UNCHANGED <<pc, cur, handed, warned>>
      BY <2>7 DEF VisitDir
    <3>2. \A i : HandedBy(i)' = HandedBy(i)
      BY <3>1 DEF HandedBy, Real
    <3>3. ASSUME ~LinkedDir(given[cur]), NEW p \in FilesAt(cur), Lstat(p), p \notin HandedBy(cur)
          PROVE  \E r \in left' : IsPrefix(r, p)
      <4>1. PICK r \in left : IsPrefix(r, p)
        BY <2>5, <3>3
      <4>2. CASE r = q
        <5>1. IsStrictPrefix(q, p)
          BY <2>4, <3>1, <4>1, <4>2 DEF IsStrictPrefix
        <5>. QED
          BY <2>2, <2>4, <3>1, <3>3, <5>1, ChildAbove
      <4>. QED
        BY <3>1, <4>1, <4>2
    <3>. QED
      BY <1>2, <2>1, <3>1, <3>2, <3>3
  <2>8. CASE VisitFile(q)
    <3>1. ~IsDir(q) /\ Hand(q) /\ left' = left \ {q} /\ UNCHANGED <<pc, cur, warned>>
      BY <2>8 DEF VisitFile
    <3>2. handed' = Append(handed, Handed(q))
      BY <3>1 DEF Hand, Handed
    <3>3. \A i : /\ HandedBy(i) \subseteq HandedBy(i)'
                 /\ i = cur => Real(q) \in HandedBy(i)'
      BY <3>2, HandedByGrows
    <3>4. ASSUME ~LinkedDir(given[cur]), NEW p \in FilesAt(cur), Lstat(p)
          PROVE  (\A i : i = cur => p \in HandedBy(i)') \/ \E r \in left' : IsPrefix(r, p)
      <4>1. CASE p \in HandedBy(cur)
        BY <3>3, <4>1
      <4>2. CASE p \notin HandedBy(cur)
        <5>1. PICK r \in left : IsPrefix(r, p)
          BY <2>5, <3>4, <4>2
        <5>2. CASE r = q
          <6>1. q = p
            BY <2>2, <2>4, <3>1, <5>1, <5>2, AncestorIsDir DEF IsStrictPrefix
          <6>. QED
            BY <2>4, <3>3, <6>1
        <5>. QED
          BY <3>1, <5>1, <5>2
      <4>. QED
        BY <4>1, <4>2
    <3>. QED
      BY <1>2, <2>1, <3>1, <3>3, <3>4
  <2>. QED
    BY <2>3, <2>6, <2>7, <2>8
<1>9. CASE PathDone
  <2>1. /\ left = {} /\ pc \in {"entries", "walk"} /\ NextPath
        /\ UNCHANGED <<given, recursively, handed, warned, gone>>
    BY <1>9 DEF PathDone
  <2>2. Taken(cur)
    BY <2>1 DEF NoneLost, Taken, Branch
  <2>. QED
    BY <1>1, <2>1, <2>2
<1>10. CASE Done
  BY <1>3, <1>10 DEF Done
<1>11. CASE RemovePath
  BY <1>3, <1>11 DEF RemovePath
<1>12. CASE UNCHANGED vars
  BY <1>3, <1>12 DEF vars
<1>. QED
  BY <1>4, <1>5, <1>6, <1>7, <1>8, <1>9, <1>10, <1>11, <1>12 DEF Next, Walk

LEMMA EveryPathTaken ==
    ASSUME TypeOK, Branch, NoneLost
    PROVE  NoFileLostQuietly
<1>. SUFFICES ASSUME pc = "done", NEW i \in 1..Len(given)
              PROVE  Taken(i)
  BY DEF NoFileLostQuietly, AllTaken, Taken
<1>1. cur - 1 = Len(given)
  BY GivenPaths DEF Branch
<1>. QED
  BY <1>1 DEF NoneLost

LEMMA WalkStarts == Init => WalkInv
<1>. SUFFICES ASSUME Init PROVE WalkInv
  OBVIOUS
<1>1. /\ pc = "path" /\ cur = 1 /\ Len(handed) = 0
  BY DEF Init
<1>2. Branch /\ LeftAsAsked /\ NoneLost /\ StreamsAreFiles /\ HandedAsAsked
          /\ PanicsOnlyUnopened
  BY <1>1 DEF Branch, Visiting, LeftAsAsked, NoneLost, StreamsAreFiles, HandedAsAsked,
              PanicsOnlyUnopened
<1>. QED
  BY <1>2, InitTypes DEF WalkInv

LEMMA WalkGoesOn == WalkInv /\ [Next]_vars => WalkInv'
<1>. SUFFICES ASSUME WalkInv, [Next]_vars PROVE WalkInv'
  OBVIOUS
<1>1. TypeOK' /\ Branch' /\ PanicsOnlyUnopened'
  BY StepKeepsType, StepKeepsBranch DEF WalkInv
<1>2. OrderInv'
  BY StepKeepsOrder DEF WalkInv, OrderInv
<1>3. NoneLost'
  BY <1>1, StepKeepsNoneLost DEF WalkInv
<1>. QED
  BY <1>1, <1>2, <1>3 DEF WalkInv, OrderInv

(* A step hands over one file, and goes on, or none.                          *)
LEMMA WalkHandsOne ==
    WalkInv /\ Walk =>
        /\ given' = given
        /\ Len(handed) \in Nat
        /\ handed' # handed =>
              /\ pc' \notin {"done", "panic"}
              /\ Len(handed') = Len(handed) + 1
              /\ \A k \in 1..Len(handed) : handed'[k] = handed[k]
              /\ handed'[Len(handed')].path \in DOMAIN Entry
              /\ handed'[Len(handed')].name = Last(handed'[Len(handed')].path)
<1>. SUFFICES ASSUME WalkInv, Walk
              PROVE  /\ given' = given
                     /\ Len(handed) \in Nat
                     /\ handed' # handed =>
                           /\ pc' \notin {"done", "panic"}
                           /\ Len(handed') = Len(handed) + 1
                           /\ \A k \in 1..Len(handed) : handed'[k] = handed[k]
                           /\ handed'[Len(handed')].path \in DOMAIN Entry
                           /\ handed'[Len(handed')].name = Last(handed'[Len(handed')].path)
  OBVIOUS
<1>1. given' = given
  BY DEF Walk, StatPath, SingleFile, ListDir, OpenEntry, WalkEntry, PathDone, Done
<1>2. Len(handed) \in Nat
  BY GivenPaths DEF WalkInv
<1>3. ASSUME NEW p, Hand(p), Open(p)
      PROVE  /\ Len(handed') = Len(handed) + 1
             /\ \A k \in 1..Len(handed) : handed'[k] = handed[k]
             /\ handed'[Len(handed')].path \in DOMAIN Entry
             /\ handed'[Len(handed')].name = Last(handed'[Len(handed')].path)
  <2>1. handed' = Append(handed, Handed(p)) /\ p \in DOMAIN Entry
    BY <1>3 DEF Hand, Handed, Open, Stat, Lstat
  <2>. QED
    BY <2>1, HandAppends DEF WalkInv, Handed
<1>4. ASSUME handed' # handed
      PROVE  pc' \notin {"done", "panic"} /\ \E p : Hand(p) /\ Open(p)
  <2>1. CASE SingleFile
    BY <1>4, <2>1 DEF SingleFile, NextPath, Panic
  <2>2. CASE OpenEntry
    BY <1>4, <2>2 DEF OpenEntry, Panic
  <2>3. CASE WalkEntry
    BY <1>4, <2>3 DEF WalkEntry, VisitDir, VisitFile, EntryFailed
  <2>4. CASE StatPath \/ ListDir \/ PathDone \/ Done
    BY <1>4, <2>4 DEF StatPath, ListDir, PathDone, Done, Panic
  <2>. QED
    BY <2>1, <2>2, <2>3, <2>4 DEF Walk
<1>. QED
  BY <1>1, <1>2, <1>3, <1>4

LEMMA WalkTakesAll == WalkInv /\ pc = "done" => AllTaken
  BY EveryPathTaken DEF WalkInv, NoFileLostQuietly

-----------------------------------------------------------------------------
(* The theorems                                                              *)

(* What the properties rest on: what of a path is still to be visited is      *)
(* asked for, comes after what was handed over, and has every file of the     *)
(* path that was not yet.                                                    *)
THEOREM Invariance == Spec => []WalkInv
  BY WalkStarts, WalkGoesOn, PTL DEF Spec

(* reader.go looks at one path after another, and takes nothing of one to the *)
(* next.                                                                     *)
THEOREM TypeCorrect == Spec => []TypeOK
<1>1. WalkInv => TypeOK
  BY DEF WalkInv
<1>. QED
  BY <1>1, Invariance, PTL

(* The warning and continue of reader.go lose no file of another path, and    *)
(* none at all quietly, in any file system and whatever is removed meanwhile. *)
THEOREM NoFileLost == Spec => []NoFileLostQuietly
<1>1. WalkInv => NoFileLostQuietly
  BY EveryPathTaken DEF WalkInv
<1>. QED
  BY <1>1, Invariance, PTL

(* IsDir keeps directories from the decoder, which would not end on one, but  *)
(* for those behind a link.                                                  *)
THEOREM OnlyFilesRead == Spec => []StreamsAreFiles
<1>1. WalkInv => StreamsAreFiles
  BY DEF WalkInv
<1>. QED
  BY <1>1, Invariance, PTL

(* walkFunc is given what was asked for, once for each path, path after path  *)
(* and, where filepath.WalkDir chooses the order, in lexical order.           *)
THEOREM OnlyAskedFor == Spec => []HandedAsAsked
<1>1. WalkInv => HandedAsAsked
  BY DEF WalkInv
<1>. QED
  BY <1>1, Invariance, PTL

(* The warnings of reader.go that ask a nil file for its name are the only     *)
(* panics, and none is within a recursive walk.                               *)
THEOREM PanicsAreUnopened == Spec => []PanicsOnlyUnopened
<1>1. WalkInv => PanicsOnlyUnopened
  BY DEF WalkInv
<1>. QED
  BY <1>1, Invariance, PTL
===============================================================================
