----------------------------- MODULE ValuesProofs -----------------------------
(***************************************************************************)
(* Proofs about Values: whatever schemas and values are added and merged,    *)
(* the two structures stay nested structures, and what adding and merging    *)
(* leave alone.                                                              *)
(***************************************************************************)
EXTENDS Values, TLAPS

Paths(L) == Seq(L) \ {<< >>}
Nodes(O) == [kind : Kinds, of : O, required : BOOLEAN]

(* A nested structure over labels L whose nodes know origins O.               *)
IsTreeOver(tree, L, O) ==
    /\ DOMAIN tree \subseteq Paths(L)
    /\ tree \in [DOMAIN tree -> Nodes(O)]
    /\ \A p \in DOMAIN tree : \A q \in StrictPrefixes(p) :
          q \in DOMAIN tree /\ tree[q].kind = "struct"

(* Values whose schema knows origins S and whose values know origins O.       *)
IsValuesOver(v, L, S, O) ==
    /\ v = [config |-> v.config, values |-> v.values, outcome |-> v.outcome]
    /\ v.outcome \in {"ok", "error", "panic"}
    /\ IsTreeOver(v.config, L, S)
    /\ IsTreeOver(v.values, L, O)

-----------------------------------------------------------------------------
(* Lemmas on paths                                                           *)

(* The first k labels of a path, one by one.                                  *)
LEMMA FirstLabels ==
    ASSUME NEW L, NEW p \in Seq(L), NEW k \in 0..Len(p)
    PROVE  /\ SubSeq(p, 1, k) \in Seq(L)
           /\ Len(SubSeq(p, 1, k)) = k
           /\ \A i \in 1..k : SubSeq(p, 1, k)[i] = p[i]
  OBVIOUS

LEMMA EqualLabels ==
    ASSUME NEW L, NEW p \in Seq(L), NEW q \in Seq(L), Len(p) = Len(q),
           \A i \in 1..Len(p) : p[i] = q[i]
    PROVE  p = q
  OBVIOUS

LEMMA PrefixesArePaths ==
    ASSUME NEW L, NEW p \in Seq(L), NEW q \in StrictPrefixes(p)
    PROVE  /\ q \in Paths(L)
           /\ Len(q) < Len(p)
           /\ \A i \in 1..Len(q) : q[i] = p[i]
<1>1. PICK k \in 1..Len(p) - 1 : q = SubSeq(p, 1, k)
  BY DEF StrictPrefixes
<1>2. k \in 0..Len(p) /\ k > 0 /\ k < Len(p)
  OBVIOUS
<1>3. q \in Seq(L) /\ Len(q) = k /\ \A i \in 1..k : q[i] = p[i]
  BY <1>1, <1>2, FirstLabels
<1>4. q # << >>
  BY <1>2, <1>3
<1>. QED
  BY <1>2, <1>3, <1>4 DEF Paths

LEMMA PrefixByLabels ==
    ASSUME NEW L, NEW p \in Seq(L), NEW q \in Paths(L), Len(q) < Len(p),
           \A i \in 1..Len(q) : q[i] = p[i]
    PROVE  q \in StrictPrefixes(p)
<1> DEFINE k == Len(q)
<1>1. q \in Seq(L) /\ q # << >> /\ k \in Nat
  BY DEF Paths
<1>2. k \in 1..Len(p) - 1 /\ k \in 0..Len(p)
  BY <1>1
<1>3. SubSeq(p, 1, k) \in Seq(L) /\ Len(SubSeq(p, 1, k)) = k
      /\ \A i \in 1..k : SubSeq(p, 1, k)[i] = p[i]
  BY <1>2, FirstLabels
<1>4. SubSeq(p, 1, k) = q
  BY <1>1, <1>3, EqualLabels
<1>. QED
  BY <1>2, <1>4 DEF StrictPrefixes

(* A prefix of a prefix is a prefix.                                          *)
LEMMA PrefixesNest ==
    ASSUME NEW L, NEW p \in Seq(L), NEW q \in StrictPrefixes(p), NEW r \in StrictPrefixes(q)
    PROVE  r \in StrictPrefixes(p)
<1>1. q \in Seq(L) /\ Len(q) < Len(p) /\ \A i \in 1..Len(q) : q[i] = p[i]
  BY PrefixesArePaths DEF Paths
<1>2. r \in Paths(L) /\ Len(r) < Len(q) /\ \A i \in 1..Len(r) : r[i] = q[i]
  BY <1>1, PrefixesArePaths
<1>3. Len(r) < Len(p) /\ \A i \in 1..Len(r) : r[i] = p[i]
  BY <1>1, <1>2 DEF Paths
<1>. QED
  BY <1>2, <1>3, PrefixByLabels

(* SequencesExt's IsStrictPrefix.                                             *)
LEMMA StrictPrefixMeans ==
    ASSUME NEW L, NEW p \in Seq(L), NEW q \in Paths(L)
    PROVE  IsStrictPrefix(q, p) <=> q \in StrictPrefixes(p)
<1>1. q \in Seq(L) /\ Len(q) \in Nat /\ Len(p) \in Nat
  BY DEF Paths
<1>2. ASSUME IsStrictPrefix(q, p)
      PROVE  q \in StrictPrefixes(p)
  <2>1. Len(q) <= Len(p) /\ SubSeq(q, 1, Len(q)) = SubSeq(p, 1, Len(q)) /\ q # p
    BY <1>2 DEF IsStrictPrefix, IsPrefix
  <2>2. \A i \in 1..Len(q) : q[i] = p[i]
    BY <1>1, <2>1, FirstLabels
  <2>3. Len(q) # Len(p)
    BY <1>1, <2>1, <2>2, EqualLabels
  <2>. QED
    BY <1>1, <2>1, <2>2, <2>3, PrefixByLabels
<1>3. ASSUME q \in StrictPrefixes(p)
      PROVE  IsStrictPrefix(q, p)
  <2>1. Len(q) < Len(p) /\ \A i \in 1..Len(q) : q[i] = p[i]
    BY <1>3, PrefixesArePaths
  <2>2. Len(q) \in 0..Len(p) /\ Len(q) \in 0..Len(q)
    BY <1>1, <2>1
  <2>3. /\ SubSeq(q, 1, Len(q)) \in Seq(L) /\ Len(SubSeq(q, 1, Len(q))) = Len(q)
        /\ \A i \in 1..Len(q) : SubSeq(q, 1, Len(q))[i] = q[i]
    BY <1>1, <2>2, FirstLabels
  <2>4. /\ SubSeq(p, 1, Len(q)) \in Seq(L) /\ Len(SubSeq(p, 1, Len(q))) = Len(q)
        /\ \A i \in 1..Len(q) : SubSeq(p, 1, Len(q))[i] = p[i]
    BY <1>1, <2>2, FirstLabels
  <2>5. SubSeq(q, 1, Len(q)) = SubSeq(p, 1, Len(q))
    BY <1>1, <2>1, <2>3, <2>4, EqualLabels
  <2>. QED
    BY <1>1, <2>1, <2>5 DEF IsStrictPrefix, IsPrefix
<1>. QED
  BY <1>2, <1>3

-----------------------------------------------------------------------------
(* setNestedCueField and unstructured.SetNestedField                         *)

PutDomain(tree, path) ==
    {q \in DOMAIN tree : ~IsStrictPrefix(path, q)} \union StrictPrefixes(path) \union {path}

(* What Put leaves at each path.                                              *)
LEMMA PutPaths ==
    ASSUME NEW tree, NEW path, NEW node
    PROVE  DOMAIN Put(tree, path, node) = PutDomain(tree, path)
  BY DEF Put, PutDomain

LEMMA PutSets ==
    ASSUME NEW tree, NEW path, NEW node
    PROVE  Put(tree, path, node)[path] =
               IF path \in DOMAIN tree
               THEN [node EXCEPT !.required = tree[path].required] ELSE node
<1>1. path \in PutDomain(tree, path)
  BY DEF PutDomain
<1>2. CASE path \in DOMAIN tree
  BY <1>1, <1>2 DEF Put, PutDomain
<1>3. CASE path \notin DOMAIN tree
  BY <1>1, <1>3 DEF Put, PutDomain
<1>. QED
  BY <1>2, <1>3

LEMMA PutKeeps ==
    ASSUME NEW tree, NEW path, NEW node, NEW q \in PutDomain(tree, path),
           q # path, q \in DOMAIN tree
    PROVE  Put(tree, path, node)[q] = tree[q]
  BY DEF Put, PutDomain

LEMMA PutCreates ==
    ASSUME NEW tree, NEW path, NEW node, NEW q \in PutDomain(tree, path),
           q # path, q \notin DOMAIN tree
    PROVE  Put(tree, path, node)[q] = Node("struct", << >>, node.required)
  BY DEF Put, PutDomain

(* values.go 94-129: where nothing without fields is in the way, setting the  *)
(* node at a path leaves a nested structure.                                  *)
THEOREM PutKeepsTree ==
    ASSUME NEW L, NEW O, << >> \in O, NEW tree, IsTreeOver(tree, L, O),
           NEW path \in Paths(L), NEW node \in Nodes(O), ~Blocked(tree, path)
    PROVE  IsTreeOver(Put(tree, path, node), L, O)
<1> DEFINE new == Put(tree, path, node)
           D == PutDomain(tree, path)
<1>1. path \in Seq(L)
  BY DEF Paths
<1>2. \A q \in StrictPrefixes(path) : q \in Paths(L) /\ q # path
  BY <1>1, PrefixesArePaths
<1>3. D \subseteq Paths(L)
  BY <1>2 DEF PutDomain, IsTreeOver
<1>4. DOMAIN new = D
  BY PutPaths
<1>5. \A q \in D : new[q] \in Nodes(O)
  <2>. SUFFICES ASSUME NEW q \in D PROVE new[q] \in Nodes(O)
    OBVIOUS
  <2>1. CASE q = path /\ path \in DOMAIN tree
    <3>1. new[q] = [node EXCEPT !.required = tree[path].required]
      BY <2>1, PutSets
    <3>2. tree[path] \in Nodes(O)
      BY <2>1 DEF IsTreeOver
    <3>. QED
      BY <3>1, <3>2 DEF Nodes
  <2>2. CASE q = path /\ path \notin DOMAIN tree
    BY <2>2, PutSets
  <2>3. CASE q # path /\ q \in DOMAIN tree
    <3>1. new[q] = tree[q]
      BY <2>3, PutKeeps
    <3>. QED
      BY <2>3, <3>1 DEF IsTreeOver
  <2>4. CASE q # path /\ q \notin DOMAIN tree
    <3>1. new[q] = Node("struct", << >>, node.required)
      BY <2>4, PutCreates
    <3>. QED
      BY <3>1 DEF Node, Nodes, Kinds
  <2>. QED
    BY <2>1, <2>2, <2>3, <2>4
<1>6. \A r \in StrictPrefixes(path) : r \in D /\ new[r].kind = "struct"
  <2>. SUFFICES ASSUME NEW r \in StrictPrefixes(path)
                PROVE  r \in D /\ new[r].kind = "struct"
    OBVIOUS
  <2>1. r \in D /\ r # path
    BY <1>2 DEF PutDomain
  <2>2. CASE r \in DOMAIN tree
    <3>1. new[r] = tree[r]
      BY <2>1, <2>2, PutKeeps
    <3>. QED
      BY <2>1, <2>2, <3>1 DEF Blocked
  <2>3. CASE r \notin DOMAIN tree
    <3>1. new[r] = Node("struct", << >>, node.required)
      BY <2>1, <2>3, PutCreates
    <3>. QED
      BY <2>1, <3>1 DEF Node
  <2>. QED
    BY <2>2, <2>3
<1>7. ASSUME NEW p \in D, NEW r \in StrictPrefixes(p)
      PROVE  r \in D /\ new[r].kind = "struct"
  <2>1. CASE p = path
    BY <1>6, <1>7, <2>1
  <2>2. CASE p \in StrictPrefixes(path)
    BY <1>1, <1>6, <1>7, <2>2, PrefixesNest
  <2>3. CASE p \in DOMAIN tree /\ ~IsStrictPrefix(path, p) /\ p # path
    <3>1. p \in Seq(L) /\ r \in DOMAIN tree /\ tree[r].kind = "struct"
      BY <1>7, <2>3 DEF IsTreeOver, Paths
    <3>2. r \in Seq(L)
      BY <3>1 DEF IsTreeOver, Paths
    <3>3. path \notin StrictPrefixes(p)
      BY <2>3, <3>1, StrictPrefixMeans
    <3>4. r # path
      BY <1>7, <3>3
    <3>5. ~IsStrictPrefix(path, r)
      BY <1>7, <3>1, <3>2, <3>3, StrictPrefixMeans, PrefixesNest
    <3>6. r \in D
      BY <3>1, <3>5 DEF PutDomain
    <3>7. new[r] = tree[r]
      BY <3>1, <3>4, <3>6, PutKeeps
    <3>. QED
      BY <3>1, <3>6, <3>7
  <2>. QED
    BY <1>7, <2>1, <2>2, <2>3 DEF PutDomain
<1>8. new \in [DOMAIN new -> Nodes(O)]
  <2>1. new = [q \in DOMAIN new |-> new[q]]
    BY DEF Put
  <2>. QED
    BY <1>4, <1>5, <2>1
<1>. HIDE DEF new, D
<1>9. IsTreeOver(new, L, O)
  BY <1>3, <1>4, <1>7, <1>8 DEF IsTreeOver
<1>. QED
  BY <1>9 DEF new

(* What is neither at the path nor below it stays.                            *)
THEOREM PutKeepsOthers ==
    ASSUME NEW L, NEW tree, NEW path \in Paths(L), NEW node,
           NEW q \in DOMAIN tree, q # path, ~IsStrictPrefix(path, q)
    PROVE  q \in DOMAIN Put(tree, path, node) /\ Put(tree, path, node)[q] = tree[q]
<1>1. q \in PutDomain(tree, path)
  BY DEF PutDomain
<1>. QED
  BY <1>1, PutPaths, PutKeeps

-----------------------------------------------------------------------------
(* mergo.Merge and mergeStructLits                                           *)

(* values.go 186-213: two nested structures are merged into one.              *)
THEOREM MergeKeepsTree ==
    ASSUME NEW L, NEW O, \A x, y \in O : x \o y \in O,
           NEW first, NEW second, IsTreeOver(first, L, O), IsTreeOver(second, L, O)
    PROVE  IsTreeOver(MergeTrees(first, second), L, O)
<1> DEFINE merged == MergeTrees(first, second)
           D == DOMAIN first \union {p \in DOMAIN second : Reachable(first, p)}
<1>1. /\ DOMAIN merged = D /\ merged = [q \in D |-> merged[q]]
      /\ \A q \in D : merged[q] = IF q \notin DOMAIN first THEN second[q]
                                  ELSE IF q \notin DOMAIN second THEN first[q]
                                  ELSE Combine(first[q], second[q])
  BY DEF MergeTrees
<1>2. D \subseteq Paths(L)
  BY DEF IsTreeOver
<1>. HIDE DEF merged
<1>3. ASSUME NEW a \in Nodes(O), NEW b \in Nodes(O)
      PROVE  /\ Combine(a, b) \in Nodes(O)
             /\ a.kind = "struct" => Combine(a, b) = a
             /\ a.kind = "zero" => Combine(a, b) = b
  <2>1. a.of \o b.of \in O
    BY DEF Nodes
  <2>2. [a EXCEPT !.of = a.of \o b.of] \in Nodes(O)
    BY <2>1 DEF Nodes
  <2>. QED
    BY <2>2 DEF Combine
<1>4. \A q \in D : merged[q] \in Nodes(O)
  <2>. SUFFICES ASSUME NEW q \in D PROVE merged[q] \in Nodes(O)
    OBVIOUS
  <2>1. /\ q \in DOMAIN first => first[q] \in Nodes(O)
        /\ q \in DOMAIN second => second[q] \in Nodes(O)
    BY DEF IsTreeOver
  <2>2. q \in DOMAIN first \/ q \in DOMAIN second
    OBVIOUS
  <2>. HIDE DEF D
  <2>. QED
    BY <1>1, <1>3, <2>1, <2>2
<1>5. ASSUME NEW p \in D, NEW r \in StrictPrefixes(p)
      PROVE  r \in D /\ merged[r].kind = "struct"
  <2>1. CASE p \in DOMAIN first
    <3>1. r \in DOMAIN first /\ first[r].kind = "struct" /\ first[r] \in Nodes(O)
      BY <1>5, <2>1 DEF IsTreeOver
    <3>2. CASE r \in DOMAIN second
      <4>1. second[r] \in Nodes(O)
        BY <3>2 DEF IsTreeOver
      <4>2. merged[r] = Combine(first[r], second[r])
        BY <1>1, <3>1, <3>2
      <4>. QED
        BY <1>3, <3>1, <4>1, <4>2
    <3>3. CASE r \notin DOMAIN second
      BY <1>1, <3>1, <3>3
    <3>. QED
      BY <3>2, <3>3
  <2>2. CASE p \in DOMAIN second /\ Reachable(first, p)
    <3>1. p \in Seq(L) /\ r \in DOMAIN second /\ second[r].kind = "struct" /\ second[r] \in Nodes(O)
      BY <1>5, <2>2 DEF IsTreeOver, Paths
    <3>2. CASE r \in DOMAIN first
      <4>1. first[r].kind \in {"struct", "zero"} /\ first[r] \in Nodes(O)
        BY <1>5, <2>2, <3>2 DEF Reachable, IsTreeOver
      <4>2. r \in D /\ merged[r] = Combine(first[r], second[r])
        BY <1>1, <3>1, <3>2
      <4>. QED
        BY <1>3, <3>1, <4>1, <4>2
    <3>3. CASE r \notin DOMAIN first
      <4>1. Reachable(first, r)
        BY <1>5, <2>2, <3>1, PrefixesNest DEF Reachable
      <4>2. r \in D /\ merged[r] = second[r]
        BY <1>1, <3>1, <3>3, <4>1
      <4>. QED
        BY <3>1, <4>2
    <3>. QED
      BY <3>2, <3>3
  <2>. QED
    BY <1>5, <2>1, <2>2
<1>6. merged \in [DOMAIN merged -> Nodes(O)]
  BY <1>1, <1>4
<1>7. IsTreeOver(merged, L, O)
  BY <1>1, <1>2, <1>5, <1>6 DEF IsTreeOver
<1>. QED
  BY <1>7 DEF merged

(* The first wins: of its nodes only unset values change, and the lists and   *)
(* maps the second has too.                                                   *)
THEOREM MergeKeepsFirst ==
    ASSUME NEW first, NEW second, NEW q \in DOMAIN first,
           first[q].kind \notin {"zero", "list", "map"}
    PROVE  q \in DOMAIN MergeTrees(first, second) /\ MergeTrees(first, second)[q] = first[q]
  BY DEF MergeTrees, Combine

(* What only the second has is taken over, where the first has structs above. *)
THEOREM MergeTakesSecond ==
    ASSUME NEW first, NEW second, NEW q \in DOMAIN second \ DOMAIN first,
           Reachable(first, q)
    PROVE  q \in DOMAIN MergeTrees(first, second) /\ MergeTrees(first, second)[q] = second[q]
  BY DEF MergeTrees
-----------------------------------------------------------------------------
(* values.go 30-92: Values stay Values, whatever is added to them and merged, *)
(* and however often.                                                         *)

LEMMA AddConfigKeepsValues ==
    ASSUME NEW L, NEW S, NEW O, << >> \in S, << >> \in O, NEW v, IsValuesOver(v, L, S, O),
           NEW path \in Paths(L), NEW schema \in Nodes(S), NEW required \in BOOLEAN
    PROVE  IsValuesOver(AddConfig(v, schema, required, path), L, S, O)
<1> DEFINE node == [schema EXCEPT !.required = required]
<1>1. node \in Nodes(S)
  BY DEF Nodes
<1>2. CASE v.outcome # "ok"
  BY <1>2 DEF AddConfig
<1>3. CASE v.outcome = "ok" /\ Blocked(v.config, path)
  BY <1>3 DEF AddConfig, IsValuesOver
<1>4. CASE v.outcome = "ok" /\ ~Blocked(v.config, path)
  <2>1. IsTreeOver(Put(v.config, path, node), L, S)
    BY <1>1, <1>4, PutKeepsTree DEF IsValuesOver
  <2>2. AddConfig(v, schema, required, path) = [v EXCEPT !.config = Put(v.config, path, node)]
    BY <1>4 DEF AddConfig
  <2>. QED
    BY <2>1, <2>2 DEF IsValuesOver
<1>. QED
  BY <1>2, <1>3, <1>4

LEMMA SetValueKeepsValues ==
    ASSUME NEW L, NEW S, NEW O, << >> \in S, << >> \in O, NEW v, IsValuesOver(v, L, S, O),
           NEW path \in Paths(L), NEW value \in Nodes(O)
    PROVE  IsValuesOver(SetValue(v, value, path), L, S, O)
<1>1. CASE v.outcome # "ok"
  BY <1>1 DEF SetValue
<1>2. CASE v.outcome = "ok" /\ Blocked(v.values, path)
  BY <1>2 DEF SetValue, IsValuesOver
<1>3. CASE v.outcome = "ok" /\ ~Blocked(v.values, path)
  <2>1. IsTreeOver(Put(v.values, path, value), L, O)
    BY <1>3, PutKeepsTree DEF IsValuesOver
  <2>2. SetValue(v, value, path) = [v EXCEPT !.values = Put(v.values, path, value)]
    BY <1>3 DEF SetValue
  <2>. QED
    BY <2>1, <2>2 DEF IsValuesOver
<1>. QED
  BY <1>1, <1>2, <1>3

(* Add, with a schema and without one.                                        *)
THEOREM AddKeepsValues ==
    ASSUME NEW L, NEW S, NEW O, << >> \in S, << >> \in O, NEW v, IsValuesOver(v, L, S, O),
           NEW path \in Paths(L), NEW value \in Nodes(O),
           NEW schema \in Nodes(S) \union {NoSchema}
    PROVE  IsValuesOver(Add(v, schema, value, path), L, S, O)
<1>1. CASE schema = NoSchema
  BY <1>1, SetValueKeepsValues DEF Add
<1>2. CASE schema # NoSchema
  <2>1. IsValuesOver(AddConfig(v, schema, FALSE, path), L, S, O)
    BY <1>2, AddConfigKeepsValues
  <2>2. Add(v, schema, value, path) = SetValue(AddConfig(v, schema, FALSE, path), value, path)
    BY <1>2 DEF Add
  <2>. QED
    BY <2>1, <2>2, SetValueKeepsValues
<1>. QED
  BY <1>1, <1>2

(* Merge, when it ends well and when not.                                     *)
THEOREM MergeKeepsValues ==
    ASSUME NEW L, NEW S, NEW O, \A x, y \in S : x \o y \in S, \A x, y \in O : x \o y \in O,
           NEW v, IsValuesOver(v, L, S, O), NEW w, IsValuesOver(w, L, S, O)
    PROVE  IsValuesOver(Merge(v, w), L, S, O)
<1>1. CASE Merge(v, w) = v \/ Merge(v, w) = [v EXCEPT !.outcome = "error"]
             \/ Merge(v, w) = [v EXCEPT !.outcome = "panic"]
  BY <1>1 DEF IsValuesOver
<1>2. CASE Merge(v, w) = [v EXCEPT !.values = MergeTrees(v.values, w.values),
                                   !.config = MergeTrees(v.config, w.config)]
  <2>1. /\ IsTreeOver(MergeTrees(v.values, w.values), L, O)
        /\ IsTreeOver(MergeTrees(v.config, w.config), L, S)
    BY MergeKeepsTree DEF IsValuesOver
  <2>. QED
    BY <1>2, <2>1 DEF IsValuesOver
<1>. QED
  BY <1>1, <1>2 DEF Merge

(* Such Values are what TypeOK of the Deployments asks for.                   *)
THEOREM ValuesAreValues ==
    ASSUME NEW L, NEW S, NEW O, NEW v, IsValuesOver(v, L, S, O)
    PROVE  IsValues(v)
  BY DEF IsValuesOver, IsValues, IsTreeOver, IsTree, Nodes
=============================================================================
