-------------------------- MODULE DeploymentsProofs ---------------------------
(***************************************************************************)
(* Proofs about Deployments: the schema and the values of a run stay nested   *)
(* structures that agree with each other, whatever the Deployments are and    *)
(* however their names collide; images and texts come through unchanged.      *)
(***************************************************************************)
EXTENDS Deployments, ValuesProofs, FiniteSetTheorems, WellFoundedInduction

-----------------------------------------------------------------------------
(* ImageRef: what processPodContainer's cutting of an image keeps, for every  *)
(* image over every alphabet.                                                *)

(* Every non-empty set of positions has a last one.                           *)
LEMMA LastPosition ==
    ASSUME NEW n \in Nat, NEW S \in SUBSET (1..n), S # {}
    PROVE  Max(S) \in S /\ \A i \in S : i <= Max(S)
<1> DEFINE mirrored == {n - i : i \in S}
<1>1. mirrored \in SUBSET Nat /\ mirrored # {}
  <2>1. \A i \in S : n - i \in Nat
    OBVIOUS
  <2>. QED
    BY <2>1, Zenon
<1>2. PICK m \in mirrored : \A k \in mirrored : <<k, m>> \notin OpToRel(<, Nat)
  BY <1>1, WFMin, NatLessThanWellFounded, Zenon
<1>3. \A k \in mirrored : m <= k
  <2>1. \A k \in mirrored : ~(k < m)
    BY <1>1, <1>2, Zenon DEF OpToRel
  <2>2. \A k \in mirrored : k \in Nat
    BY <1>1, Zenon
  <2>. HIDE DEF mirrored
  <2>. QED
    BY <2>1, <2>2
<1>4. PICK last \in S : m = n - last
  OBVIOUS
<1>5. \A i \in S : last >= i
  <2>1. \A i \in S : n - last <= n - i
    BY <1>3, <1>4
  <2>. QED
    BY <2>1
<1>. QED
  BY <1>4, <1>5 DEF Max

(* strings.LastIndex.                                                         *)
LEMMA LastIndexIsLast ==
    ASSUME NEW C, NEW s \in Seq(C), NEW char
    PROVE  /\ LastIndex(s, char) \in 0..Len(s)
           /\ LastIndex(s, char) = 0 <=> \A i \in 1..Len(s) : s[i] # char
           /\ LastIndex(s, char) > 0 => s[LastIndex(s, char)] = char
           /\ \A i \in LastIndex(s, char) + 1 .. Len(s) : s[i] # char
<1>1. Len(s) \in Nat /\ Indices(s, char) \in SUBSET (1..Len(s))
  BY DEF Indices
<1>2. CASE Indices(s, char) = {}
  BY <1>1, <1>2 DEF LastIndex, Indices
<1>3. CASE Indices(s, char) # {}
  <2> DEFINE m == Max(Indices(s, char))
  <2>1. m \in Indices(s, char) /\ \A i \in Indices(s, char) : i <= m
    BY <1>1, <1>3, LastPosition
  <2>2. LastIndex(s, char) = m
    BY <1>3 DEF LastIndex
  <2>3. m \in 1..Len(s) /\ s[m] = char
    BY <2>1 DEF Indices
  <2>4. \A i \in 1..Len(s) : s[i] = char => i <= m
    BY <2>1 DEF Indices
  <2>. HIDE DEF m
  <2>. QED
    BY <1>1, <2>2, <2>3, <2>4
<1>. QED
  BY <1>2, <1>3

(* A non-empty image survives being quoted and unquoted.                      *)
LEMMA QuotedAndBack ==
    ASSUME NEW C, NEW image \in Seq(C), image # << >>
    PROVE  IsQuoted(Quote(image)) /\ Unquote(Quote(image)) = image
<1> DEFINE all == C \union {Mark}
           quoted == <<Mark>> \o image \o <<Mark>>
<1>1. quoted \in Seq(all) /\ Len(quoted) = Len(image) + 2 /\ Len(image) \in Nat
  OBVIOUS
<1>2. quoted[1] = Mark /\ quoted[Len(image) + 2] = Mark
  OBVIOUS
<1>3. \A i \in 1..Len(image) : quoted[i + 1] = image[i]
  OBVIOUS
<1>4. Quote(image) = quoted
  BY DEF Quote
<1>. HIDE DEF quoted
<1>5. IsQuoted(quoted)
  BY <1>1, <1>2 DEF IsQuoted, Last
<1>6. Unquote(quoted) = image
  <2>1. Unquote(quoted) = SubSeq(quoted, 2, Len(image) + 1)
    BY <1>1 DEF Unquote
  <2>2. /\ SubSeq(quoted, 2, Len(image) + 1) \in Seq(all)
        /\ Len(SubSeq(quoted, 2, Len(image) + 1)) = Len(image)
        /\ \A i \in 1..Len(image) : SubSeq(quoted, 2, Len(image) + 1)[i] = quoted[i + 1]
    BY <1>1
  <2>3. image \in Seq(all)
    OBVIOUS
  <2>. QED
    BY <1>3, <2>1, <2>2, <2>3
<1>. QED
  BY <1>4, <1>5, <1>6

(* Two sequences one after the other; two that are equal at every position.   *)
LEMMA Concatenation ==
    ASSUME NEW C, NEW s \in Seq(C), NEW t \in Seq(C)
    PROVE  s \o t \in Seq(C) /\ Len(s \o t) = Len(s) + Len(t)
  OBVIOUS

LEMMA EqualPositions ==
    ASSUME NEW C, NEW s \in Seq(C), NEW t \in Seq(C), Len(s) = Len(t),
           \A i \in 1..Len(s) : s[i] = t[i]
    PROVE  s = t
  OBVIOUS

(* A sequence cut at a position and joined again.                             *)
LEMMA CutAndJoin ==
    ASSUME NEW C, NEW s \in Seq(C), NEW k \in 1..Len(s), NEW char, s[k] = char
    PROVE  SubSeq(s, 1, k - 1) \o <<char>> \o SubSeq(s, k + 1, Len(s)) = s
<1> DEFINE first == SubSeq(s, 1, k - 1) \o <<char>>
           after == SubSeq(s, k + 1, Len(s))
<1>1. /\ first \in Seq(C) /\ Len(first) = k
      /\ \A i \in 1..k : first[i] = s[i]
  OBVIOUS
<1>2. /\ after \in Seq(C) /\ Len(after) = Len(s) - k
      /\ \A i \in 1..Len(s) - k : after[i] = s[k + i]
  OBVIOUS
<1>3. Len(s) \in Nat /\ k \in 1..Len(s)
  OBVIOUS
<1>. HIDE DEF first, after
<1>4. first \o after \in Seq(C) /\ Len(first \o after) = Len(s)
  <2>1. first \in Seq(C) /\ after \in Seq(C)
    BY <1>1, <1>2, Zenon
  <2>2. first \o after \in Seq(C) /\ Len(first \o after) = Len(first) + Len(after)
    BY <2>1, Concatenation, Zenon
  <2>. QED
    BY <1>1, <1>2, <1>3, <2>2
<1>5. \A i \in 1..Len(s) : (first \o after)[i] = s[i]
  <2>1. \A i \in 1..k : (first \o after)[i] = s[i]
    BY <1>1, <1>2, <1>3
  <2>2. ASSUME NEW i \in k + 1..Len(s)
        PROVE  (first \o after)[i] = s[i]
    <3>1. i - k \in 1..Len(s) - k /\ k + (i - k) = i
      BY <1>3
    <3>2. (first \o after)[i] = after[i - k]
      BY <1>1, <1>2, <1>3
    <3>. QED
      BY <1>2, <3>1, <3>2
  <2>3. \A i \in 1..Len(s) : i \in 1..k \/ i \in k + 1..Len(s)
    BY <1>3
  <2>. QED
    BY <2>1, <2>2, <2>3
<1>6. first \o after = s
  BY <1>4, <1>5, EqualPositions, Zenon
<1>. QED
  BY <1>6 DEF first, after

-----------------------------------------------------------------------------
(* pod.go 177-197: of every image without a digest, cut and put together      *)
(* again by #Image, the same image comes out, and a colon in its registry is  *)
(* not taken for the tag's when the path after it has a tag; an empty tag is  *)
(* rendered as latest.                                                        *)
THEOREM ImageWithoutDigestKept ==
    ASSUME NEW C, NEW image \in Seq(C), ~HasDigest(image), Splittable(Quote(image)),
           image[Len(image)] # ":"
    PROVE  /\ Reference(Split(Quote(image))) = image
           /\ \A i \in 1..Len(Split(Quote(image)).tag) : Split(Quote(image)).tag[i] # ":"
<1>1. image # << >>
  BY DEF Splittable, IsQuoted, Quote
<1>2. Unquote(Quote(image)) = image
  BY <1>1, QuotedAndBack
<1> DEFINE k == LastIndex(image, ":")
           tag == SubSeq(image, k + 1, Len(image))
           repository == SubSeq(image, 1, k - 1)
<1>3. Separator(Quote(image)) = k
  BY <1>2 DEF Separator
<1>4. k \in 1..Len(image) /\ image[k] = ":" /\ Len(image) \in Nat
  BY <1>3, LastIndexIsLast DEF Splittable
<1>5. Split(Quote(image)) = [repository |-> repository, tag |-> tag, digest |-> << >>]
  BY <1>2, <1>3 DEF Split
<1>6. k < Len(image)
  BY <1>4
<1>7. /\ tag \in Seq(C) /\ Len(tag) = Len(image) - k
      /\ \A i \in 1..Len(image) - k : tag[i] = image[k + i]
  BY <1>4
<1>8. tag # << >>
  <2>1. Len(tag) > 0
    BY <1>4, <1>6, <1>7
  <2>. HIDE DEF tag
  <2>. QED
    BY <2>1
<1>9. \A i \in k + 1 .. Len(image) : image[i] # ":"
  BY LastIndexIsLast
<1>10. repository \in Seq(C) /\ <<":">> \in Seq(C)
  BY <1>4
<1>11. repository \o <<":">> \o tag = image
  BY <1>4, CutAndJoin
<1>. HIDE DEF k, tag, repository
<1>12. Reference(Split(Quote(image))) = repository \o (<<":">> \o tag) \o << >> \o << >>
  BY <1>5, <1>8 DEF Reference
<1>13. repository \o (<<":">> \o tag) \o << >> \o << >> = repository \o <<":">> \o tag
  BY <1>7, <1>10
<1>14. \A i \in 1..Len(tag) : tag[i] # ":"
  BY <1>4, <1>7, <1>9
<1>15. Split(Quote(image)).tag = tag
  BY <1>5
<1>16. Reference(Split(Quote(image))) = image
  BY <1>11, <1>12, <1>13, Zenon
<1>. QED
  BY <1>14, <1>15, <1>16

-----------------------------------------------------------------------------
(* The schema and the values                                                  *)

(* The labels there are, the expressions of the schema, and the origins of    *)
(* values: the texts of each are quoted so that they parse to what they were. *)
Parts == {"image", "env", "resources", "imagePullPolicy", "args", "containerSecurityContext"}
Labels ==
    {Label[n] : n \in DOMAIN Label} \union {Again[Label[n]] : n \in DOMAIN Label} \union Parts
        \union {"repository", "tag", "digest", "requests", "limits", "replicas",
                "revisionHistoryLimit", "nodeSelector", "imagePullSecrets", DomainKey}
Definitions ==
    Seq({"string", "int & >0", "int64", "#Image", "#ResourceList", "#ResourceRequirements",
         "#PullPolicy", "[...string]", "#LocalObjectReference", "#SecurityContext"})
Chars == STRING \union {Mark} \union ToSet(DefaultDomain)
Fields ==
    {"domain", "replicas", "revisionHistoryLimit", "repository", "tag", "digest", "env",
     "requests", "limits", "imagePullPolicy", "args", "securityContext", "nodeSelector"}
Strung == {t \in [was : Seq(Chars), is : Seq(Chars)] : ParseStringLit(t.is) = Text(t.was)}
Origins ==
    [dep : Nat, container : Nat, field : Fields, key : DOMAIN Label \union {""},
     texts : Seq(Strung)]
Sources == Seq(Origins)
IsTyped(v) == IsValuesOver(v, Labels, Definitions, Sources)

-----------------------------------------------------------------------------
(* How schema and values agree.  Paths are known by their depth and their     *)
(* first labels.                                                              *)
Depth(p) == Len(p)
ObjectOf(p) == p[1]
ContainerOf(p) == p[2]
PartOf(p) == p[3]

(* In what follows, Z are the paths of the Deployments' zeros, and w is the   *)
(* part of a container, <<object, container, part>>, that is being added.     *)
Idle == <<"", "", "none">>
InPart(p, w, part) ==
    /\ PartOf(w) = part /\ PartOf(p) = part
    /\ ObjectOf(p) = ObjectOf(w) /\ ContainerOf(p) = ContainerOf(w)

Scaled(p, Z) ==
    ContainerOf(p) \in {"replicas", "revisionHistoryLimit"} /\ <<ObjectOf(p), ContainerOf(p)>> \in Z

IsExpr(node, schema) == node.kind = "expr" /\ node.of = <<schema>>

(* The schemas of a path.                                                     *)
SchemaAt(p, node, w) ==
    \/ Depth(p) = 1 /\ ObjectOf(p) = "imagePullSecrets" /\ node.kind = "expr"
    \/ Depth(p) = 1 /\ ObjectOf(p) = DomainKey /\ IsExpr(node, "string")
    \/ Depth(p) = 2 /\ ContainerOf(p) = "replicas" /\ IsExpr(node, "int & >0")
    \/ Depth(p) = 2 /\ ContainerOf(p) = "revisionHistoryLimit" /\ IsExpr(node, "int64")
    \/ Depth(p) = 2 /\ ContainerOf(p) = "nodeSelector" /\ node.kind = "pattern" /\ node.of = <<"string">>
    \/ Depth(p) = 3 /\ PartOf(p) = "image" /\ IsExpr(node, "#Image")
    \/ Depth(p) = 3 /\ PartOf(p) = "resources" /\ IsExpr(node, "#ResourceRequirements")
    \/ Depth(p) = 3 /\ PartOf(p) = "imagePullPolicy" /\ IsExpr(node, "#PullPolicy")
    \/ Depth(p) = 3 /\ PartOf(p) = "args" /\ IsExpr(node, "[...string]")
    \/ Depth(p) = 3 /\ PartOf(p) = "containerSecurityContext" /\ IsExpr(node, "#SecurityContext")
    \/ Depth(p) = 4 /\ PartOf(p) = "env" /\ IsExpr(node, "string")
    \/ Depth(p) = 5 /\ InPart(p, w, "resources") /\ node.kind = "expr"

(* What has fields in the schema.                                             *)
SchemaAbove(p, w) ==
    \/ Depth(p) <= 2
    \/ Depth(p) = 3 /\ PartOf(p) = "env"
    \/ Depth(p) \in {3, 4} /\ InPart(p, w, "resources")

(* Where a schema comes with values, and where one may be required.           *)
HasValues(p) == Depth(p) <= 2 \/ (Depth(p) = 3 /\ PartOf(p) = "image")

SchemaSlot(p, node, w) ==
    /\ node.required => HasValues(p)
    /\ IF node.kind = "struct" THEN SchemaAbove(p, w) ELSE SchemaAt(p, node, w)

(* The values of a path, and where structs are.                                *)
StructAt(p) ==
    \/ Depth(p) <= 2
    \/ Depth(p) = 3 /\ PartOf(p) \in {"image", "env", "resources"}
    \/ Depth(p) = 4 /\ PartOf(p) = "resources"

ValueSlot(p, node, Z) ==
    \/ node.kind = "struct" /\ StructAt(p)
    \/ Depth(p) = 1 /\ ObjectOf(p) = "imagePullSecrets" /\ node.kind = "list"
    \/ Depth(p) = 1 /\ ObjectOf(p) = DomainKey /\ node.kind = "atom" /\ ~IsNumber(node)
    \/ /\ Depth(p) = 2 /\ ContainerOf(p) = "replicas" /\ IsNumber(node)
       /\ node.kind = "atom" \/ (node.kind = "zero" /\ Scaled(p, Z))
    \/ /\ Depth(p) = 2 /\ ContainerOf(p) = "revisionHistoryLimit" /\ IsNumber(node)
       /\ node.kind = "atom" \/ (node.kind = "zero" /\ Scaled(p, Z))
    \/ Depth(p) = 2 /\ ContainerOf(p) = "nodeSelector" /\ node.kind = "map"
    \/ Depth(p) = 3 /\ PartOf(p) = "imagePullPolicy" /\ node.kind = "atom" /\ ~IsNumber(node)
    \/ Depth(p) = 3 /\ PartOf(p) = "args" /\ node.kind = "list"
    \/ Depth(p) = 3 /\ PartOf(p) = "containerSecurityContext" /\ node.kind = "map"
    \/ Depth(p) = 4 /\ PartOf(p) = "image" /\ node.kind = "atom" /\ ~IsNumber(node)
    \/ Depth(p) = 4 /\ PartOf(p) = "env" /\ node.kind \in {"atom", "zero"} /\ ~IsNumber(node)
    \/ Depth(p) = 5 /\ PartOf(p) = "resources" /\ node.kind = "atom"

Has(config, p) ==
    \/ p \in DOMAIN config
    \/ \E q \in StrictPrefixes(p) : q \in DOMAIN config /\ config[q].kind # "struct"

(* Values whose schema is missing: below a 0 of a Deployment,                 *)
(* and those of the image that is being added.                                *)
Below(p, Z) == Depth(p) > 2 /\ Scaled(p, Z)
InImage(p, w) ==
    /\ PartOf(w) = "image" /\ ObjectOf(p) = ObjectOf(w)
    /\ Depth(p) >= 2 => ContainerOf(p) = ContainerOf(w)
    /\ Depth(p) >= 3 => PartOf(p) = "image"

SlotsFit(config, content, Z, w) ==
    /\ \A p \in DOMAIN config : SchemaSlot(p, config[p], w)
    /\ \A p \in DOMAIN content : ValueSlot(p, content[p], Z)
Covered(config, content, Z, w) ==
    \A p \in DOMAIN content : content[p].kind # "struct" \/ Depth(p) <= 2 =>
        Has(config, p) \/ Below(p, Z) \/ InImage(p, w)
Matched(config, content, Z) ==
    \A p \in DOMAIN config : p \in DOMAIN content /\ Depth(p) <= 2 =>
        /\ config[p].kind = "struct" => content[p].kind = "struct"
        /\ content[p].kind = "struct" =>
              config[p].kind = "struct" \/ (Depth(p) = 2 /\ Scaled(p, Z))
Valued(config, content) == \A p \in DOMAIN config : HasValues(p) => p \in DOMAIN content

Fit(config, content, Z, w) ==
    /\ SlotsFit(config, content, Z, w)
    /\ Covered(config, content, Z, w)
    /\ Matched(config, content, Z)
    /\ Valued(config, content)

Agrees(v, Z, w) == IsTyped(v) /\ (v.outcome = "ok" => Fit(v.config, v.values, Z, w))

-----------------------------------------------------------------------------
(* Lemmas on Put                                                              *)

Schemas == Nodes(Definitions)
Contents == Nodes(Sources)
IsSchema(tree) == IsTreeOver(tree, Labels, Definitions)
IsContent(tree) == IsTreeOver(tree, Labels, Sources)

(* What there is after Put: the path, structs above it, and what is elsewhere.*)
LEMMA PutShape ==
    ASSUME NEW O, << >> \in O, NEW tree, IsTreeOver(tree, Labels, O),
           NEW path \in Paths(Labels), NEW node \in Nodes(O), ~Blocked(tree, path)
    PROVE  LET new == Put(tree, path, node)
           IN  /\ path \in DOMAIN new
               /\ new[path].kind = node.kind /\ new[path].of = node.of
               /\ new[path].required = IF path \in DOMAIN tree THEN tree[path].required
                                       ELSE node.required
               /\ \A q \in StrictPrefixes(path) :
                     /\ q \in DOMAIN new /\ new[q].kind = "struct"
                     /\ new[q].required = IF q \in DOMAIN tree THEN tree[q].required
                                          ELSE node.required
               /\ \A q \in DOMAIN new : q # path /\ q \notin StrictPrefixes(path) =>
                     q \in DOMAIN tree /\ new[q] = tree[q] /\ path \notin StrictPrefixes(q)
               /\ \A q \in DOMAIN tree : path \notin StrictPrefixes(q) => q \in DOMAIN new
<1> DEFINE new == Put(tree, path, node)
<1>1. path \in Seq(Labels) /\ \A q \in DOMAIN tree : q \in Seq(Labels)
  BY DEF Paths, IsTreeOver
<1>2. DOMAIN new = PutDomain(tree, path)
  BY PutPaths
<1>3. \A q \in StrictPrefixes(path) : q # path /\ q \in PutDomain(tree, path)
  BY <1>1, PrefixesArePaths DEF PutDomain
<1>4. path \in PutDomain(tree, path)
  BY DEF PutDomain
<1>5. \A q \in DOMAIN tree : IsStrictPrefix(path, q) <=> path \in StrictPrefixes(q)
  BY <1>1, StrictPrefixMeans
<1>6. /\ new[path].kind = node.kind /\ new[path].of = node.of
      /\ new[path].required = IF path \in DOMAIN tree THEN tree[path].required
                              ELSE node.required
  <2>1. CASE path \in DOMAIN tree
    <3>1. new[path] = [node EXCEPT !.required = tree[path].required]
      BY <2>1, PutSets
    <3>2. \A x : [node EXCEPT !.required = x].kind = node.kind
                 /\ [node EXCEPT !.required = x].of = node.of
                 /\ [node EXCEPT !.required = x].required = x
      BY DEF Nodes
    <3>. HIDE DEF new
    <3>. QED
      BY <2>1, <3>1, <3>2
  <2>2. CASE path \notin DOMAIN tree
    <3>1. new[path] = node
      BY <1>4, <2>2 DEF Put, PutDomain
    <3>. HIDE DEF new
    <3>. QED
      BY <2>2, <3>1
  <2>. QED
    BY <2>1, <2>2
<1>7. ASSUME NEW q \in StrictPrefixes(path)
      PROVE  /\ new[q].kind = "struct"
             /\ new[q].required = IF q \in DOMAIN tree THEN tree[q].required
                                  ELSE node.required
  <2>1. CASE q \in DOMAIN tree
    <3>1. new[q] = tree[q]
      BY <1>3, <2>1, PutKeeps
    <3>. QED
      BY <2>1, <3>1 DEF Blocked
  <2>2. CASE q \notin DOMAIN tree
    <3>1. new[q] = Node("struct", << >>, node.required)
      BY <1>3, <2>2, PutCreates
    <3>. QED
      BY <2>2, <3>1 DEF Node
  <2>. QED
    BY <2>1, <2>2
<1>8. ASSUME NEW q \in PutDomain(tree, path), q # path, q \notin StrictPrefixes(path)
      PROVE  q \in DOMAIN tree /\ new[q] = tree[q] /\ path \notin StrictPrefixes(q)
  <2>1. q \in DOMAIN tree /\ ~IsStrictPrefix(path, q)
    BY <1>8 DEF PutDomain
  <2>2. new[q] = tree[q]
    BY <1>8, <2>1, PutKeeps
  <2>. QED
    BY <1>5, <2>1, <2>2
<1>9. \A q \in DOMAIN tree : path \notin StrictPrefixes(q) => q \in PutDomain(tree, path)
  BY <1>5 DEF PutDomain
<1>. HIDE DEF new
<1>10. /\ path \in DOMAIN new
       /\ \A q \in StrictPrefixes(path) :
             /\ q \in DOMAIN new /\ new[q].kind = "struct"
             /\ new[q].required = IF q \in DOMAIN tree THEN tree[q].required
                                  ELSE node.required
       /\ \A q \in DOMAIN new : q # path /\ q \notin StrictPrefixes(path) =>
             q \in DOMAIN tree /\ new[q] = tree[q] /\ path \notin StrictPrefixes(q)
       /\ \A q \in DOMAIN tree : path \notin StrictPrefixes(q) => q \in DOMAIN new
  BY <1>2, <1>3, <1>4, <1>7, <1>8, <1>9
<1>. QED
  BY <1>6, <1>10 DEF new

(* The node that is set keeps its place, its kind and what it is of.          *)
LEMMA PutAt ==
    ASSUME NEW O, << >> \in O, NEW tree, IsTreeOver(tree, Labels, O),
           NEW path \in Paths(Labels), NEW node \in Nodes(O), ~Blocked(tree, path)
    PROVE  /\ path \in DOMAIN Put(tree, path, node)
           /\ Put(tree, path, node)[path].kind = node.kind
           /\ Put(tree, path, node)[path].of = node.of
           /\ path \in DOMAIN tree =>
                 Put(tree, path, node)[path].required = tree[path].required
           /\ path \notin DOMAIN tree =>
                 Put(tree, path, node)[path].required = node.required
  BY PutShape

(* What is above it is struct afterwards.                                     *)
LEMMA PutAbove ==
    ASSUME NEW O, << >> \in O, NEW tree, IsTreeOver(tree, Labels, O),
           NEW path \in Paths(Labels), NEW node \in Nodes(O), ~Blocked(tree, path),
           NEW q \in StrictPrefixes(path)
    PROVE  /\ q \in DOMAIN Put(tree, path, node)
           /\ Put(tree, path, node)[q].kind = "struct"
           /\ q \in DOMAIN tree => Put(tree, path, node)[q].required = tree[q].required
           /\ q \notin DOMAIN tree => Put(tree, path, node)[q].required = node.required
  BY PutShape

(* What is neither above nor below it stays as it was.                        *)
LEMMA PutElsewhere ==
    ASSUME NEW O, << >> \in O, NEW tree, IsTreeOver(tree, Labels, O),
           NEW path \in Paths(Labels), NEW node \in Nodes(O), ~Blocked(tree, path),
           NEW q \in DOMAIN Put(tree, path, node), q # path, q \notin StrictPrefixes(path)
    PROVE  q \in DOMAIN tree /\ Put(tree, path, node)[q] = tree[q] /\ path \notin StrictPrefixes(q)
  BY PutShape

(* Only what is below it goes.                                                *)
LEMMA PutStays ==
    ASSUME NEW O, << >> \in O, NEW tree, IsTreeOver(tree, Labels, O),
           NEW path \in Paths(Labels), NEW node \in Nodes(O), ~Blocked(tree, path),
           NEW q \in DOMAIN tree, path \notin StrictPrefixes(q)
    PROVE  q \in DOMAIN Put(tree, path, node)
  BY PutShape

(* Two prefixes of a path: one is the other's, or they are equal.             *)
LEMMA PrefixesCompare ==
    ASSUME NEW p \in Seq(Labels), NEW q \in StrictPrefixes(p), NEW r \in StrictPrefixes(p)
    PROVE  q = r \/ q \in StrictPrefixes(r) \/ r \in StrictPrefixes(q)
<1>1. /\ q \in Paths(Labels) /\ Len(q) < Len(p) /\ \A i \in 1..Len(q) : q[i] = p[i]
      /\ r \in Paths(Labels) /\ Len(r) < Len(p) /\ \A i \in 1..Len(r) : r[i] = p[i]
  BY PrefixesArePaths
<1>2. q \in Seq(Labels) /\ r \in Seq(Labels)
  BY <1>1 DEF Paths
<1>3. CASE Len(q) = Len(r)
  BY <1>1, <1>2, <1>3, EqualLabels
<1>4. CASE Len(q) < Len(r)
  <2>1. \A i \in 1..Len(q) : q[i] = r[i]
    BY <1>1, <1>2, <1>4
  <2>. QED
    BY <1>1, <1>2, <1>4, <2>1, PrefixByLabels
<1>5. CASE Len(r) < Len(q)
  <2>1. \A i \in 1..Len(r) : r[i] = q[i]
    BY <1>1, <1>2, <1>5
  <2>. QED
    BY <1>1, <1>2, <1>5, <2>1, PrefixByLabels
<1>. QED
  BY <1>2, <1>3, <1>4, <1>5

(* A schema that is set takes no schema away.                                 *)
LEMMA PutKeepsSchemas ==
    ASSUME NEW tree, IsSchema(tree), NEW path \in Paths(Labels), NEW node \in Schemas,
           node.kind # "struct", ~Blocked(tree, path), NEW p \in Seq(Labels), Has(tree, p)
    PROVE  Has(Put(tree, path, node), p)
<1> DEFINE new == Put(tree, path, node)
<1>1. /\ path \in DOMAIN new /\ new[path].kind # "struct"
      /\ \A q \in DOMAIN new : q # path /\ q \notin StrictPrefixes(path) => new[q] = tree[q]
      /\ \A q \in DOMAIN tree : path \notin StrictPrefixes(q) => q \in DOMAIN new
  <2>1. << >> \in Definitions
    BY DEF Definitions
  <2>. QED
    BY <2>1, PutAt, PutElsewhere, PutStays DEF IsSchema, Schemas
<1>. HIDE DEF new
<1>2. CASE path = p \/ path \in StrictPrefixes(p)
  BY <1>1, <1>2 DEF Has, new
<1>3. CASE path # p /\ path \notin StrictPrefixes(p)
  <2>1. CASE p \in DOMAIN tree
    BY <1>1, <1>3, <2>1 DEF Has, new
  <2>2. CASE \E q \in StrictPrefixes(p) : q \in DOMAIN tree /\ tree[q].kind # "struct"
    <3>1. PICK q \in StrictPrefixes(p) : q \in DOMAIN tree /\ tree[q].kind # "struct"
      BY <2>2
    <3>2. path \notin StrictPrefixes(q) /\ q # path
      BY <1>3, <3>1, PrefixesNest
    <3>3. q \notin StrictPrefixes(path)
      BY <3>1 DEF Blocked
    <3>. QED
      BY <1>1, <3>1, <3>2, <3>3 DEF Has, new
  <2>. QED
    BY <2>1, <2>2 DEF Has
<1>. QED
  BY <1>2, <1>3

(* What a path allows does not depend on whether it is required.              *)
LEMMA SlotsByKind ==
    ASSUME NEW p, NEW x, NEW y, x.kind = y.kind, x.of = y.of, NEW Z, NEW w
    PROVE  /\ SchemaAt(p, x, w) => SchemaAt(p, y, w)
           /\ ValueSlot(p, x, Z) => ValueSlot(p, y, Z)
  BY DEF SchemaAt, ValueSlot, IsExpr, IsNumber

(* The schemas that are there after one is set, when the part that is being   *)
(* added changes from w to u.                                                 *)
LEMMA PutFitsSchema ==
    ASSUME NEW w, NEW u, NEW config, IsSchema(config),
           \A p \in DOMAIN config : SchemaSlot(p, config[p], w),
           NEW path \in Paths(Labels), NEW node \in Schemas, ~Blocked(config, path),
           node.kind # "struct", SchemaAt(path, node, u),
           node.required => HasValues(path) /\ \A q \in StrictPrefixes(path) : HasValues(q),
           \A q \in StrictPrefixes(path) : SchemaAbove(q, u),
           \A p \in DOMAIN config :
               SchemaSlot(p, config[p], w) /\ p # path /\ path \notin StrictPrefixes(p) =>
                   SchemaSlot(p, config[p], u)
    PROVE  \A p \in DOMAIN Put(config, path, node) : SchemaSlot(p, Put(config, path, node)[p], u)
<1> DEFINE new == Put(config, path, node)
<1>1. << >> \in Definitions
  BY DEF Definitions
<1>2. /\ new[path].kind = node.kind /\ new[path].of = node.of
      /\ new[path].required = IF path \in DOMAIN config THEN config[path].required
                              ELSE node.required
  BY <1>1, PutAt, PutAbove, PutElsewhere, PutStays DEF IsSchema, Schemas
<1>3. \A q \in StrictPrefixes(path) :
         /\ new[q].kind = "struct"
         /\ new[q].required = IF q \in DOMAIN config THEN config[q].required ELSE node.required
  BY <1>1, PutAt, PutAbove, PutElsewhere, PutStays DEF IsSchema, Schemas
<1>4. \A q \in DOMAIN new : q # path /\ q \notin StrictPrefixes(path) =>
         q \in DOMAIN config /\ new[q] = config[q] /\ path \notin StrictPrefixes(q)
  BY <1>1, PutAt, PutAbove, PutElsewhere, PutStays DEF IsSchema, Schemas
<1>. HIDE DEF new
<1>5. ASSUME NEW p \in DOMAIN new
      PROVE  SchemaSlot(p, new[p], u)
  <2>1. CASE p = path
    <3>1. SchemaAt(path, new[path], u)
      BY <1>2, SlotsByKind
    <3>2. path \in DOMAIN config => (config[path].required => HasValues(path))
      BY DEF SchemaSlot
    <3>. QED
      BY <1>2, <2>1, <3>1, <3>2 DEF SchemaSlot
  <2>2. CASE p \in StrictPrefixes(path)
    <3>1. p \in DOMAIN config => (config[p].required => HasValues(p))
      BY DEF SchemaSlot
    <3>. QED
      BY <1>3, <2>2, <3>1 DEF SchemaSlot
  <2>3. CASE p # path /\ p \notin StrictPrefixes(path)
    BY <1>4, <2>3
  <2>. QED
    BY <2>1, <2>2, <2>3
<1>. QED
  BY <1>5 DEF new

(* Paths have depths.                                                         *)
LEMMA LenOfPath ==
    ASSUME NEW L, NEW p \in Paths(L)
    PROVE  p \in Seq(L) /\ p # << >> /\ Len(p) \in Nat /\ Len(p) >= 1
<1>1. p \in Seq(L) /\ p # << >>
  BY DEF Paths
<1>. QED
  BY <1>1

LEMMA Depths ==
    ASSUME NEW p \in Paths(Labels)
    PROVE  p \in Seq(Labels) /\ Depth(p) \in Nat /\ Depth(p) >= 1
  BY LenOfPath DEF Depth

(* A prefix has the first labels of its path.                                 *)
LEMMA PrefixShape ==
    ASSUME NEW p \in Paths(Labels), NEW q \in StrictPrefixes(p)
    PROVE  /\ q \in Paths(Labels) /\ Depth(q) < Depth(p)
           /\ ObjectOf(q) = ObjectOf(p)
           /\ Depth(q) >= 2 => ContainerOf(q) = ContainerOf(p)
           /\ Depth(q) >= 3 => PartOf(q) = PartOf(p)
<1>1. /\ q \in Paths(Labels) /\ Len(q) < Len(p)
      /\ \A i \in 1..Len(q) : q[i] = p[i]
  BY LenOfPath, PrefixesArePaths
<1>2. Len(q) \in Nat /\ Len(q) >= 1
  BY <1>1, LenOfPath
<1>3. /\ q[1] = p[1]
      /\ Len(q) >= 2 => q[2] = p[2]
      /\ Len(q) >= 3 => q[3] = p[3]
  BY <1>1, <1>2
<1>. QED
  BY <1>1, <1>3 DEF Depth, ObjectOf, ContainerOf, PartOf

(* Above a path of values are structs.                                        *)
LEMMA StructsAbove ==
    ASSUME NEW path \in Paths(Labels), NEW value, NEW Z, ValueSlot(path, value, Z),
           NEW q \in StrictPrefixes(path)
    PROVE  StructAt(q)
<1>1. /\ Depth(path) \in Nat /\ Depth(q) \in Nat /\ Depth(q) >= 1 /\ Depth(q) < Depth(path)
      /\ Depth(q) >= 3 => PartOf(q) = PartOf(path)
  BY PrefixShape, Depths
<1>2. \/ Depth(path) <= 3
      \/ Depth(path) = 4 /\ PartOf(path) \in {"image", "env", "resources"}
      \/ Depth(path) = 5 /\ PartOf(path) = "resources"
  BY <1>1 DEF ValueSlot, StructAt
<1>. QED
  BY <1>1, <1>2 DEF StructAt

(* A value set in its slot leaves all values in theirs.                       *)
LEMMA PutFitsContent ==
    ASSUME NEW Z, NEW content, IsContent(content),
           \A p \in DOMAIN content : ValueSlot(p, content[p], Z),
           NEW path \in Paths(Labels), NEW value \in Contents, ~Blocked(content, path),
           ValueSlot(path, value, Z)
    PROVE  \A p \in DOMAIN Put(content, path, value) :
               ValueSlot(p, Put(content, path, value)[p], Z)
<1> DEFINE new == Put(content, path, value)
<1>1. << >> \in Sources
  BY DEF Sources
<1>2. new[path].kind = value.kind /\ new[path].of = value.of
  BY <1>1, PutAt, PutAbove, PutElsewhere, PutStays DEF IsContent, Contents
<1>3. \A q \in StrictPrefixes(path) : new[q].kind = "struct"
  BY <1>1, PutAt, PutAbove, PutElsewhere, PutStays DEF IsContent, Contents
<1>4. \A q \in DOMAIN new : q # path /\ q \notin StrictPrefixes(path) =>
         q \in DOMAIN content /\ new[q] = content[q]
  BY <1>1, PutAt, PutAbove, PutElsewhere, PutStays DEF IsContent, Contents
<1>. HIDE DEF new
<1>5. ASSUME NEW p \in DOMAIN new
      PROVE  ValueSlot(p, new[p], Z)
  <2>1. CASE p = path
    BY <1>2, <2>1, SlotsByKind
  <2>2. CASE p \in StrictPrefixes(path)
    <3>1. StructAt(p)
      BY <2>2, StructsAbove
    <3>. QED
      BY <1>3, <2>2, <3>1 DEF ValueSlot
  <2>3. CASE p # path /\ p \notin StrictPrefixes(path)
    BY <1>4, <2>3
  <2>. QED
    BY <2>1, <2>2, <2>3
<1>. QED
  BY <1>5 DEF new

(* A value and its schema, set at one path, leave schema and values in        *)
(* agreement.                                                                 *)
LEMMA PutBothFits ==
    ASSUME NEW Z, NEW w, NEW config, NEW content, IsSchema(config), IsContent(content),
           Fit(config, content, Z, w),
           NEW path \in Paths(Labels), NEW node \in Schemas, NEW value \in Contents,
           ~Blocked(config, path), ~Blocked(content, path),
           node.kind # "struct", value.kind # "struct", ~node.required,
           SchemaAt(path, node, w), ValueSlot(path, value, Z),
           \A q \in StrictPrefixes(path) : SchemaAbove(q, w)
    PROVE  Fit(Put(config, path, node), Put(content, path, value), Z, w)
<1> DEFINE schema == Put(config, path, node)
           new == Put(content, path, value)
<1>1. << >> \in Definitions /\ << >> \in Sources
  BY DEF Definitions, Sources
<1>2. /\ path \in DOMAIN schema /\ schema[path].kind = node.kind
      /\ \A q \in StrictPrefixes(path) : q \in DOMAIN schema /\ schema[q].kind = "struct"
      /\ \A q \in DOMAIN schema : q # path /\ q \notin StrictPrefixes(path) =>
            q \in DOMAIN config /\ schema[q] = config[q] /\ path \notin StrictPrefixes(q)
  BY <1>1, PutAt, PutAbove, PutElsewhere, PutStays DEF IsSchema, Schemas
<1>3. /\ path \in DOMAIN new /\ new[path].kind = value.kind
      /\ \A q \in StrictPrefixes(path) : q \in DOMAIN new /\ new[q].kind = "struct"
      /\ \A q \in DOMAIN new : q # path /\ q \notin StrictPrefixes(path) =>
            q \in DOMAIN content /\ new[q] = content[q]
  BY <1>1, PutAt, PutAbove, PutElsewhere, PutStays DEF IsContent, Contents
<1>10. \A q \in DOMAIN content : path \notin StrictPrefixes(q) => q \in DOMAIN new
  BY <1>1, PutAt, PutAbove, PutElsewhere, PutStays DEF IsContent, Contents
<1>4. \A p \in DOMAIN content : p \in Seq(Labels)
  BY DEF IsContent, IsTreeOver, Paths
<1>5. \A p \in Seq(Labels) : Has(config, p) => Has(schema, p)
  BY PutKeepsSchemas
<1>6. SlotsFit(schema, new, Z, w)
  BY PutFitsSchema, PutFitsContent DEF Fit, SlotsFit
<1>. HIDE DEF schema, new
<1>7. Covered(schema, new, Z, w)
  BY <1>2, <1>3, <1>4, <1>5 DEF Fit, Covered, Has
<1>8. Matched(schema, new, Z)
  BY <1>2, <1>3 DEF Fit, Matched
<1>9. Valued(schema, new)
  BY <1>2, <1>3, <1>10 DEF Fit, Valued
<1>. QED
  BY <1>6, <1>7, <1>8, <1>9 DEF Fit, schema, new

(* values.go 30-57: Add of a value with its schema.                           *)
LEMMA AddAgrees ==
    ASSUME NEW Z, NEW w, NEW v, Agrees(v, Z, w),
           NEW path \in Paths(Labels), NEW schema \in Schemas, NEW value \in Contents,
           schema.kind # "struct", value.kind # "struct",
           SchemaAt(path, schema, w), ValueSlot(path, value, Z),
           \A q \in StrictPrefixes(path) : SchemaAbove(q, w)
    PROVE  Agrees(Add(v, schema, value, path), Z, w)
<1> DEFINE node == [schema EXCEPT !.required = FALSE]
<1>1. << >> \in Definitions /\ << >> \in Sources
  BY DEF Definitions, Sources
<1>2. IsTyped(Add(v, schema, value, path))
  BY <1>1, AddKeepsValues DEF Agrees, IsTyped, Schemas, Contents
<1>3. node \in Schemas /\ node.kind = schema.kind /\ node.of = schema.of /\ ~node.required
  BY DEF Schemas, Nodes
<1>4. schema # NoSchema
  BY DEF Schemas, Nodes, NoSchema, Node, Kinds
<1>5. SchemaAt(path, node, w)
  BY <1>3, SlotsByKind
<1>. HIDE DEF node
<1>6. ASSUME Add(v, schema, value, path).outcome = "ok"
      PROVE  LET u == Add(v, schema, value, path) IN Fit(u.config, u.values, Z, w)
  <2>1. /\ v = [config |-> v.config, values |-> v.values, outcome |-> v.outcome]
        /\ IsSchema(v.config) /\ IsContent(v.values)
    BY DEF Agrees, IsTyped, IsValuesOver, IsSchema, IsContent
  <2>2. v.outcome = "ok" /\ ~Blocked(v.config, path)
    BY <1>4, <1>6, <2>1 DEF Add, AddConfig, SetValue
  <2>3. AddConfig(v, schema, FALSE, path) = [v EXCEPT !.config = Put(v.config, path, node)]
    BY <2>2 DEF AddConfig, node
  <2>4. ~Blocked(v.values, path)
    BY <1>4, <1>6, <2>1, <2>2, <2>3 DEF Add, SetValue
  <2>5. Add(v, schema, value, path) =
            [config |-> Put(v.config, path, node), values |-> Put(v.values, path, value),
             outcome |-> "ok"]
    BY <1>4, <2>1, <2>2, <2>3, <2>4 DEF Add, SetValue
  <2>6. Fit(Put(v.config, path, node), Put(v.values, path, value), Z, w)
    BY <1>3, <1>5, <2>1, <2>2, <2>4, PutBothFits DEF Agrees
  <2>. QED
    BY <2>5, <2>6
<1>. QED
  BY <1>2, <1>6 DEF Agrees

-----------------------------------------------------------------------------
(* What processPodContainer adds in parts                                     *)

(* The path of a part of a container.                                         *)
LEMMA TripleOf ==
    ASSUME NEW L, NEW a, NEW b, NEW c, a \in L, b \in L, c \in L
    PROVE  /\ <<a, b, c>> \in Seq(L) /\ Len(<<a, b, c>>) = 3 /\ <<a, b, c>> # << >>
           /\ <<a, b, c>>[1] = a /\ <<a, b, c>>[2] = b /\ <<a, b, c>>[3] = c
  OBVIOUS

LEMMA PairOf ==
    ASSUME NEW L, NEW a, NEW b, a \in L, b \in L
    PROVE  /\ <<a, b>> \in Seq(L) /\ Len(<<a, b>>) = 2 /\ <<a, b>> # << >>
           /\ <<a, b>>[1] = a /\ <<a, b>>[2] = b
  OBVIOUS

LEMMA PartShape ==
    ASSUME NEW a \in Labels, NEW b \in Labels, NEW part \in Labels
    PROVE  /\ <<a, b, part>> \in Paths(Labels) /\ Depth(<<a, b, part>>) = 3
           /\ ObjectOf(<<a, b, part>>) = a /\ ContainerOf(<<a, b, part>>) = b
           /\ PartOf(<<a, b, part>>) = part
           /\ <<a, b>> \in Paths(Labels) /\ Depth(<<a, b>>) = 2
           /\ ObjectOf(<<a, b>>) = a /\ ContainerOf(<<a, b>>) = b
  BY TripleOf, PairOf DEF Paths, Depth, ObjectOf, ContainerOf, PartOf

(* What has the first labels of a path is its prefix.                         *)
LEMMA PrefixByShape ==
    ASSUME NEW p \in Paths(Labels), NEW q \in Paths(Labels), Depth(q) \in 1..3,
           ObjectOf(q) = ObjectOf(p),
           Depth(q) >= 2 => ContainerOf(q) = ContainerOf(p),
           Depth(q) >= 3 => PartOf(q) = PartOf(p)
    PROVE  /\ Depth(q) < Depth(p) => q \in StrictPrefixes(p)
           /\ Depth(q) = Depth(p) => q = p
<1>1. /\ p \in Seq(Labels) /\ q \in Seq(Labels)
      /\ Len(p) \in Nat /\ Len(q) \in 1..3
      /\ q[1] = p[1] /\ (Len(q) >= 2 => q[2] = p[2]) /\ (Len(q) >= 3 => q[3] = p[3])
  BY LenOfPath DEF Depth, ObjectOf, ContainerOf, PartOf
<1>2. \A i \in 1..Len(q) : q[i] = p[i]
  BY <1>1
<1>3. Len(q) < Len(p) => q \in StrictPrefixes(p)
  BY <1>1, <1>2, PrefixByLabels
<1>4. Len(q) = Len(p) => q = p
  BY <1>1, <1>2, EqualLabels
<1>. QED
  BY <1>3, <1>4 DEF Depth

(* What is above the part of a container.                                     *)
LEMMA PartPrefixes ==
    ASSUME NEW a \in Labels, NEW b \in Labels, NEW part \in Labels,
           NEW p \in Paths(Labels), ObjectOf(p) = a,
           Depth(p) >= 2 => ContainerOf(p) = b, Depth(p) >= 3 => PartOf(p) = part
    PROVE  LET path == <<a, b, part>>
           IN  p = path \/ p \in StrictPrefixes(path) \/ path \in StrictPrefixes(p)
<1> DEFINE path == <<a, b, part>>
<1>1. /\ path \in Paths(Labels) /\ Depth(path) = 3
      /\ ObjectOf(path) = a /\ ContainerOf(path) = b /\ PartOf(path) = part
  BY PartShape
<1>2. Depth(p) \in Nat /\ Depth(p) >= 1
  BY Depths
<1>. HIDE DEF path
<1>3. CASE Depth(p) >= 3
  <2>1. Depth(path) < Depth(p) => path \in StrictPrefixes(p)
    BY <1>1, <1>2, <1>3, PrefixByShape
  <2>2. Depth(path) = Depth(p) => path = p
    BY <1>1, <1>2, <1>3, PrefixByShape
  <2>. QED
    BY <1>1, <1>2, <1>3, <2>1, <2>2 DEF path
<1>4. CASE Depth(p) < 3
  BY <1>1, <1>2, <1>4, PrefixByShape DEF path
<1>. QED
  BY <1>2, <1>3, <1>4

(* A part of an image, which has no schema of its own.                        *)
LEMMA PutImagePartFits ==
    ASSUME NEW Z, NEW w, PartOf(w) = "image", NEW config, NEW content,
           IsSchema(config), IsContent(content), Fit(config, content, Z, w),
           NEW path \in Paths(Labels), Depth(path) = 4, ObjectOf(path) = ObjectOf(w),
           ContainerOf(path) = ContainerOf(w), PartOf(path) = "image",
           NEW value \in Contents, value.kind = "atom", ~IsNumber(value), ~Blocked(content, path)
    PROVE  Fit(config, Put(content, path, value), Z, w)
<1> DEFINE new == Put(content, path, value)
<1>1. << >> \in Sources
  BY DEF Sources
<1>2. \A q \in StrictPrefixes(path) : q \in DOMAIN new /\ new[q].kind = "struct"
  BY <1>1, PutAt, PutAbove, PutElsewhere, PutStays DEF IsContent, Contents
<1>3. \A q \in DOMAIN new : q # path /\ q \notin StrictPrefixes(path) =>
         q \in DOMAIN content /\ new[q] = content[q]
  BY <1>1, PutAt, PutAbove, PutElsewhere, PutStays DEF IsContent, Contents
<1>4. \A q \in DOMAIN content : path \notin StrictPrefixes(q) => q \in DOMAIN new
  BY <1>1, PutAt, PutAbove, PutElsewhere, PutStays DEF IsContent, Contents
<1>5. ValueSlot(path, value, Z)
  BY DEF ValueSlot
<1>6. SlotsFit(config, new, Z, w)
  BY <1>5, PutFitsContent DEF Fit, SlotsFit
<1>7. \A q \in StrictPrefixes(path) : InImage(q, w)
  BY PrefixShape, Depths DEF InImage
<1>8. InImage(path, w)
  BY DEF InImage
<1>9. \A q \in StrictPrefixes(path) : q \in DOMAIN content => content[q].kind = "struct"
  BY DEF Blocked
<1>10. \A p \in DOMAIN config : HasValues(p) =>
           p \in DOMAIN content /\ p \in DOMAIN new /\ p # path
  <2>. SUFFICES ASSUME NEW p \in DOMAIN config, HasValues(p)
                PROVE  p \in DOMAIN content /\ p \in DOMAIN new /\ p # path
    OBVIOUS
  <2>1. p \in DOMAIN content
    BY DEF Fit, Valued
  <2>2. p \in Paths(Labels) /\ Depth(p) \in Nat /\ Depth(p) <= 3
    <3>1. p \in Paths(Labels)
      BY DEF IsSchema, IsTreeOver
    <3>. QED
      BY <3>1, Depths DEF HasValues
  <2>3. path \notin StrictPrefixes(p)
    BY <2>2, PrefixShape
  <2>. QED
    BY <1>4, <2>1, <2>2, <2>3
<1>. HIDE DEF new
<1>11. Covered(config, new, Z, w)
  BY <1>3, <1>7, <1>8 DEF Fit, Covered
<1>12. Matched(config, new, Z)
  <2>. SUFFICES ASSUME NEW p \in DOMAIN config, p \in DOMAIN new, Depth(p) <= 2
                PROVE  /\ config[p].kind = "struct" => new[p].kind = "struct"
                       /\ new[p].kind = "struct" =>
                             \/ config[p].kind = "struct"
                             \/ Depth(p) = 2 /\ Scaled(p, Z)
    BY DEF Matched
  <2>1. p \in DOMAIN content /\ p # path
    BY <1>10 DEF HasValues
  <2>2. new[p].kind = content[p].kind
    BY <1>2, <1>3, <1>9, <2>1
  <2>. QED
    BY <2>1, <2>2 DEF Fit, Matched
<1>13. Valued(config, new)
  BY <1>10 DEF Valued
<1>14. Fit(config, new, Z, w)
  BY <1>6, <1>11, <1>12, <1>13 DEF Fit
<1>. QED
  BY <1>14 DEF new

(* The schema of an image, when its parts are there: it is required, and      *)
(* covers them.                                                               *)
LEMMA PutImageFits ==
    ASSUME NEW Z, NEW a \in Labels, NEW b \in Labels, NEW config, NEW content,
           IsSchema(config), IsContent(content), Fit(config, content, Z, <<a, b, "image">>),
           <<a, b, "image">> \in DOMAIN content,
           NEW node \in Schemas, node.kind = "expr", IsExpr(node, "#Image"),
           ~Blocked(config, <<a, b, "image">>)
    PROVE  Fit(Put(config, <<a, b, "image">>, node), content, Z, Idle)
<1> DEFINE w == <<a, b, "image">>
           schema == Put(config, w, node)
<1>1. << >> \in Definitions /\ "image" \in Labels
  <2>1. << >> \in Definitions
    BY DEF Definitions
  <2>2. "image" \in Labels
    BY DEF Labels, Parts
  <2>. QED
    BY <2>1, <2>2
<1>2. /\ w \in Paths(Labels) /\ Depth(w) = 3
      /\ ObjectOf(w) = a /\ ContainerOf(w) = b /\ PartOf(w) = "image"
  BY <1>1, PartShape
<1>3. PartOf(Idle) = "none"
  BY DEF PartOf, Idle
<1>4. Fit(config, content, Z, w) /\ w \in DOMAIN content /\ ~Blocked(config, w)
  OBVIOUS
<1>. HIDE DEF w
<1>5. /\ w \in DOMAIN schema /\ schema[w].kind # "struct"
      /\ \A q \in StrictPrefixes(w) : q \in DOMAIN schema /\ schema[q].kind = "struct"
  BY <1>1, <1>2, <1>4, PutAt, PutAbove DEF IsSchema, Schemas
<1>6. \A q \in DOMAIN schema : q # w /\ q \notin StrictPrefixes(w) =>
         q \in DOMAIN config /\ schema[q] = config[q]
  BY <1>1, <1>2, <1>4, PutElsewhere DEF IsSchema, Schemas
<1>7. \A p \in Paths(Labels) : Has(config, p) => Has(schema, p)
  BY <1>2, <1>4, PutKeepsSchemas DEF Paths
<1>8. \A q \in StrictPrefixes(w) :
         q \in DOMAIN content /\ content[q].kind = "struct" /\ Depth(q) <= 2
  <2>1. \A q \in StrictPrefixes(w) : Depth(q) <= 2
    BY <1>2, PrefixShape, Depths
  <2>. QED
    BY <1>4, <2>1 DEF IsContent, IsTreeOver
<1>9. \A p \in DOMAIN content : p \in Paths(Labels)
  BY DEF IsContent, IsTreeOver
<1>10. SlotsFit(schema, content, Z, Idle)
  <2>1. \A p \in DOMAIN config : SchemaSlot(p, config[p], w)
    BY <1>4 DEF Fit, SlotsFit
  <2>2. \A p \in DOMAIN config : SchemaSlot(p, config[p], Idle)
    BY <1>2, <2>1 DEF SchemaSlot, SchemaAt, SchemaAbove, InPart
  <2>3. SchemaAt(w, node, Idle)
    BY <1>2 DEF SchemaAt
  <2>4. HasValues(w) /\ \A q \in StrictPrefixes(w) : HasValues(q) /\ SchemaAbove(q, Idle)
    BY <1>2, <1>8 DEF HasValues, SchemaAbove
  <2>5. \A p \in DOMAIN schema : SchemaSlot(p, schema[p], Idle)
    BY <1>2, <1>4, <2>1, <2>2, <2>3, <2>4, PutFitsSchema
  <2>. QED
    BY <1>4, <2>5 DEF Fit, SlotsFit
<1>. HIDE DEF schema
<1>11. Covered(schema, content, Z, Idle)
  <2>. SUFFICES ASSUME NEW p \in DOMAIN content, content[p].kind # "struct" \/ Depth(p) <= 2
                PROVE  Has(schema, p) \/ Below(p, Z)
    BY DEF Covered
  <2>1. Has(config, p) \/ Below(p, Z) \/ InImage(p, w)
    BY <1>4 DEF Fit, Covered
  <2>2. CASE InImage(p, w)
    <3>1. p = w \/ p \in StrictPrefixes(w) \/ w \in StrictPrefixes(p)
      BY <1>1, <1>2, <1>9, <2>2, PartPrefixes DEF InImage, w
    <3>. QED
      BY <1>5, <3>1 DEF Has
  <2>. QED
    BY <1>7, <1>9, <2>1, <2>2
<1>12. Matched(schema, content, Z)
  <2>. SUFFICES ASSUME NEW p \in DOMAIN schema, p \in DOMAIN content, Depth(p) <= 2
                PROVE  /\ schema[p].kind = "struct" => content[p].kind = "struct"
                       /\ content[p].kind = "struct" =>
                             \/ schema[p].kind = "struct"
                             \/ Depth(p) = 2 /\ Scaled(p, Z)
    BY DEF Matched
  <2>1. p # w
    BY <1>2
  <2>2. CASE p \in StrictPrefixes(w)
    BY <1>5, <1>8, <2>2
  <2>3. CASE p \notin StrictPrefixes(w)
    BY <1>4, <1>6, <2>1, <2>3 DEF Fit, Matched
  <2>. QED
    BY <2>2, <2>3
<1>13. Valued(schema, content)
  BY <1>4, <1>6, <1>8 DEF Fit, Valued
<1>14. Fit(schema, content, Z, Idle)
  BY <1>10, <1>11, <1>12, <1>13 DEF Fit
<1>. QED
  BY <1>14 DEF schema, w

(* The schema of resources, which replaces those of its parts.                *)
LEMMA PutResourcesFits ==
    ASSUME NEW Z, NEW a \in Labels, NEW b \in Labels, NEW config, NEW content,
           IsSchema(config), IsContent(content), Fit(config, content, Z, <<a, b, "resources">>),
           <<a, b>> \in DOMAIN content,
           NEW node \in Schemas, node.kind = "expr", IsExpr(node, "#ResourceRequirements"),
           ~node.required,
           ~Blocked(config, <<a, b, "resources">>)
    PROVE  Fit(Put(config, <<a, b, "resources">>, node), content, Z, Idle)
<1> DEFINE w == <<a, b, "resources">>
           object == <<a, b>>
           schema == Put(config, w, node)
<1>1. << >> \in Definitions /\ "resources" \in Labels
  <2>1. << >> \in Definitions
    BY DEF Definitions
  <2>2. "resources" \in Labels
    BY DEF Labels, Parts
  <2>. QED
    BY <2>1, <2>2
<1>2. /\ w \in Paths(Labels) /\ Depth(w) = 3
      /\ ObjectOf(w) = a /\ ContainerOf(w) = b /\ PartOf(w) = "resources"
      /\ object \in Paths(Labels) /\ Depth(object) = 2
      /\ ObjectOf(object) = a /\ ContainerOf(object) = b
  BY <1>1, PartShape
<1>3. PartOf(Idle) = "none"
  BY DEF PartOf, Idle
<1>4. Fit(config, content, Z, w) /\ object \in DOMAIN content /\ ~Blocked(config, w)
  OBVIOUS
<1>5. \A p \in Paths(Labels) : InPart(p, w, "resources") /\ Depth(p) \in {3, 4, 5} =>
         p = w \/ w \in StrictPrefixes(p)
  <2>. SUFFICES ASSUME NEW p \in Paths(Labels), InPart(p, w, "resources"), Depth(p) \in {3, 4, 5}
                PROVE  p = w \/ w \in StrictPrefixes(p)
    OBVIOUS
  <2>1. p = w \/ p \in StrictPrefixes(w) \/ w \in StrictPrefixes(p)
    BY <1>1, <1>2, PartPrefixes DEF InPart
  <2>2. p \notin StrictPrefixes(w)
    BY <1>2, PrefixShape
  <2>. QED
    BY <2>1, <2>2
<1>. HIDE DEF w, object
<1>6. /\ w \in DOMAIN schema /\ schema[w].kind # "struct"
      /\ \A q \in StrictPrefixes(w) : q \in DOMAIN schema /\ schema[q].kind = "struct"
  BY <1>1, <1>2, <1>4, PutAt, PutAbove DEF IsSchema, Schemas
<1>7. \A q \in DOMAIN schema : q # w /\ q \notin StrictPrefixes(w) =>
         q \in DOMAIN config /\ schema[q] = config[q]
  BY <1>1, <1>2, <1>4, PutElsewhere DEF IsSchema, Schemas
<1>8. \A p \in Paths(Labels) : Has(config, p) => Has(schema, p)
  BY <1>2, <1>4, PutKeepsSchemas DEF Paths
<1>9. \A p \in DOMAIN content : p \in Paths(Labels)
  BY DEF IsContent, IsTreeOver
<1>10. \A q \in StrictPrefixes(w) : q \in DOMAIN content /\ Depth(q) <= 2
  <2>. SUFFICES ASSUME NEW q \in StrictPrefixes(w) PROVE q \in DOMAIN content /\ Depth(q) <= 2
    OBVIOUS
  <2>1. /\ q \in Paths(Labels) /\ Depth(q) \in Nat /\ Depth(q) >= 1 /\ Depth(q) <= 2
        /\ ObjectOf(q) = ObjectOf(object) /\ (Depth(q) >= 2 => ContainerOf(q) = ContainerOf(object))
    BY <1>2, PrefixShape, Depths
  <2>2. q = object \/ q \in StrictPrefixes(object)
    BY <1>2, <2>1, PrefixByShape
  <2>. QED
    BY <1>4, <2>1, <2>2 DEF IsContent, IsTreeOver
<1>11. \A q \in StrictPrefixes(w) : content[q].kind = "struct"
  <2>. SUFFICES ASSUME NEW q \in StrictPrefixes(w) PROVE content[q].kind = "struct"
    OBVIOUS
  <2>1. CASE q \in DOMAIN config
    BY <1>4, <1>10, <2>1 DEF Blocked, Fit, Matched
  <2>2. CASE q \notin DOMAIN config
    <3>1. ~Has(config, q)
      BY <1>2, <1>4, <2>2, PrefixesNest DEF Has, Blocked, Paths
    <3>2. ~Below(q, Z) /\ ~InImage(q, w)
      BY <1>2, <1>10, PrefixShape, Depths DEF Below, InImage
    <3>. QED
      BY <1>4, <1>10, <3>1, <3>2 DEF Fit, Covered
  <2>. QED
    BY <2>1, <2>2
<1>12. SlotsFit(schema, content, Z, Idle)
  <2>1. \A p \in DOMAIN config : SchemaSlot(p, config[p], w) /\ p \in Paths(Labels)
    BY <1>4 DEF Fit, SlotsFit, IsSchema, IsTreeOver
  <2>2. \A p \in DOMAIN config : p # w /\ w \notin StrictPrefixes(p) =>
            SchemaSlot(p, config[p], Idle)
    <3>1. \A p \in DOMAIN config : p # w /\ w \notin StrictPrefixes(p) /\ Depth(p) \in {3, 4, 5} =>
              ~InPart(p, w, "resources")
      BY <1>5, <2>1
    <3>. QED
      BY <2>1, <3>1 DEF SchemaSlot, SchemaAt, SchemaAbove
  <2>3. SchemaAt(w, node, Idle)
    BY <1>2 DEF SchemaAt
  <2>4. \A q \in StrictPrefixes(w) : SchemaAbove(q, Idle)
    BY <1>10 DEF SchemaAbove
  <2>5. \A p \in DOMAIN schema : SchemaSlot(p, schema[p], Idle)
    BY <1>2, <1>4, <2>1, <2>2, <2>3, <2>4, PutFitsSchema
  <2>. QED
    BY <1>4, <2>5 DEF Fit, SlotsFit
<1>. HIDE DEF schema
<1>13. Covered(schema, content, Z, Idle)
  BY <1>2, <1>4, <1>8, <1>9 DEF Fit, Covered, InImage
<1>14. Matched(schema, content, Z)
  <2>. SUFFICES ASSUME NEW p \in DOMAIN schema, p \in DOMAIN content, Depth(p) <= 2
                PROVE  /\ schema[p].kind = "struct" => content[p].kind = "struct"
                       /\ content[p].kind = "struct" =>
                             \/ schema[p].kind = "struct"
                             \/ Depth(p) = 2 /\ Scaled(p, Z)
    BY DEF Matched
  <2>1. p # w
    BY <1>2
  <2>2. CASE p \in StrictPrefixes(w)
    BY <1>6, <1>11, <2>2
  <2>3. CASE p \notin StrictPrefixes(w)
    BY <1>4, <1>7, <2>1, <2>3 DEF Fit, Matched
  <2>. QED
    BY <2>2, <2>3
<1>15. Valued(schema, content)
  <2>1. ~HasValues(w)
    BY <1>2 DEF HasValues
  <2>. QED
    BY <1>4, <1>7, <1>10, <2>1 DEF Fit, Valued
<1>16. Fit(schema, content, Z, Idle)
  BY <1>12, <1>13, <1>14, <1>15 DEF Fit
<1>. QED
  BY <1>16 DEF schema, w

-----------------------------------------------------------------------------
(* Merging                                                                    *)

(* Two values of a slot combine to one of it.                                 *)
LEMMA CombineFits ==
    ASSUME NEW p, NEW Z, NEW x \in Contents, NEW y \in Contents,
           ValueSlot(p, x, Z), ValueSlot(p, y, Z)
    PROVE  /\ ValueSlot(p, Combine(x, y), Z)
           /\ x.kind # "zero" => Combine(x, y).kind = x.kind
<1>1. CASE x.kind = "zero"
  BY <1>1 DEF Combine
<1>2. CASE x.kind = y.kind /\ x.kind \in {"list", "map"}
  <2> DEFINE z == [x EXCEPT !.of = x.of \o y.of]
  <2>1. Combine(x, y) = z
    BY <1>2 DEF Combine
  <2>2. z.kind = x.kind
    BY DEF Contents, Nodes
  <2>. HIDE DEF z
  <2>3. ValueSlot(p, z, Z)
    BY <1>2, <2>2 DEF ValueSlot
  <2>. QED
    BY <2>1, <2>2, <2>3
<1>3. CASE x.kind # "zero" /\ ~(x.kind = y.kind /\ x.kind \in {"list", "map"})
  <2>1. Combine(x, y) = x
    BY <1>3 DEF Combine
  <2>. QED
    BY <2>1
<1>. QED
  BY <1>1, <1>2, <1>3

(* values.go 59-92: two structures in agreement are merged into two that are. *)
LEMMA MergeFits ==
    ASSUME NEW Z, NEW c1, NEW k1, NEW c2, NEW k2,
           IsSchema(c1), IsContent(k1), IsSchema(c2), IsContent(k2),
           Fit(c1, k1, Z, Idle), Fit(c2, k2, Z, Idle)
    PROVE  Fit(MergeTrees(c1, c2), MergeTrees(k1, k2), Z, Idle)
<1> DEFINE mc == MergeTrees(c1, c2)
           mk == MergeTrees(k1, k2)
<1>1. /\ \A q \in DOMAIN c1 : q \in Paths(Labels) /\ SchemaSlot(q, c1[q], Idle)
                              /\ c1[q].kind \in {"struct", "expr", "pattern"}
      /\ \A q \in DOMAIN c2 : q \in Paths(Labels) /\ SchemaSlot(q, c2[q], Idle)
  <2>1. \A q \in DOMAIN c1 : q \in Paths(Labels) /\ SchemaSlot(q, c1[q], Idle)
    BY DEF Fit, SlotsFit, IsSchema, IsTreeOver
  <2>2. \A q \in DOMAIN c1 : c1[q].kind \in {"struct", "expr", "pattern"}
    BY <2>1 DEF SchemaSlot, SchemaAt, IsExpr
  <2>3. \A q \in DOMAIN c2 : q \in Paths(Labels) /\ SchemaSlot(q, c2[q], Idle)
    BY DEF Fit, SlotsFit, IsSchema, IsTreeOver
  <2>. QED
    BY <2>1, <2>2, <2>3
<1>2. /\ \A q \in DOMAIN k1 : q \in Paths(Labels) /\ ValueSlot(q, k1[q], Z) /\ k1[q] \in Contents
      /\ \A q \in DOMAIN k2 : q \in Paths(Labels) /\ ValueSlot(q, k2[q], Z) /\ k2[q] \in Contents
  BY DEF Fit, SlotsFit, IsContent, IsTreeOver, Contents
<1>3. /\ \A q \in DOMAIN c1 : q \in DOMAIN mc /\ mc[q] = c1[q]
      /\ \A q \in DOMAIN mc : q \notin DOMAIN c1 =>
            q \in DOMAIN c2 /\ Reachable(c1, q) /\ mc[q] = c2[q]
      /\ \A q \in DOMAIN c2 : q \notin DOMAIN c1 /\ Reachable(c1, q) => q \in DOMAIN mc
  <2>1. \A q \in DOMAIN c1 : q \in DOMAIN mc /\ mc[q] = c1[q]
    <3>1. \A q \in DOMAIN c1 : c1[q].kind \notin {"zero", "list", "map"}
      BY <1>1
    <3>. QED
      BY <3>1, MergeKeepsFirst
  <2>2. DOMAIN mc = DOMAIN c1 \union {p \in DOMAIN c2 : Reachable(c1, p)}
    BY DEF MergeTrees
  <2>3. \A q \in DOMAIN mc : q \notin DOMAIN c1 =>
            q \in DOMAIN c2 /\ Reachable(c1, q) /\ mc[q] = c2[q]
    BY <2>2, MergeTakesSecond
  <2>. QED
    BY <2>1, <2>2, <2>3
<1>4. /\ \A q \in DOMAIN k1 :
            /\ q \in DOMAIN mk
            /\ ValueSlot(q, mk[q], Z)
            /\ k1[q].kind = "struct" => mk[q].kind = "struct"
            /\ k1[q].kind # "struct" /\ mk[q].kind = "struct" => k1[q].kind = "zero"
      /\ \A q \in DOMAIN mk : q \notin DOMAIN k1 =>
            q \in DOMAIN k2 /\ Reachable(k1, q) /\ mk[q] = k2[q]
      /\ \A q \in DOMAIN k2 : q \notin DOMAIN k1 /\ Reachable(k1, q) => q \in DOMAIN mk
  <2>1. DOMAIN mk = DOMAIN k1 \union {p \in DOMAIN k2 : Reachable(k1, p)}
    BY DEF MergeTrees
  <2>2. \A q \in DOMAIN mk : q \notin DOMAIN k1 =>
            q \in DOMAIN k2 /\ Reachable(k1, q) /\ mk[q] = k2[q]
    BY <2>1, MergeTakesSecond
  <2>3. \A q \in DOMAIN k1 : mk[q] = IF q \notin DOMAIN k2 THEN k1[q] ELSE Combine(k1[q], k2[q])
    BY DEF MergeTrees
  <2>. HIDE DEF mk
  <2>4. ASSUME NEW q \in DOMAIN k1
        PROVE  /\ ValueSlot(q, mk[q], Z)
               /\ k1[q].kind # "zero" => mk[q].kind = k1[q].kind
    BY <1>2, <2>3, CombineFits
  <2>. QED
    BY <2>1, <2>2, <2>4
<1>. HIDE DEF mc, mk
<1>5. \A p : Has(c1, p) => Has(mc, p)
  BY <1>3 DEF Has
<1>6. \A q \in DOMAIN k1 : k1[q].kind = "zero" =>
          (Depth(q) = 2 /\ Scaled(q, Z)) \/ Depth(q) = 4
  BY <1>2 DEF ValueSlot
<1>7. \A p : ~InImage(p, Idle)
  BY DEF InImage, Idle, PartOf
(* What has values in the first has a schema there, unless a schema above it  *)
(* leaves nothing to be taken over.                                           *)
<1>8. \A p \in DOMAIN k1 : Depth(p) <= 2 /\ p \notin DOMAIN c1 => ~Reachable(c1, p)
  <2>. SUFFICES ASSUME NEW p \in DOMAIN k1, Depth(p) <= 2, p \notin DOMAIN c1
                PROVE  ~Reachable(c1, p)
    OBVIOUS
  <2>1. ~Below(p, Z)
    BY <1>2, Depths DEF Below
  <2>2. Has(c1, p)
    BY <1>7, <2>1 DEF Fit, Covered
  <2>3. PICK q \in StrictPrefixes(p) : q \in DOMAIN c1 /\ c1[q].kind # "struct"
    BY <2>2 DEF Has
  <2>. QED
    BY <1>1, <2>3 DEF Reachable
<1>9. SlotsFit(mc, mk, Z, Idle)
  BY <1>1, <1>2, <1>3, <1>4 DEF SlotsFit
<1>10. Matched(mc, mk, Z)
  <2>. SUFFICES ASSUME NEW p \in DOMAIN mc, p \in DOMAIN mk, Depth(p) <= 2
                PROVE  /\ mc[p].kind = "struct" => mk[p].kind = "struct"
                       /\ mk[p].kind = "struct" =>
                             \/ mc[p].kind = "struct"
                             \/ Depth(p) = 2 /\ Scaled(p, Z)
    BY DEF Matched
  <2>1. CASE p \in DOMAIN c1
    <3>1. p \in DOMAIN k1 /\ mc[p] = c1[p]
      BY <1>3, <2>1 DEF Fit, Valued, HasValues
    <3>. QED
      BY <1>4, <1>6, <2>1, <3>1 DEF Fit, Matched
  <2>2. CASE p \notin DOMAIN c1
    <3>1. p \in DOMAIN c2 /\ Reachable(c1, p) /\ mc[p] = c2[p]
      BY <1>3, <2>2
    <3>2. p \notin DOMAIN k1
      BY <1>8, <2>2, <3>1
    <3>3. p \in DOMAIN k2 /\ mk[p] = k2[p]
      BY <1>4, <3>2
    <3>. QED
      BY <3>1, <3>3 DEF Fit, Matched
  <2>. QED
    BY <2>1, <2>2
<1>11. Valued(mc, mk)
  <2>. SUFFICES ASSUME NEW p \in DOMAIN mc, HasValues(p)
                PROVE  p \in DOMAIN mk
    BY DEF Valued
  <2>1. CASE p \in DOMAIN c1
    BY <1>4, <2>1 DEF Fit, Valued
  <2>2. CASE p \notin DOMAIN c1
    <3>1. p \in DOMAIN c2 /\ Reachable(c1, p) /\ p \in DOMAIN k2 /\ p \in Paths(Labels)
      BY <1>1, <1>3, <2>2 DEF Fit, Valued
    <3>2. Depth(p) <= 3
      BY <3>1, Depths DEF HasValues
    <3>3. ASSUME NEW r \in StrictPrefixes(p), r \in DOMAIN k1
          PROVE  k1[r].kind = "struct"
      <4>1. Depth(r) \in Nat /\ Depth(r) <= 2
        BY <3>1, <3>2, PrefixShape, Depths
      <4>2. CASE r \in DOMAIN c1
        <5>1. c1[r].kind = "struct"
          BY <1>1, <3>1, <4>2 DEF Reachable
        <5>. QED
          BY <3>3, <4>1, <4>2, <5>1 DEF Fit, Matched
      <4>3. CASE r \notin DOMAIN c1
        <5>1. Reachable(c1, r)
          BY <3>1, PrefixesNest DEF Reachable, Paths
        <5>. QED
          BY <1>8, <3>3, <4>1, <4>3, <5>1
      <4>. QED
        BY <4>2, <4>3
    <3>4. Reachable(k1, p)
      BY <3>3 DEF Reachable
    <3>. QED
      BY <1>4, <3>1, <3>4
  <2>. QED
    BY <2>1, <2>2
<1>12. Covered(mc, mk, Z, Idle)
  <2>. SUFFICES ASSUME NEW p \in DOMAIN mk, mk[p].kind # "struct" \/ Depth(p) <= 2
                PROVE  Has(mc, p) \/ Below(p, Z)
    BY DEF Covered
  <2>1. CASE p \in DOMAIN k1
    <3>1. k1[p].kind # "struct" \/ Depth(p) <= 2
      BY <1>4, <2>1
    <3>. QED
      BY <1>5, <1>7, <2>1, <3>1 DEF Fit, Covered
  <2>2. CASE p \notin DOMAIN k1
    <3>1. p \in DOMAIN k2 /\ mk[p] = k2[p] /\ p \in Paths(Labels)
      BY <1>2, <1>4, <2>2
    <3>2. Has(c2, p) \/ Below(p, Z)
      BY <1>7, <3>1 DEF Fit, Covered
    <3>. SUFFICES ASSUME Has(c2, p) PROVE Has(mc, p) \/ Below(p, Z)
      BY <3>2
    <3>3. PICK q \in DOMAIN c2 :
              q = p \/ (q \in StrictPrefixes(p) /\ c2[q].kind # "struct")
      BY DEF Has
    <3>4. CASE ~Reachable(c1, q)
      <4>1. PICK r \in StrictPrefixes(q) : r \in DOMAIN c1 /\ c1[r].kind # "struct"
        BY <3>4 DEF Reachable
      <4>2. r \in StrictPrefixes(p)
        BY <3>1, <3>3, <4>1, PrefixesNest DEF Paths
      <4>. QED
        BY <1>3, <4>1, <4>2 DEF Has
    <3>5. CASE Reachable(c1, q) /\ q \notin DOMAIN c1
      <4>1. q \in DOMAIN mc /\ mc[q] = c2[q]
        BY <1>3, <3>5
      <4>. QED
        BY <3>3, <4>1 DEF Has
    <3>6. CASE q \in DOMAIN c1
      <4>1. q \in DOMAIN mc /\ mc[q] = c1[q]
        BY <1>3, <3>6
      <4>2. CASE q = p \/ c1[q].kind # "struct"
        BY <3>3, <4>1, <4>2 DEF Has
      <4>3. CASE q \in StrictPrefixes(p) /\ c2[q].kind # "struct" /\ c1[q].kind = "struct"
        <5>1. Depth(q) <= 2
          <6>1. PartOf(Idle) = "none"
            BY DEF PartOf, Idle
          <6>2. SchemaAbove(q, Idle) /\ SchemaAt(q, c2[q], Idle)
            BY <1>1, <3>6, <4>3 DEF SchemaSlot
          <6>3. ~InPart(q, Idle, "resources")
            BY <6>1 DEF InPart
          <6>4. Depth(q) = 3 => PartOf(q) # "env"
            <7>1. Depth(q) \in Nat
              BY <1>1, <3>6, Depths
            <7>2. Depth(q) = 3 => PartOf(q) \in {"image", "resources", "imagePullPolicy", "args",
                                                "containerSecurityContext"}
              BY <6>2, <7>1 DEF SchemaAt
            <7>. QED
              BY <7>2
          <6>. QED
            BY <6>2, <6>3, <6>4 DEF SchemaAbove
        <5>2. q \in DOMAIN k2 /\ k2[q].kind = "struct"
          BY <3>1, <4>3 DEF IsContent, IsTreeOver
        <5>3. Depth(q) = 2 /\ Scaled(q, Z)
          BY <4>3, <5>1, <5>2 DEF Fit, Matched
        <5>4. Depth(q) < Depth(p) /\ ContainerOf(q) = ContainerOf(p) /\ ObjectOf(q) = ObjectOf(p)
          BY <3>1, <4>3, <5>3, PrefixShape
        <5>. QED
          BY <5>3, <5>4 DEF Below, Scaled
      <4>. QED
        BY <3>3, <4>2, <4>3
    <3>. QED
      BY <3>4, <3>5, <3>6
  <2>. QED
    BY <2>1, <2>2
<1>13. Fit(mc, mk, Z, Idle)
  BY <1>9, <1>10, <1>11, <1>12 DEF Fit
<1>. QED
  BY <1>13 DEF mc, mk

-----------------------------------------------------------------------------
(* The operations of a container                                              *)

LEMMA EmptyOrigins == << >> \in Definitions /\ << >> \in Sources
  BY DEF Definitions, Sources

(* What typed Values consist of.                                              *)
LEMMA ValuesRecord ==
    ASSUME NEW v, IsTyped(v)
    PROVE  /\ v = [config |-> v.config, values |-> v.values, outcome |-> v.outcome]
           /\ IsSchema(v.config) /\ IsContent(v.values)
  BY DEF IsTyped, IsValuesOver, IsSchema, IsContent

(* After a value is added well, its path and what is above it are there.      *)
LEMMA AddReaches ==
    ASSUME NEW v, IsTyped(v), NEW path \in Paths(Labels),
           NEW schema \in Schemas \union {NoSchema}, NEW value \in Contents
    PROVE  LET u == Add(v, schema, value, path)
           IN  u.outcome = "ok" =>
                  v.outcome = "ok" /\ \A q \in {path} \union StrictPrefixes(path) : q \in DOMAIN u.values
<1> DEFINE t == IF schema = NoSchema THEN v ELSE AddConfig(v, schema, FALSE, path)
           u == Add(v, schema, value, path)
<1>. SUFFICES ASSUME u.outcome = "ok"
              PROVE  v.outcome = "ok" /\ \A q \in {path} \union StrictPrefixes(path) : q \in DOMAIN u.values
  OBVIOUS
<1>1. u = SetValue(t, value, path)
  BY DEF Add
<1>2. IsTyped(t)
  <2>1. CASE schema = NoSchema
    BY <2>1
  <2>2. CASE schema # NoSchema
    <3>1. schema \in Nodes(Definitions)
      BY <2>2 DEF Schemas
    <3>2. IsTyped(AddConfig(v, schema, FALSE, path))
      BY <3>1, EmptyOrigins, AddConfigKeepsValues DEF IsTyped
    <3>. QED
      BY <2>2, <3>2
  <2>. QED
    BY <2>1, <2>2
<1>3. t = [config |-> t.config, values |-> t.values, outcome |-> t.outcome] /\ IsContent(t.values)
  BY <1>2, ValuesRecord
<1>4. t.outcome = "ok" => v.outcome = "ok"
  BY DEF AddConfig
<1>. HIDE DEF t
<1>5. t.outcome = "ok" /\ ~Blocked(t.values, path)
  BY <1>1, <1>3 DEF SetValue
<1>6. u.values = Put(t.values, path, value)
  BY <1>1, <1>3, <1>5 DEF SetValue
<1>7. \A q \in {path} \union StrictPrefixes(path) : q \in DOMAIN Put(t.values, path, value)
  <2>1. DOMAIN Put(t.values, path, value) = PutDomain(t.values, path)
    BY PutPaths
  <2>2. \A q \in {path} \union StrictPrefixes(path) : q \in PutDomain(t.values, path)
    BY DEF PutDomain
  <2>. QED
    BY <2>1, <2>2, Zenon
<1>. QED
  BY <1>4, <1>5, <1>6, <1>7

(* A part of an image is added without a schema: until the image has its own, *)
(* its values are the only ones without.                                      *)
LEMMA ImagePartAgrees ==
    ASSUME NEW Z, NEW w, PartOf(w) = "image", NEW v, Agrees(v, Z, w),
           NEW path \in Paths(Labels), Depth(path) = 4, ObjectOf(path) = ObjectOf(w),
           ContainerOf(path) = ContainerOf(w), PartOf(path) = "image",
           NEW value \in Contents, value.kind = "atom", ~IsNumber(value)
    PROVE  Agrees(Add(v, NoSchema, value, path), Z, w)
<1> DEFINE u == Add(v, NoSchema, value, path)
<1>1. u = SetValue(v, value, path)
  BY DEF Add
<1>2. IsTyped(v)
  BY DEF Agrees
<1>3. IsTyped(u)
  BY <1>1, <1>2, EmptyOrigins, SetValueKeepsValues DEF IsTyped, Contents
<1>4. /\ v = [config |-> v.config, values |-> v.values, outcome |-> v.outcome]
      /\ IsSchema(v.config) /\ IsContent(v.values)
  BY <1>2, ValuesRecord
<1>5. ASSUME u.outcome = "ok" PROVE Fit(u.config, u.values, Z, w)
  <2>1. v.outcome = "ok" /\ ~Blocked(v.values, path)
    BY <1>1, <1>4, <1>5 DEF SetValue
  <2>2. u = [config |-> v.config, values |-> Put(v.values, path, value), outcome |-> "ok"]
    BY <1>1, <1>4, <2>1 DEF SetValue
  <2>3. Fit(v.config, Put(v.values, path, value), Z, w)
    BY <1>4, <2>1, PutImagePartFits DEF Agrees
  <2>. QED
    BY <2>2, <2>3
<1>. QED
  BY <1>3, <1>5 DEF Agrees

(* A path of three labels is the part of a container.                         *)
LEMMA PartByShape ==
    ASSUME NEW path \in Paths(Labels), Depth(path) = 3
    PROVE  /\ path = <<ObjectOf(path), ContainerOf(path), PartOf(path)>>
           /\ ObjectOf(path) \in Labels /\ ContainerOf(path) \in Labels
  BY DEF Paths, Depth, ObjectOf, ContainerOf, PartOf

LEMMA PairByShape ==
    ASSUME NEW path \in Paths(Labels), Depth(path) = 2
    PROVE  path = <<ObjectOf(path), ContainerOf(path)>>
  BY DEF Paths, Depth, ObjectOf, ContainerOf

(* The schema of the image closes the gap.                                    *)
LEMMA ImageSchemaAgrees ==
    ASSUME NEW Z, NEW path \in Paths(Labels), Depth(path) = 3, PartOf(path) = "image",
           NEW v, Agrees(v, Z, path), v.outcome = "ok" => path \in DOMAIN v.values,
           NEW schema \in Schemas, IsExpr(schema, "#Image")
    PROVE  /\ Agrees(AddConfig(v, schema, TRUE, path), Z, Idle)
           /\ AddConfig(v, schema, TRUE, path).values = v.values
           /\ AddConfig(v, schema, TRUE, path).outcome = "ok" => v.outcome = "ok"
<1> DEFINE u == AddConfig(v, schema, TRUE, path)
           node == [schema EXCEPT !.required = TRUE]
<1>1. IsTyped(v)
  BY DEF Agrees
<1>2. IsTyped(u)
  <2>1. schema \in Nodes(Definitions) /\ TRUE \in BOOLEAN
    BY DEF Schemas
  <2>. QED
    BY <1>1, <2>1, EmptyOrigins, AddConfigKeepsValues DEF IsTyped
<1>3. /\ v = [config |-> v.config, values |-> v.values, outcome |-> v.outcome]
      /\ IsSchema(v.config) /\ IsContent(v.values)
  BY <1>1, ValuesRecord
<1>4. node \in Schemas /\ node.kind = "expr" /\ IsExpr(node, "#Image")
  BY DEF Schemas, Nodes, IsExpr
<1>. HIDE DEF node
<1>5. u.values = v.values /\ (u.outcome = "ok" => v.outcome = "ok")
  BY <1>3 DEF AddConfig
<1>6. ASSUME u.outcome = "ok" PROVE Fit(u.config, u.values, Z, Idle)
  <2>1. v.outcome = "ok" /\ ~Blocked(v.config, path)
    BY <1>3, <1>6 DEF AddConfig
  <2>2. u.config = Put(v.config, path, node)
    BY <1>3, <2>1 DEF AddConfig, node
  <2>3. Fit(Put(v.config, path, node), v.values, Z, Idle)
    <3> DEFINE a == ObjectOf(path)
               b == ContainerOf(path)
    <3>1. path = <<a, b, "image">> /\ a \in Labels /\ b \in Labels
      BY PartByShape
    <3>. HIDE DEF a, b
    <3>2. /\ Fit(v.config, v.values, Z, <<a, b, "image">>)
          /\ <<a, b, "image">> \in DOMAIN v.values /\ ~Blocked(v.config, <<a, b, "image">>)
      BY <2>1, <3>1 DEF Agrees
    <3>3. Fit(Put(v.config, <<a, b, "image">>, node), v.values, Z, Idle)
      BY <1>3, <1>4, <3>1, <3>2, PutImageFits
    <3>. QED
      BY <3>1, <3>3
  <2>. QED
    BY <1>5, <2>2, <2>3
<1>7. Agrees(u, Z, Idle)
  BY <1>2, <1>6 DEF Agrees
<1>. QED
  BY <1>5, <1>7

(* The schema of resources replaces those of single resources.                *)
LEMMA ResourcesSchemaAgrees ==
    ASSUME NEW Z, NEW path \in Paths(Labels), Depth(path) = 3, PartOf(path) = "resources",
           NEW root \in StrictPrefixes(path), Depth(root) = 2,
           NEW v, Agrees(v, Z, path), v.outcome = "ok" => root \in DOMAIN v.values,
           NEW schema \in Schemas, IsExpr(schema, "#ResourceRequirements")
    PROVE  /\ Agrees(AddConfig(v, schema, FALSE, path), Z, Idle)
           /\ AddConfig(v, schema, FALSE, path).values = v.values
           /\ AddConfig(v, schema, FALSE, path).outcome = "ok" => v.outcome = "ok"
<1> DEFINE u == AddConfig(v, schema, FALSE, path)
           node == [schema EXCEPT !.required = FALSE]
<1>1. IsTyped(v)
  BY DEF Agrees
<1>2. IsTyped(u)
  <2>1. schema \in Nodes(Definitions) /\ FALSE \in BOOLEAN
    BY DEF Schemas
  <2>. QED
    BY <1>1, <2>1, EmptyOrigins, AddConfigKeepsValues DEF IsTyped
<1>3. /\ v = [config |-> v.config, values |-> v.values, outcome |-> v.outcome]
      /\ IsSchema(v.config) /\ IsContent(v.values)
  BY <1>1, ValuesRecord
<1>4. /\ node \in Schemas /\ node.kind = "expr" /\ ~node.required
      /\ IsExpr(node, "#ResourceRequirements")
  BY DEF Schemas, Nodes, IsExpr
<1>. HIDE DEF node
<1>5. u.values = v.values /\ (u.outcome = "ok" => v.outcome = "ok")
  BY <1>3 DEF AddConfig
<1>6. ASSUME u.outcome = "ok" PROVE Fit(u.config, u.values, Z, Idle)
  <2>1. v.outcome = "ok" /\ ~Blocked(v.config, path)
    BY <1>3, <1>6 DEF AddConfig
  <2>2. u.config = Put(v.config, path, node)
    BY <1>3, <2>1 DEF AddConfig, node
  <2>3. Fit(Put(v.config, path, node), v.values, Z, Idle)
    <3> DEFINE a == ObjectOf(path)
               b == ContainerOf(path)
    <3>1. path = <<a, b, "resources">> /\ a \in Labels /\ b \in Labels
      BY PartByShape
    <3>2. root = <<a, b>>
      BY PrefixShape, PairByShape
    <3>. HIDE DEF a, b
    <3>3. /\ Fit(v.config, v.values, Z, <<a, b, "resources">>)
          /\ <<a, b>> \in DOMAIN v.values /\ ~Blocked(v.config, <<a, b, "resources">>)
      BY <2>1, <3>1, <3>2 DEF Agrees
    <3>4. Fit(Put(v.config, <<a, b, "resources">>, node), v.values, Z, Idle)
      BY <1>3, <1>4, <3>1, <3>3, PutResourcesFits
    <3>. QED
      BY <3>1, <3>4
  <2>. QED
    BY <1>5, <2>2, <2>3
<1>7. Agrees(u, Z, Idle)
  BY <1>2, <1>6 DEF Agrees
<1>. QED
  BY <1>5, <1>7

(* A part that is begun changes nothing.                                      *)
LEMMA PartBegins ==
    ASSUME NEW Z, NEW v, Agrees(v, Z, Idle), NEW a \in Labels, NEW b \in Labels,
           NEW part \in Labels
    PROVE  Agrees(v, Z, <<a, b, part>>)
<1>1. \A p \in DOMAIN v.config : Depth(p) \in Nat
  BY Depths DEF Agrees, IsTyped, IsValuesOver, IsTreeOver
<1>2. \A p, part1 : ~InPart(p, Idle, part1) \/ part1 = "none"
  BY DEF InPart, Idle, PartOf
<1>3. \A p : ~InImage(p, Idle)
  BY DEF InImage, Idle, PartOf
<1>4. "resources" # "none"
  OBVIOUS
<1>5. \A p, node : SchemaSlot(p, node, Idle) => SchemaSlot(p, node, <<a, b, part>>)
  <2>. TAKE p, node
  <2>1. ~InPart(p, Idle, "resources")
    BY <1>2, <1>4
  <2>2. SchemaAt(p, node, Idle) => SchemaAt(p, node, <<a, b, part>>)
    BY <2>1 DEF SchemaAt
  <2>3. SchemaAbove(p, Idle) => SchemaAbove(p, <<a, b, part>>)
    BY <2>1 DEF SchemaAbove
  <2>. QED
    BY <2>2, <2>3 DEF SchemaSlot
<1>. QED
  BY <1>3, <1>5 DEF Agrees, Fit, SlotsFit, Covered

(* values.go 31-38: merging Values that agree leaves such Values, unless      *)
(* the run ends with it.                                                      *)
LEMMA MergeAgrees ==
    ASSUME NEW Z, NEW v, Agrees(v, Z, Idle), NEW u, Agrees(u, Z, Idle), u.outcome = "ok"
    PROVE  LET m == Merge(v, u) IN Agrees(m, Z, Idle) /\ (m.outcome = "ok" => v.outcome = "ok")
<1> DEFINE m == Merge(v, u)
<1>1. IsTyped(v) /\ IsTyped(u)
  BY DEF Agrees
<1>2. \A x, y \in Definitions : x \o y \in Definitions
  BY Concatenation DEF Definitions
<1>3. \A x, y \in Sources : x \o y \in Sources
  BY DEF Sources
<1>4. IsTyped(m)
  BY <1>1, <1>2, <1>3, MergeKeepsValues DEF IsTyped
<1>5. /\ v = [config |-> v.config, values |-> v.values, outcome |-> v.outcome]
      /\ IsSchema(v.config) /\ IsContent(v.values)
      /\ IsSchema(u.config) /\ IsContent(u.values)
  BY <1>1, ValuesRecord
<1>6. ASSUME m.outcome = "ok"
      PROVE  v.outcome = "ok" /\ Fit(m.config, m.values, Z, Idle)
  <2>1. v.outcome = "ok" /\ ~CannotAppend(v.values, u.values)
        /\ ~NotIdentifiers(v.config, u.config)
    BY <1>5, <1>6 DEF Merge
  <2>2. m = [v EXCEPT !.values = MergeTrees(v.values, u.values),
                      !.config = MergeTrees(v.config, u.config)]
    BY <2>1 DEF Merge
  <2>3. m.config = MergeTrees(v.config, u.config) /\ m.values = MergeTrees(v.values, u.values)
    BY <1>5, <2>2
  <2>4. Fit(MergeTrees(v.config, u.config), MergeTrees(v.values, u.values), Z, Idle)
    BY <1>5, <2>1, MergeFits DEF Agrees
  <2>. QED
    BY <2>1, <2>3, <2>4
<1>. QED
  BY <1>4, <1>6 DEF Agrees

-----------------------------------------------------------------------------
(* Security contexts                                                          *)

(* What the security contexts at a path come from: contexts of the run that   *)
(* belong there, of Deployments lo to hi, and of each at most one.            *)
ContextAt(p) == Depth(p) = 3 /\ PartOf(p) = "containerSecurityContext"
ContextsFrom(of, p, lo, hi) ==
    /\ \A k \in 1..Len(of) :
          of[k].dep \in lo..hi /\ <<of[k].dep, of[k].container>> \in Contexts(p)
    /\ \A k, l \in 1..Len(of) : of[k].dep = of[l].dep => k = l
SecuredBy(content, lo, hi) ==
    \A p \in DOMAIN content :
        ContextAt(p) /\ content[p].kind = "map" => ContextsFrom(content[p].of, p, lo, hi)
KeepsSecured(v, u) == \A lo, hi : SecuredBy(v.values, lo, hi) => SecuredBy(u.values, lo, hi)

(* Add sets a value or leaves the values there are.                           *)
LEMMA AddSetsOrLeaves ==
    ASSUME NEW v, IsTyped(v), NEW path, NEW schema, NEW value
    PROVE  LET u == Add(v, schema, value, path)
           IN  \/ u.values = v.values
               \/ ~Blocked(v.values, path) /\ u.values = Put(v.values, path, value)
<1> DEFINE t == IF schema = NoSchema THEN v ELSE AddConfig(v, schema, FALSE, path)
<1>1. v = [config |-> v.config, values |-> v.values, outcome |-> v.outcome]
  BY ValuesRecord
<1>2. t.values = v.values /\ t = [config |-> t.config, values |-> t.values, outcome |-> t.outcome]
  BY <1>1 DEF AddConfig
<1>3. Add(v, schema, value, path) = SetValue(t, value, path)
  BY DEF Add
<1>. HIDE DEF t
<1>. QED
  BY <1>2, <1>3 DEF SetValue

LEMMA AddSecured ==
    ASSUME NEW v, IsTyped(v), NEW path \in Paths(Labels), NEW schema, NEW value \in Contents,
           NEW lo, NEW hi, SecuredBy(v.values, lo, hi),
           ContextAt(path) /\ value.kind = "map" => ContextsFrom(value.of, path, lo, hi)
    PROVE  SecuredBy(Add(v, schema, value, path).values, lo, hi)
<1> DEFINE new == Put(v.values, path, value)
<1>1. IsContent(v.values) /\ << >> \in Sources
  BY ValuesRecord, EmptyOrigins
<1>2. ASSUME ~Blocked(v.values, path) PROVE SecuredBy(new, lo, hi)
  <2>1. new[path].kind = value.kind /\ new[path].of = value.of
    BY <1>1, <1>2, PutAt DEF IsContent, Contents
  <2>2. \A q \in StrictPrefixes(path) : new[q].kind = "struct"
    BY <1>1, <1>2, PutAbove DEF IsContent, Contents
  <2>3. \A q \in DOMAIN new : q # path /\ q \notin StrictPrefixes(path) =>
           q \in DOMAIN v.values /\ new[q] = v.values[q]
    BY <1>1, <1>2, PutElsewhere DEF IsContent, Contents
  <2>. HIDE DEF new
  <2>. QED
    BY <2>1, <2>2, <2>3 DEF SecuredBy
<1>. QED
  BY <1>2, AddSetsOrLeaves

LEMMA OtherAddSecured ==
    ASSUME NEW v, IsTyped(v), NEW path \in Paths(Labels), NEW schema, NEW value \in Contents,
           ~ContextAt(path) \/ value.kind # "map"
    PROVE  KeepsSecured(v, Add(v, schema, value, path))
  BY AddSecured DEF KeepsSecured

(* An origin's Deployment is a number.                                        *)
LEMMA OriginsOf ==
    ASSUME NEW of \in Seq(Origins)
    PROVE  Len(of) \in Nat /\ \A k \in 1..Len(of) : of[k].dep \in Nat
<1>1. \A o \in Origins : o.dep \in Nat
  BY DEF Origins
<1>2. Len(of) \in Nat /\ \A k \in 1..Len(of) : of[k] \in Origins
  OBVIOUS
<1>. QED
  BY <1>1, <1>2

(* Of the contexts of two ranges of Deployments, Merge keeps or joins some.    *)
LEMMA MergeSecured ==
    ASSUME NEW first, IsContent(first), NEW second, IsContent(second),
           NEW lo \in Int, NEW mid \in Int, NEW hi \in Int, lo <= mid + 1, mid <= hi,
           SecuredBy(first, lo, mid), SecuredBy(second, mid + 1, hi)
    PROVE  SecuredBy(MergeTrees(first, second), lo, hi)
<1> DEFINE merged == MergeTrees(first, second)
<1>1. SUFFICES ASSUME NEW p \in DOMAIN merged, ContextAt(p), merged[p].kind = "map"
               PROVE  ContextsFrom(merged[p].of, p, lo, hi)
  BY DEF SecuredBy
<1>2. \/ p \notin DOMAIN first /\ p \in DOMAIN second /\ merged[p] = second[p]
      \/ p \in DOMAIN first /\ p \notin DOMAIN second /\ merged[p] = first[p]
      \/ /\ p \in DOMAIN first /\ p \in DOMAIN second
         /\ merged[p] = Combine(first[p], second[p])
  BY DEF MergeTrees
<1>. HIDE DEF merged
<1>3. \A t \in {first, second} : p \in DOMAIN t => t[p].of \in Seq(Origins) /\ t[p] \in Contents
  BY DEF IsContent, IsTreeOver, Contents, Nodes, Sources
<1>4. ASSUME NEW of \in Seq(Origins), ContextsFrom(of, p, lo, mid) \/ ContextsFrom(of, p, mid + 1, hi)
      PROVE  ContextsFrom(of, p, lo, hi)
  <2>1. \A k \in 1..Len(of) : of[k].dep \in Nat
    BY <1>4, OriginsOf
  <2>. QED
    BY <1>4, <2>1 DEF ContextsFrom
<1>5. p \in DOMAIN first /\ first[p].kind = "map" => ContextsFrom(first[p].of, p, lo, mid)
  BY <1>1 DEF SecuredBy
<1>6. p \in DOMAIN second /\ second[p].kind = "map" => ContextsFrom(second[p].of, p, mid + 1, hi)
  BY <1>1 DEF SecuredBy
<1>7. CASE p \in DOMAIN first /\ p \in DOMAIN second /\ merged[p] = Combine(first[p], second[p])
  <2>1. \/ merged[p] = second[p]
        \/ merged[p] = first[p]
        \/ /\ first[p].kind = "map" /\ second[p].kind = "map"
           /\ merged[p].of = first[p].of \o second[p].of
    <3>1. DOMAIN first[p] = {"kind", "of", "required"}
      BY <1>3, <1>7 DEF Contents, Nodes
    <3>. QED
      BY <1>1, <1>7, <3>1 DEF Combine
  <2>2. CASE /\ first[p].kind = "map" /\ second[p].kind = "map"
             /\ merged[p].of = first[p].of \o second[p].of
    <3> DEFINE f == first[p].of
               s == second[p].of
               of == merged[p].of
    <3>1. f \in Seq(Origins) /\ s \in Seq(Origins) /\ of = f \o s
      BY <1>3, <1>7, <2>2
    <3>2. ContextsFrom(f, p, lo, mid) /\ ContextsFrom(s, p, mid + 1, hi)
      BY <1>5, <1>6, <1>7, <2>2
    <3>. HIDE DEF f, s, of
    <3>3. /\ Len(f) \in Nat /\ Len(s) \in Nat /\ Len(of) = Len(f) + Len(s)
          /\ \A k \in 1..Len(f) : of[k] = f[k]
          /\ \A k \in Len(f) + 1..Len(of) : of[k] = s[k - Len(f)] /\ k - Len(f) \in 1..Len(s)
      BY <3>1
    <3>4. /\ \A k \in 1..Len(f) : f[k].dep \in lo..mid /\ f[k].dep \in Nat
                                  /\ <<f[k].dep, f[k].container>> \in Contexts(p)
          /\ \A k, l \in 1..Len(f) : f[k].dep = f[l].dep => k = l
      BY <3>1, <3>2, OriginsOf DEF ContextsFrom
    <3>5. /\ \A k \in 1..Len(s) : s[k].dep \in mid + 1..hi /\ s[k].dep \in Nat
                                  /\ <<s[k].dep, s[k].container>> \in Contexts(p)
          /\ \A k, l \in 1..Len(s) : s[k].dep = s[l].dep => k = l
      BY <3>1, <3>2, OriginsOf DEF ContextsFrom
    <3>6. \A k \in 1..Len(of) :
              \/ /\ k \in 1..Len(f) /\ of[k].dep \in lo..mid
                 /\ <<of[k].dep, of[k].container>> \in Contexts(p)
              \/ /\ k \in Len(f) + 1..Len(of) /\ of[k].dep \in mid + 1..hi
                 /\ <<of[k].dep, of[k].container>> \in Contexts(p)
      <4>. TAKE k \in 1..Len(of)
      <4>1. CASE k \in 1..Len(f)
        BY <3>3, <3>4, <4>1
      <4>2. CASE k \in Len(f) + 1..Len(of)
        <5>1. of[k] = s[k - Len(f)] /\ k - Len(f) \in 1..Len(s)
          BY <3>3, <4>2
        <5>. QED
          BY <3>5, <4>2, <5>1
      <4>. QED
        BY <3>3, <4>1, <4>2
    <3>7. \A k, l \in 1..Len(of) : of[k].dep = of[l].dep => k = l
      <4>. SUFFICES ASSUME NEW k \in 1..Len(of), NEW l \in 1..Len(of), of[k].dep = of[l].dep
                    PROVE  k = l
        OBVIOUS
      <4>1. \/ k \in 1..Len(f) /\ l \in 1..Len(f)
            \/ k \in Len(f) + 1..Len(of) /\ l \in Len(f) + 1..Len(of)
        <5>1. \/ k \in 1..Len(f) /\ of[k].dep \in lo..mid
              \/ k \in Len(f) + 1..Len(of) /\ of[k].dep \in mid + 1..hi
          BY <3>6
        <5>2. \/ l \in 1..Len(f) /\ of[l].dep \in lo..mid
              \/ l \in Len(f) + 1..Len(of) /\ of[l].dep \in mid + 1..hi
          BY <3>6
        <5>. QED
          BY <5>1, <5>2
      <4>2. CASE k \in 1..Len(f) /\ l \in 1..Len(f)
        BY <3>3, <3>4, <4>2
      <4>3. CASE k \in Len(f) + 1..Len(of) /\ l \in Len(f) + 1..Len(of)
        <5>1. /\ of[k] = s[k - Len(f)] /\ k - Len(f) \in 1..Len(s)
              /\ of[l] = s[l - Len(f)] /\ l - Len(f) \in 1..Len(s)
          BY <3>3, <4>3
        <5>2. k - Len(f) = l - Len(f)
          BY <3>5, <5>1
        <5>. QED
          BY <3>3, <5>2
      <4>. QED
        BY <4>1, <4>2, <4>3
    <3>9. \A k \in 1..Len(of) : of[k].dep \in lo..hi
                                 /\ <<of[k].dep, of[k].container>> \in Contexts(p)
      BY <3>6
    <3>8. ContextsFrom(of, p, lo, hi)
      BY <3>7, <3>9 DEF ContextsFrom
    <3>. QED
      BY <3>8 DEF of
  <2>. QED
    BY <1>1, <1>3, <1>4, <1>5, <1>6, <1>7, <2>1, <2>2
<1>. QED
  BY <1>1, <1>2, <1>3, <1>4, <1>5, <1>6, <1>7

LEMMA MergeSecuredBy ==
    ASSUME NEW Z, NEW v, Agrees(v, Z, Idle), NEW u, Agrees(u, Z, Idle),
           NEW lo \in Int, NEW mid \in Int, NEW hi \in Int, lo <= mid + 1, mid <= hi,
           SecuredBy(v.values, lo, mid), SecuredBy(u.values, mid + 1, hi)
    PROVE  SecuredBy(Merge(v, u).values, lo, hi)
<1>1. IsContent(v.values) /\ IsContent(u.values)
  BY ValuesRecord DEF Agrees
<1>2. v = [config |-> v.config, values |-> v.values, outcome |-> v.outcome]
  BY ValuesRecord DEF Agrees
<1>3. Merge(v, u).values \in {v.values, MergeTrees(v.values, u.values)}
  BY <1>2 DEF Merge
<1>4. SecuredBy(MergeTrees(v.values, u.values), lo, hi)
  BY <1>1, MergeSecured
<1>5. SecuredBy(v.values, lo, hi)
  <2>. SUFFICES ASSUME NEW p \in DOMAIN v.values, ContextAt(p), v.values[p].kind = "map"
                PROVE  ContextsFrom(v.values[p].of, p, lo, hi)
    BY DEF SecuredBy
  <2> DEFINE of == v.values[p].of
  <2>1. ContextsFrom(of, p, lo, mid)
    BY DEF SecuredBy
  <2>2. of \in Seq(Origins)
    BY <1>1 DEF IsContent, IsTreeOver, Nodes, Sources
  <2>. HIDE DEF of
  <2>3. \A k \in 1..Len(of) : of[k].dep \in Nat
    BY <2>2, OriginsOf
  <2>. QED
    BY <2>1, <2>3 DEF ContextsFrom, of
<1>. QED
  BY <1>3, <1>4, <1>5

-----------------------------------------------------------------------------
(* Adding one value after another                                             *)

(* What holds for the first and passes to the next holds up to the last.      *)
LEMMA UpTo ==
    ASSUME NEW N \in Nat, NEW G, 0 \in G, \A n \in 0..N : n \in G /\ n < N => n + 1 \in G
    PROVE  \A n \in 0..N : n \in G
<1> DEFINE T == {n \in 0..N : n \notin G}
<1>1. SUFFICES ASSUME T # {} PROVE FALSE
  OBVIOUS
<1>2. T \in SUBSET Nat
  OBVIOUS
<1>3. PICK n \in T : \A m \in T : <<m, n>> \notin OpToRel(<, Nat)
  BY <1>1, <1>2, WFMin, NatLessThanWellFounded, Zenon
<1>4. \A m \in T : ~(m < n)
  BY <1>2, <1>3, Zenon DEF OpToRel
<1>5. n # 0 /\ n \in 0..N /\ n \notin G
  OBVIOUS
<1>6. n - 1 \in 0..N /\ n - 1 < N /\ n - 1 < n /\ n - 1 + 1 = n
  BY <1>5
<1>7. n - 1 \notin G
  BY <1>5, <1>6
<1>. QED
  BY <1>4, <1>6, <1>7

(* AddAll adds one after another.                                             *)
LEMMA AddAllStages ==
    ASSUME NEW v, NEW adds, Len(adds) \in Nat
    PROVE  \E after :
              /\ after[0] = v
              /\ \A n \in 1..Len(adds) :
                    after[n] = Add(after[n - 1], adds[n].schema, adds[n].value, adds[n].path)
              /\ AddAll(v, adds) = after[Len(adds)]
<1> DEFINE N == Len(adds)
           Step(u, n) == Add(u, adds[n].schema, adds[n].value, adds[n].path)
           IsStage(f, m) == f = [n \in 0..m |-> IF n = 0 THEN v ELSE Step(f[n - 1], n)]
           G == {m \in 0..N : \E f : IsStage(f, m)}
<1>. HIDE DEF Step
<1>1. 0 \in G
  <2> DEFINE g == [n \in 0..0 |-> v]
  <2>1. \A n \in 0..0 : g[n] = IF n = 0 THEN v ELSE Step(g[n - 1], n)
    <3>1. \A n \in 0..0 : n = 0 /\ g[n] = v
      OBVIOUS
    <3>. HIDE DEF g
    <3>. QED
      BY <3>1
  <2>2. g = [n \in 0..0 |-> g[n]]
    OBVIOUS
  <2>. HIDE DEF g
  <2>3. IsStage(g, 0)
    BY <2>1, <2>2
  <2>. QED
    BY <2>3
<1>2. ASSUME NEW m \in 0..N, m \in G, m < N
      PROVE  m + 1 \in G
  <2>1. PICK f : IsStage(f, m)
    BY <1>2
  <2> DEFINE g == [n \in 0..m + 1 |-> IF n <= m THEN f[n] ELSE Step(f[m], n)]
  <2>2. \A n \in 0..m : f[n] = IF n = 0 THEN v ELSE Step(f[n - 1], n)
    BY <2>1
  <2>3. \A n \in 0..m : g[n] = f[n]
    OBVIOUS
  <2>4. g[m + 1] = Step(f[m], m + 1)
    OBVIOUS
  <2>5. ASSUME NEW n \in 0..m + 1
        PROVE  g[n] = IF n = 0 THEN v ELSE Step(g[n - 1], n)
    <3>1. CASE n = m + 1
      <4>1. n # 0 /\ n - 1 = m /\ g[m] = f[m]
        BY <2>3, <3>1
      <4>. HIDE DEF g
      <4>. QED
        BY <2>4, <3>1, <4>1
    <3>2. CASE n \in 0..m
      <4>1. g[n] = f[n] /\ (n # 0 => n - 1 \in 0..m)
        BY <2>3, <3>2
      <4>2. n # 0 => g[n - 1] = f[n - 1]
        BY <2>3, <4>1
      <4>. HIDE DEF g
      <4>. QED
        BY <2>2, <3>2, <4>1, <4>2
    <3>. QED
      BY <3>1, <3>2
  <2>6. g = [n \in 0..m + 1 |-> g[n]]
    OBVIOUS
  <2>7. IsStage(g, m + 1)
    <3>. HIDE DEF g
    <3>. QED
      BY <2>5, <2>6
  <2>8. m + 1 \in 0..N
    BY <1>2
  <2>. QED
    BY <2>7, <2>8
<1>3. N \in G
  <2>. HIDE DEF G
  <2>1. \A n \in 0..N : n \in G /\ n < N => n + 1 \in G
    BY <1>2
  <2>2. N \in Nat /\ N \in 0..N
    OBVIOUS
  <2>. HIDE DEF N
  <2>. QED
    BY <1>1, <2>1, <2>2, UpTo
<1>4. \E f : IsStage(f, N)
  BY <1>3
<1> DEFINE after == CHOOSE f : IsStage(f, N)
<1>5. IsStage(after, N)
  <2>. HIDE DEF IsStage
  <2>. QED
    BY <1>4
<1>6. AddAll(v, adds) = after[N]
  BY DEF AddAll, Step
<1>. HIDE DEF after
<1>7. after[0] = v
  BY <1>5
<1>8. \A n \in 1..N : after[n] = Step(after[n - 1], n)
  BY <1>5
<1>. QED
  BY <1>6, <1>7, <1>8 DEF Step

(* What may be added while the part w of a container is.                      *)
FitsAdd(add, Z, w) ==
    /\ add.path \in Paths(Labels) /\ add.value \in Contents /\ add.value.kind # "map"
    /\ \/ /\ add.schema \in Schemas
          /\ add.schema.kind # "struct" /\ add.value.kind # "struct"
          /\ SchemaAt(add.path, add.schema, w) /\ ValueSlot(add.path, add.value, Z)
          /\ \A q \in StrictPrefixes(add.path) : SchemaAbove(q, w)
       \/ /\ add.schema = NoSchema /\ PartOf(w) = "image"
          /\ Depth(add.path) = 4 /\ ObjectOf(add.path) = ObjectOf(w)
          /\ ContainerOf(add.path) = ContainerOf(w) /\ PartOf(add.path) = "image"
          /\ add.value.kind = "atom" /\ ~IsNumber(add.value)

(* One addition that fits.                                                    *)
LEMMA FitAddAgrees ==
    ASSUME NEW Z, NEW w, NEW v, Agrees(v, Z, w), NEW add, FitsAdd(add, Z, w),
           NEW root \in StrictPrefixes(add.path)
    PROVE  LET u == Add(v, add.schema, add.value, add.path)
           IN  /\ Agrees(u, Z, w) /\ KeepsSecured(v, u)
               /\ u.outcome = "ok" => v.outcome = "ok" /\ root \in DOMAIN u.values
<1>1. Agrees(Add(v, add.schema, add.value, add.path), Z, w)
  <2>1. CASE add.schema \in Schemas
    <3>1. add.schema # NoSchema
      BY <2>1 DEF Schemas, Nodes, NoSchema, Node, Kinds
    <3>. QED
      BY <2>1, <3>1, AddAgrees DEF FitsAdd
  <2>2. CASE add.schema \notin Schemas
    <3>1. add.schema = NoSchema
      BY <2>2 DEF FitsAdd
    <3>. QED
      BY <2>2, <3>1, ImagePartAgrees DEF FitsAdd
  <2>. QED
    BY <2>1, <2>2
<1>2. IsTyped(v) /\ add.path \in Paths(Labels) /\ add.value \in Contents
      /\ add.schema \in Schemas \union {NoSchema}
  BY DEF Agrees, FitsAdd
<1>3. LET u == Add(v, add.schema, add.value, add.path)
      IN  u.outcome = "ok" =>
             v.outcome = "ok"
             /\ \A q \in {add.path} \union StrictPrefixes(add.path) : q \in DOMAIN u.values
  BY <1>2, AddReaches
<1>4. KeepsSecured(v, Add(v, add.schema, add.value, add.path))
  BY <1>2, OtherAddSecured DEF FitsAdd
<1>. QED
  BY <1>1, <1>3, <1>4

(* A sequence of additions that fit.                                          *)
LEMMA AddAllAgrees ==
    ASSUME NEW Z, NEW w, NEW v, Agrees(v, Z, w), NEW adds, Len(adds) \in Nat,
           NEW root,
           \A n \in 1..Len(adds) :
               FitsAdd(adds[n], Z, w) /\ root \in StrictPrefixes(adds[n].path)
    PROVE  LET u == AddAll(v, adds)
           IN  /\ Agrees(u, Z, w) /\ KeepsSecured(v, u)
               /\ u.outcome = "ok" =>
                     /\ v.outcome = "ok"
                     /\ Len(adds) # 0 \/ root \in DOMAIN v.values => root \in DOMAIN u.values
<1>1. PICK after :
          /\ after[0] = v
          /\ \A n \in 1..Len(adds) :
                after[n] = Add(after[n - 1], adds[n].schema, adds[n].value, adds[n].path)
          /\ AddAll(v, adds) = after[Len(adds)]
  BY AddAllStages
<1> DEFINE Good(n) ==
        /\ Agrees(after[n], Z, w) /\ KeepsSecured(v, after[n])
        /\ after[n].outcome = "ok" =>
              /\ v.outcome = "ok"
              /\ n # 0 \/ root \in DOMAIN v.values => root \in DOMAIN after[n].values
           G == {n \in 0..Len(adds) : Good(n)}
<1>2. 0 \in G
  BY <1>1 DEF KeepsSecured
<1>3. ASSUME NEW n \in 0..Len(adds), n \in G, n < Len(adds)
      PROVE  n + 1 \in G
  <2>1. n + 1 \in 1..Len(adds) /\ n + 1 - 1 = n /\ n + 1 \in 0..Len(adds) /\ n + 1 # 0
    BY <1>3
  <2> DEFINE add == adds[n + 1]
  <2>2. after[n + 1] = Add(after[n], add.schema, add.value, add.path)
    BY <1>1, <2>1
  <2>3. FitsAdd(add, Z, w) /\ root \in StrictPrefixes(add.path)
    BY <2>1
  <2>4. Good(n)
    BY <1>3
  <2>. HIDE DEF add
  <2>5. /\ Agrees(after[n + 1], Z, w) /\ KeepsSecured(after[n], after[n + 1])
        /\ after[n + 1].outcome = "ok" =>
              after[n].outcome = "ok" /\ root \in DOMAIN after[n + 1].values
    <3>1. Agrees(after[n], Z, w)
      BY <2>4
    <3>. HIDE DEF Good
    <3>2. LET u == Add(after[n], add.schema, add.value, add.path)
          IN  /\ Agrees(u, Z, w) /\ KeepsSecured(after[n], u)
              /\ u.outcome = "ok" => after[n].outcome = "ok" /\ root \in DOMAIN u.values
      BY <2>3, <3>1, FitAddAgrees
    <3>. QED
      BY <2>2, <3>2
  <2>6. KeepsSecured(v, after[n + 1])
    BY <2>4, <2>5 DEF KeepsSecured
  <2>7. Good(n + 1)
    BY <2>1, <2>4, <2>5, <2>6
  <2>. HIDE DEF Good
  <2>. QED
    BY <2>1, <2>7
<1>4. Len(adds) \in G
  <2>. HIDE DEF G
  <2>1. \A n \in 0..Len(adds) : n \in G /\ n < Len(adds) => n + 1 \in G
    BY <1>3
  <2>2. Len(adds) \in 0..Len(adds)
    OBVIOUS
  <2>. QED
    BY <1>2, <2>1, <2>2, UpTo
<1>. QED
  BY <1>1, <1>4

-----------------------------------------------------------------------------
(* What is added                                                              *)

LEMMA BelowPair3 ==
    ASSUME NEW L, NEW a, NEW b, NEW c, a \in L, b \in L, c \in L
    PROVE  <<a, b>> \o <<c>> = <<a, b, c>>
<1> DEFINE x == <<a, b>> \o <<c>>
<1>1. x \in Seq(L) /\ Len(x) = 3 /\ x[1] = a /\ x[2] = b /\ x[3] = c
  OBVIOUS
<1>. HIDE DEF x
<1>2. x = <<a, b, c>>
  BY <1>1
<1>. QED
  BY <1>2 DEF x

LEMMA BelowPair4 ==
    ASSUME NEW L, NEW a, NEW b, NEW c, NEW d, a \in L, b \in L, c \in L, d \in L
    PROVE  <<a, b>> \o <<c, d>> = <<a, b, c, d>>
<1> DEFINE x == <<a, b>> \o <<c, d>>
<1>1. x \in Seq(L) /\ Len(x) = 4 /\ x[1] = a /\ x[2] = b /\ x[3] = c /\ x[4] = d
  OBVIOUS
<1>. HIDE DEF x
<1>2. x = <<a, b, c, d>>
  BY <1>1
<1>. QED
  BY <1>2 DEF x

LEMMA BelowPair5 ==
    ASSUME NEW L, NEW a, NEW b, NEW c, NEW d, NEW e, a \in L, b \in L, c \in L, d \in L, e \in L
    PROVE  <<a, b>> \o <<c, d, e>> = <<a, b, c, d, e>>
<1> DEFINE x == <<a, b>> \o <<c, d, e>>
<1>1. x \in Seq(L) /\ Len(x) = 5 /\ x[1] = a /\ x[2] = b /\ x[3] = c /\ x[4] = d /\ x[5] = e
  OBVIOUS
<1>. HIDE DEF x
<1>2. x = <<a, b, c, d, e>>
  BY <1>1
<1>. QED
  BY <1>2 DEF x

LEMMA QuadOf ==
    ASSUME NEW L, NEW a, NEW b, NEW c, NEW d, a \in L, b \in L, c \in L, d \in L
    PROVE  /\ <<a, b, c, d>> \in Seq(L) /\ Len(<<a, b, c, d>>) = 4 /\ <<a, b, c, d>> # << >>
           /\ <<a, b, c, d>>[1] = a /\ <<a, b, c, d>>[2] = b /\ <<a, b, c, d>>[3] = c
  OBVIOUS

LEMMA QuintOf ==
    ASSUME NEW L, NEW a, NEW b, NEW c, NEW d, NEW e, a \in L, b \in L, c \in L, d \in L, e \in L
    PROVE  /\ <<a, b, c, d, e>> \in Seq(L) /\ Len(<<a, b, c, d, e>>) = 5 /\ <<a, b, c, d, e>> # << >>
           /\ <<a, b, c, d, e>>[1] = a /\ <<a, b, c, d, e>>[2] = b /\ <<a, b, c, d, e>>[3] = c
  OBVIOUS

LEMMA TextsAreChars ==
    ASSUME NEW s \in Texts
    PROVE  s \in Seq(Chars)
  BY DEF Texts, Chars

(* A text quoted parses to itself.                                            *)
LEMMA Quoting ==
    ASSUME NEW s \in Seq(Chars)
    PROVE  InString(s, StrconvQuote(s)) \in Strung
<1> DEFINE q == StrconvQuote(s)
<1>1. q \in Seq(Chars) /\ Len(q) = Len(s) + 2 /\ q[1] = Mark /\ q[Len(q)] = Mark
  BY DEF StrconvQuote, Chars
<1>2. IsQuoted(q)
  BY <1>1 DEF IsQuoted, Last
<1>3. Unquote(q) = s
  <2>1. CASE s = << >>
    BY <1>1, <2>1 DEF Unquote
  <2>2. CASE s # << >>
    BY <2>2, QuotedAndBack DEF Quote, StrconvQuote
  <2>. QED
    BY <2>1, <2>2
<1>. QED
  BY <1>1, <1>2, <1>3 DEF InString, Strung, ParseStringLit

(* format.QuoteStringsInStruct leaves texts that parse to what they were.     *)
LEMMA QuotedTyped ==
    ASSUME DeploymentsAssumption, NEW texts \in Seq(Texts)
    PROVE  Quoted(texts) \in Seq(Strung)
<1>1. ASSUME NEW s \in Texts PROVE InString(s, Quote(s)) \in Strung
  <2>1. s \in Seq(Chars)
    BY TextsAreChars
  <2>2. CASE s = << >>
    <3>1. ~IsQuoted(s) /\ s \notin Expressions
      BY <2>2 DEF IsQuoted, DeploymentsAssumption
    <3>. QED
      BY <2>1, <2>2, <3>1 DEF InString, Strung, ParseStringLit, Quote
  <2>3. CASE s # << >>
    BY <2>1, <2>3, Quoting DEF StrconvQuote, Quote
  <2>. QED
    BY <2>2, <2>3
<1>2. \A i \in 1..Len(texts) : InString(texts[i], Quote(texts[i])) \in Strung
  BY <1>1
<1>3. Len(texts) \in Nat
  OBVIOUS
<1>. QED
  BY <1>2, <1>3 DEF Quoted

LEMMA OneOf ==
    ASSUME NEW S, NEW x \in S
    PROVE  <<x>> \in Seq(S) /\ <<x>>[1] = x /\ Len(<<x>>) = 1
  OBVIOUS

(* A value knows where it comes from.                                         *)
LEMMA ValueTyped ==
    ASSUME dep \in Nat, NEW kind \in Kinds, NEW c \in Nat, NEW field \in Fields,
           NEW key \in DOMAIN Label \union {""}, NEW texts \in Seq(Strung)
    PROVE  /\ Value(kind, c, field, key, texts) \in Contents
           /\ Value(kind, c, field, key, texts).of[1] =
                 [dep |-> dep, container |-> c, field |-> field, key |-> key, texts |-> texts]
           /\ IsNumber(Value(kind, c, field, key, texts))
                 <=> field \in {"replicas", "revisionHistoryLimit"}
<1> DEFINE value == Value(kind, c, field, key, texts)
           origin == [dep |-> dep, container |-> c, field |-> field, key |-> key, texts |-> texts]
<1>1. origin \in Origins /\ origin.field = field
  BY DEF Origins
<1>. HIDE DEF origin
<1>2. <<origin>> \in Sources /\ <<origin>>[1] = origin
  BY <1>1, OneOf DEF Sources
<1>3. value = [kind |-> kind, of |-> <<origin>>, required |-> FALSE]
  BY DEF Value, Node, origin
<1>. HIDE DEF value
<1>4. value \in Contents
  <2>1. [kind |-> kind, of |-> <<origin>>, required |-> FALSE] \in Nodes(Sources)
    BY <1>2 DEF Nodes
  <2>. QED
    BY <1>3, <2>1 DEF Contents
<1>5. value.of[1] = origin
  <2>1. value.of = <<origin>>
    BY <1>3
  <2>. QED
    BY <1>2, <2>1, Zenon
<1>. QED
  BY <1>1, <1>4, <1>5 DEF IsNumber, origin, value

LEMMA LabelsNamed ==
    /\ \A part \in Parts : part \in Labels
    /\ \A x \in {"repository", "tag", "digest", "requests", "limits", "replicas",
                 "revisionHistoryLimit", "nodeSelector", "imagePullSecrets", DomainKey} :
          x \in Labels
    /\ \A n \in DOMAIN Label : Label[n] \in Labels /\ Stored(n) \in Labels
  BY DEF Labels, Stored

(* The Deployment a step is at.                                               *)
LEMMA AtDeployment ==
    ASSUME DeploymentsAssumption, given \in Seq(DeploymentSpecs), dep \in 1..Len(given)
    PROVE  /\ Depl \in DeploymentSpecs /\ dep \in Nat
           /\ Containers \in Seq(ContainerSpecs) /\ Len(Containers) \in Nat
           /\ Depl.name \in DOMAIN Label /\ ObjLabel \in Labels /\ Stored(Depl.name) \in Labels
<1>1. Depl \in DeploymentSpecs /\ dep \in Nat
  BY DEF Depl
<1>2. Depl.containers \in Seq(ContainerSpecs) /\ Depl.initContainers \in Seq(ContainerSpecs)
      /\ Depl.name \in DOMAIN Label
  <2>. HIDE DEF ContainerSpecs, Depl
  <2>. QED
    BY <1>1 DEF DeploymentSpecs
<1>3. Containers \in Seq(ContainerSpecs) /\ Len(Containers) \in Nat
  <2>. HIDE DEF ContainerSpecs
  <2>1. \A x, y \in Seq(ContainerSpecs) : x \o y \in Seq(ContainerSpecs) /\ Len(x \o y) \in Nat
    OBVIOUS
  <2>. QED
    BY <1>2, <2>1 DEF Containers
<1>4. ObjLabel \in Labels /\ Stored(Depl.name) \in Labels
  BY <1>2, LabelsNamed DEF ObjLabel
<1>. QED
  BY <1>1, <1>2, <1>3, <1>4

(* The container a step is at.                                                *)
LEMMA AtContainer ==
    ASSUME DeploymentsAssumption, given \in Seq(DeploymentSpecs), dep \in 1..Len(given),
           idx \in 1..Len(Containers)
    PROVE  /\ Container \in ContainerSpecs /\ idx \in Nat
           /\ CtrLabel \in Labels /\ Stored(Container.name) \in Labels
<1>1. Container \in ContainerSpecs /\ idx \in Nat
  BY AtDeployment DEF Container
<1>2. Container.name \in DOMAIN Label
  BY <1>1 DEF ContainerSpecs
<1>. QED
  BY <1>1, <1>2, LabelsNamed DEF CtrLabel

LEMMA Path3 ==
    ASSUME NEW a \in Labels, NEW b \in Labels, NEW x \in Labels
    PROVE  /\ <<a, b, x>> \in Paths(Labels) /\ Depth(<<a, b, x>>) = 3
           /\ ObjectOf(<<a, b, x>>) = a /\ ContainerOf(<<a, b, x>>) = b
           /\ PartOf(<<a, b, x>>) = x
  BY TripleOf DEF Paths, Depth, ObjectOf, ContainerOf, PartOf

LEMMA Path4 ==
    ASSUME NEW a \in Labels, NEW b \in Labels, NEW x \in Labels, NEW y \in Labels
    PROVE  /\ <<a, b, x, y>> \in Paths(Labels) /\ Depth(<<a, b, x, y>>) = 4
           /\ ObjectOf(<<a, b, x, y>>) = a /\ ContainerOf(<<a, b, x, y>>) = b
           /\ PartOf(<<a, b, x, y>>) = x
  BY QuadOf DEF Paths, Depth, ObjectOf, ContainerOf, PartOf

LEMMA Path5 ==
    ASSUME NEW a \in Labels, NEW b \in Labels, NEW x \in Labels, NEW y \in Labels,
           NEW z \in Labels
    PROVE  /\ <<a, b, x, y, z>> \in Paths(Labels) /\ Depth(<<a, b, x, y, z>>) = 5
           /\ ObjectOf(<<a, b, x, y, z>>) = a /\ ContainerOf(<<a, b, x, y, z>>) = b
           /\ PartOf(<<a, b, x, y, z>>) = x
  BY QuintOf DEF Paths, Depth, ObjectOf, ContainerOf, PartOf

LEMMA Prefix3 ==
    ASSUME NEW a \in Labels, NEW b \in Labels, NEW x \in Labels
    PROVE  <<a, b>> \in StrictPrefixes(<<a, b, x>>)
<1> DEFINE p == <<a, b, x>>
           r == <<a, b>>
<1>1. p \in Paths(Labels) /\ Depth(p) = 3 /\ ObjectOf(p) = a /\ ContainerOf(p) = b /\ PartOf(p) = x
  BY Path3
<1>2. r \in Paths(Labels) /\ Depth(r) = 2 /\ ObjectOf(r) = a /\ ContainerOf(r) = b
  BY PairOf DEF Paths, Depth, ObjectOf, ContainerOf
<1>. HIDE DEF p, r
<1>4. r \in StrictPrefixes(p)
  BY <1>1, <1>2, PrefixByShape
<1>. QED
  BY <1>4 DEF p, r

LEMMA Prefix4 ==
    ASSUME NEW a \in Labels, NEW b \in Labels, NEW x \in Labels, NEW y \in Labels
    PROVE  <<a, b>> \in StrictPrefixes(<<a, b, x, y>>) /\ <<a, b, x>> \in StrictPrefixes(<<a, b, x, y>>)
<1> DEFINE p == <<a, b, x, y>>
           r == <<a, b>>
           q == <<a, b, x>>
<1>1. p \in Paths(Labels) /\ Depth(p) = 4 /\ ObjectOf(p) = a /\ ContainerOf(p) = b /\ PartOf(p) = x
  BY Path4
<1>2. r \in Paths(Labels) /\ Depth(r) = 2 /\ ObjectOf(r) = a /\ ContainerOf(r) = b
  BY PairOf DEF Paths, Depth, ObjectOf, ContainerOf
<1>3. q \in Paths(Labels) /\ Depth(q) = 3 /\ ObjectOf(q) = a /\ ContainerOf(q) = b /\ PartOf(q) = x
  BY Path3
<1>. HIDE DEF p, q, r
<1>4. r \in StrictPrefixes(p) /\ q \in StrictPrefixes(p)
  BY <1>1, <1>2, <1>3, PrefixByShape
<1>. QED
  BY <1>4 DEF p, q, r

LEMMA Prefix5 ==
    ASSUME NEW a \in Labels, NEW b \in Labels, NEW x \in Labels, NEW y \in Labels,
           NEW z \in Labels
    PROVE  <<a, b>> \in StrictPrefixes(<<a, b, x, y, z>>)
<1> DEFINE p == <<a, b, x, y, z>>
           r == <<a, b>>
<1>1. p \in Paths(Labels) /\ Depth(p) = 5 /\ ObjectOf(p) = a /\ ContainerOf(p) = b /\ PartOf(p) = x
  BY Path5
<1>2. r \in Paths(Labels) /\ Depth(r) = 2 /\ ObjectOf(r) = a /\ ContainerOf(r) = b
  BY PairOf DEF Paths, Depth, ObjectOf, ContainerOf
<1>. HIDE DEF p, r
<1>4. r \in StrictPrefixes(p)
  BY <1>1, <1>2, PrefixByShape
<1>. QED
  BY <1>4 DEF p, r

(* A schema of a path may stand below what its prefixes are.                  *)
LEMMA PrefixesAbove ==
    ASSUME NEW w, NEW p \in Paths(Labels), NEW q \in StrictPrefixes(p),
           \/ Depth(p) <= 3
           \/ Depth(p) = 4 /\ PartOf(p) = "env"
           \/ Depth(p) = 5 /\ InPart(p, w, "resources")
    PROVE  SchemaAbove(q, w)
<1>1. /\ q \in Paths(Labels) /\ Depth(q) < Depth(p)
      /\ ObjectOf(q) = ObjectOf(p)
      /\ Depth(q) >= 2 => ContainerOf(q) = ContainerOf(p)
      /\ Depth(q) >= 3 => PartOf(q) = PartOf(p)
  BY PrefixShape
<1>2. Depth(p) \in Nat /\ Depth(q) \in Nat
  BY <1>1, Depths
<1>. QED
  BY <1>1, <1>2 DEF SchemaAbove, InPart

LEMMA ExprTyped ==
    ASSUME NEW schema, <<schema>> \in Definitions
    PROVE  Expr(schema) \in Schemas /\ IsExpr(Expr(schema), schema) /\ Expr(schema).kind = "expr"
  BY DEF Expr, Node, Schemas, Nodes, Kinds, IsExpr

LEMMA DefinitionsNamed ==
    /\ <<"string">> \in Definitions /\ <<"int & >0">> \in Definitions
    /\ <<"int64">> \in Definitions /\ <<"#Image">> \in Definitions
    /\ <<"#ResourceList">> \in Definitions /\ <<"#ResourceRequirements">> \in Definitions
    /\ <<"#PullPolicy">> \in Definitions /\ <<"[...string]">> \in Definitions
    /\ <<"#LocalObjectReference">> \in Definitions /\ <<"#SecurityContext">> \in Definitions
  BY OneOf DEF Definitions

LEMMA CutTyped ==
    ASSUME NEW C, NEW s \in Seq(C), NEW k \in Nat, k > 0, k - 1 <= Len(s)
    PROVE  SubSeq(s, 1, k - 1) \in Seq(C) /\ SubSeq(s, k + 1, Len(s)) \in Seq(C)
<1>1. SubSeq(s, 1, k - 1) \in Seq(C)
  OBVIOUS
<1>2. CASE k + 1 <= Len(s) + 1
  BY <1>1, <1>2
<1>3. CASE k + 1 > Len(s) + 1
  <2>1. SubSeq(s, k + 1, Len(s)) = << >>
    BY <1>3
  <2>. QED
    BY <1>1, <2>1
<1>. QED
  BY <1>2, <1>3

(* The parts of an image are texts.                                           *)
LEMMA SplitTyped ==
    ASSUME NEW image \in Seq(Chars), Splittable(Quote(image))
    PROVE  LET parts == Split(Quote(image))
           IN  \A field \in {"repository", "tag", "digest"} : parts[field] \in Seq(Chars)
<1> DEFINE q == Quote(image)
           k == Separator(q)
<1>1. image # << >>
  <2>1. Quote(<< >>) = << >> /\ ~IsQuoted(<< >>)
    BY DEF Quote, IsQuoted
  <2>. QED
    BY <2>1 DEF Splittable
<1>2. Unquote(q) = image
  BY <1>1, QuotedAndBack
<1>3. q \in Seq(Chars) /\ Len(q) = Len(image) + 2
  BY <1>1 DEF Quote, Chars
<1>. HIDE DEF q
<1>4. k \in Nat /\ k > 0 /\ k - 1 <= Len(image)
  <2>1. k > 0
    BY DEF Splittable, q
  <2>2. CASE HasDigest(image)
    <3> DEFINE last == LastIndex(q, ":")
               before == SubSeq(q, 1, last - 1)
    <3>1. last \in 0..Len(q) /\ Len(q) \in Nat
      BY <1>3, LastIndexIsLast
    <3>2. k = LastIndex(before, ":")
      BY <1>2, <2>2 DEF Separator
    <3>3. before \in Seq(Chars) /\ Len(before) <= Len(image) + 1
      <4>. HIDE DEF last
      <4>1. CASE last = 0
        <5>1. before = << >>
          BY <1>3, <4>1
        <5>. HIDE DEF before
        <5>. QED
          BY <1>3, <5>1
      <4>2. CASE last # 0
        <5> DEFINE j == last - 1
        <5>1. j \in 0..Len(q) /\ j <= Len(image) + 1
          BY <1>3, <3>1, <4>2
        <5>. HIDE DEF j
        <5>2. SubSeq(q, 1, j) \in Seq(Chars) /\ Len(SubSeq(q, 1, j)) = j
          BY <1>3, <5>1, FirstLabels
        <5>. QED
          BY <5>1, <5>2 DEF j
      <4>. QED
        BY <4>1, <4>2
    <3>. HIDE DEF before
    <3>4. k \in 0..Len(before) /\ Len(before) \in Nat
      BY <3>2, <3>3, LastIndexIsLast
    <3>. QED
      BY <2>1, <3>3, <3>4
  <2>3. CASE ~HasDigest(image)
    <3>1. k = LastIndex(image, ":")
      BY <1>2, <2>3 DEF Separator
    <3>2. k \in 0..Len(image)
      BY <3>1, LastIndexIsLast
    <3>. QED
      BY <2>1, <3>2
  <2>. QED
    BY <2>2, <2>3
<1>5. SubSeq(image, 1, k - 1) \in Seq(Chars) /\ SubSeq(image, k + 1, Len(image)) \in Seq(Chars)
  BY <1>4, CutTyped
<1>6. << >> \in Seq(Chars)
  OBVIOUS
<1> DEFINE before == SubSeq(image, 1, k - 1)
           after == SubSeq(image, k + 1, Len(image))
<1>7. Split(q) = [repository |-> before,
                  tag |-> IF HasDigest(image) THEN << >> ELSE after,
                  digest |-> IF HasDigest(image) THEN after ELSE << >>]
  BY <1>2 DEF Split
<1>. HIDE DEF before, after, k
<1>8. \A field \in {"repository", "tag", "digest"} : Split(q)[field] \in Seq(Chars)
  <2>1. before \in Seq(Chars) /\ after \in Seq(Chars)
    BY <1>5 DEF before, after, k
  <2>2. /\ Split(q)["repository"] = before
        /\ Split(q)["tag"] = IF HasDigest(image) THEN << >> ELSE after
        /\ Split(q)["digest"] = IF HasDigest(image) THEN after ELSE << >>
    BY <1>7
  <2>. QED
    BY <1>6, <2>1, <2>2
<1>. QED
  BY <1>8 DEF q

LEMMA KindsNamed == {"struct", "expr", "pattern", "atom", "zero", "list", "map"} \subseteq Kinds
  BY DEF Kinds

(* The additions for an image.                                                *)
LEMMA ImageAddsFit ==
    ASSUME DeploymentsAssumption, given \in Seq(DeploymentSpecs), dep \in 1..Len(given),
           idx \in 1..Len(Containers), NEW Z, NEW parts,
           \A field \in {"repository", "tag", "digest"} : parts[field] \in Seq(Chars)
    PROVE  LET root == <<Stored(Depl.name), Stored(Container.name), "image">>
           IN  /\ Len(ImageAdds(parts)) = 3
               /\ \A n \in 1..3 :
                     /\ FitsAdd(ImageAdds(parts)[n], Z, root)
                     /\ root \in StrictPrefixes(ImageAdds(parts)[n].path)
<1> DEFINE fields == <<"repository", "tag", "digest">>
           a == Stored(Depl.name)
           b == Stored(Container.name)
           root == <<a, b, "image">>
<1>1. a \in Labels /\ b \in Labels /\ "image" \in Labels /\ dep \in Nat /\ idx \in Nat
  BY AtDeployment, AtContainer, LabelsNamed DEF Parts
<1>2. ImageAdds(parts) =
          [i \in 1..3 |->
              [schema |-> NoSchema, path |-> CtrPath(<<"image", fields[i]>>),
               value |-> Value("atom", idx, fields[i], "", <<ImagePart(parts[fields[i]])>>)]]
  BY DEF ImageAdds
<1>3. Len(ImageAdds(parts)) = 3
  <2> DEFINE add(i) ==
          [schema |-> NoSchema, path |-> CtrPath(<<"image", fields[i]>>),
           value |-> Value("atom", idx, fields[i], "", <<ImagePart(parts[fields[i]])>>)]
  <2>1. ImageAdds(parts) = [i \in 1..3 |-> add(i)]
    BY <1>2
  <2>. HIDE DEF add
  <2>. QED
    BY <2>1
<1>4. ASSUME NEW n \in 1..3
      PROVE  /\ FitsAdd(ImageAdds(parts)[n], Z, root)
             /\ root \in StrictPrefixes(ImageAdds(parts)[n].path)
  <2> DEFINE field == fields[n]
             path == <<a, b, "image", field>>
             value == Value("atom", idx, field, "", <<ImagePart(parts[field])>>)
  <2>1. field \in {"repository", "tag", "digest"}
    OBVIOUS
  <2>. HIDE DEF fields
  <2>2. field \in Labels /\ field \in Fields
    BY <2>1, LabelsNamed DEF Fields
  <2>. HIDE DEF field, a, b
  <2>3. /\ path \in Paths(Labels) /\ Depth(path) = 4 /\ ObjectOf(path) = a
        /\ ContainerOf(path) = b /\ PartOf(path) = "image"
        /\ root \in StrictPrefixes(path)
    <3>1. /\ path \in Paths(Labels) /\ Depth(path) = 4 /\ ObjectOf(path) = a
          /\ ContainerOf(path) = b /\ PartOf(path) = "image"
      BY <1>1, <2>2, Path4
    <3>2. root \in StrictPrefixes(path)
      BY <1>1, <2>2, Prefix4
    <3>. QED
      BY <3>1, <3>2
  <2>4. ObjectOf(root) = a /\ ContainerOf(root) = b /\ PartOf(root) = "image"
    BY <1>1, PartShape
  <2>5. value \in Contents /\ value.kind = "atom" /\ ~IsNumber(value)
    <3>1. ImagePart(parts[field]) \in Strung
      BY <2>1, Quoting DEF ImagePart
    <3>2. <<ImagePart(parts[field])>> \in Seq(Strung)
      BY <3>1, OneOf
    <3>3. "atom" \in Kinds /\ "" \in DOMAIN Label \union {""}
      BY KindsNamed
    <3>4. field \notin {"replicas", "revisionHistoryLimit"}
      BY <2>1
    <3> DEFINE texts == <<ImagePart(parts[field])>>
    <3>. HIDE DEF texts
    <3>5. Value("atom", idx, field, "", texts).kind = "atom"
      BY DEF Value, Node
    <3>6. Value("atom", idx, field, "", texts) \in Contents
          /\ ~IsNumber(Value("atom", idx, field, "", texts))
      <4>1. texts \in Seq(Strung)
        BY <3>2 DEF texts
      <4>. QED
        BY <1>1, <2>2, <3>3, <3>4, <4>1, ValueTyped
    <3>. QED
      BY <3>5, <3>6 DEF texts
  <2>6. CtrPath(<<"image", field>>) = path
    <3>1. <<a, b>> \o <<"image", field>> = path
      BY <1>1, <2>2, BelowPair4
    <3>. QED
      BY <3>1 DEF CtrPath, a, b
  <2>7. ImageAdds(parts)[n] = [schema |-> NoSchema, path |-> path, value |-> value]
    BY <1>2, <2>6 DEF field
  <2>. HIDE DEF path, value, root
  <2>. QED
    BY <2>3, <2>4, <2>5, <2>7 DEF FitsAdd
<1>. QED
  BY <1>3, <1>4

(* Sequences of such additions below root.                                    *)
Adds(Z, w, root) ==
    {add \in [schema : Schemas \union {NoSchema}, path : Paths(Labels), value : Contents] :
        FitsAdd(add, Z, w) /\ root \in StrictPrefixes(add.path)}

(* One of them.                                                               *)
LEMMA AddFits ==
    ASSUME NEW Z, NEW w, NEW root, NEW path \in Paths(Labels), NEW schema \in Schemas,
           NEW value \in Contents, schema.kind # "struct",
           value.kind \notin {"struct", "map"},
           SchemaAt(path, schema, w), ValueSlot(path, value, Z),
           \A q \in StrictPrefixes(path) : SchemaAbove(q, w), root \in StrictPrefixes(path)
    PROVE  [schema |-> schema, path |-> path, value |-> value] \in Adds(Z, w, root)
<1> DEFINE add == [schema |-> schema, path |-> path, value |-> value]
<1>1. add.schema = schema /\ add.path = path /\ add.value = value
  OBVIOUS
<1>2. add \in [schema : Schemas \union {NoSchema}, path : Paths(Labels), value : Contents]
  OBVIOUS
<1>. HIDE DEF add
<1>3. FitsAdd(add, Z, w)
  BY <1>1 DEF FitsAdd
<1>4. add \in Adds(Z, w, root)
  BY <1>1, <1>2, <1>3 DEF Adds
<1>. QED
  BY <1>4 DEF add

LEMMA SequenceOver ==
    ASSUME NEW S, NEW n \in Nat, NEW s \in [1..n -> S]
    PROVE  s \in Seq(S)
  OBVIOUS

(* The additions for the environment.                                         *)
LEMMA EnvAddsFit ==
    ASSUME DeploymentsAssumption, given \in Seq(DeploymentSpecs), dep \in 1..Len(given),
           idx \in 1..Len(Containers), NEW Z, NEW w
    PROVE  EnvAdds \in Seq(Adds(Z, w, <<Stored(Depl.name), Stored(Container.name)>>))
<1> DEFINE a == Stored(Depl.name)
           b == Stored(Container.name)
           env == Container.env
<1>1. a \in Labels /\ b \in Labels /\ "env" \in Labels /\ dep \in Nat /\ idx \in Nat
  BY AtDeployment, AtContainer, LabelsNamed DEF Parts
<1>2. env \in Seq([name : DOMAIN Label, value : Texts])
  BY AtContainer DEF ContainerSpecs
<1>. HIDE DEF a, b, env
<1>3. ASSUME NEW n \in 1..Len(env)
      PROVE  [schema |-> Expr("string"), path |-> CtrPath(<<"env", Stored(env[n].name)>>),
              value |-> Value(TextKind(env[n].value), idx, "env", env[n].name, Quoted(<<env[n].value>>))]
                 \in Adds(Z, w, <<a, b>>)
  <2> DEFINE label == Stored(env[n].name)
             path == <<a, b, "env", label>>
             texts == Quoted(<<env[n].value>>)
             value == Value(TextKind(env[n].value), idx, "env", env[n].name, texts)
  <2>1. env[n] \in [name : DOMAIN Label, value : Texts]
    <3> DEFINE S == [name : DOMAIN Label, value : Texts]
    <3>1. env \in Seq(S)
      BY <1>2
    <3>. HIDE DEF S
    <3>2. env[n] \in S
      BY <3>1
    <3>. QED
      BY <3>2 DEF S
  <2>2. env[n].name \in DOMAIN Label /\ env[n].value \in Texts
    BY <2>1
  <2>3. label \in Labels
    BY <2>2, LabelsNamed
  <2>4. texts \in Seq(Strung)
    BY <2>2, OneOf, QuotedTyped
  <2>. HIDE DEF label, texts
  <2>5. /\ path \in Paths(Labels) /\ Depth(path) = 4 /\ PartOf(path) = "env"
        /\ <<a, b>> \in StrictPrefixes(path)
    <3>1. path \in Paths(Labels) /\ Depth(path) = 4 /\ PartOf(path) = "env"
      BY <1>1, <2>3, Path4
    <3>2. <<a, b>> \in StrictPrefixes(path)
      BY <1>1, <2>3, Prefix4
    <3>. QED
      BY <3>1, <3>2
  <2>6. CtrPath(<<"env", label>>) = path
    <3>1. <<a, b>> \o <<"env", label>> = path
      BY <1>1, <2>3, BelowPair4
    <3>. QED
      BY <3>1 DEF CtrPath, a, b
  <2>7. value.kind \in {"atom", "zero"} /\ value.kind # "struct"
    BY DEF Value, Node, TextKind
  <2>8. value \in Contents /\ ~IsNumber(value)
    <3>1. TextKind(env[n].value) \in Kinds /\ "env" \in Fields /\ "env" \notin {"replicas", "revisionHistoryLimit"}
      BY KindsNamed DEF Fields, TextKind
    <3>. QED
      BY <1>1, <2>2, <2>4, <3>1, ValueTyped
  <2>9. Expr("string") \in Schemas /\ IsExpr(Expr("string"), "string") /\ Expr("string").kind = "expr"
    BY DefinitionsNamed, ExprTyped
  <2>. HIDE DEF path, value
  <2>10. SchemaAt(path, Expr("string"), w) /\ ValueSlot(path, value, Z)
    BY <2>5, <2>7, <2>8, <2>9 DEF SchemaAt, ValueSlot
  <2>11. \A q \in StrictPrefixes(path) : SchemaAbove(q, w)
    BY <2>5, PrefixesAbove
  <2>12. [schema |-> Expr("string"), path |-> path, value |-> value] \in Adds(Z, w, <<a, b>>)
    BY <2>5, <2>7, <2>8, <2>9, <2>10, <2>11, AddFits
  <2>. QED
    BY <2>6, <2>12 DEF value, texts, label
<1>4. Len(env) \in Nat
  BY <1>2
<1> DEFINE add(n) ==
        [schema |-> Expr("string"), path |-> CtrPath(<<"env", Stored(env[n].name)>>),
         value |-> Value(TextKind(env[n].value), idx, "env", env[n].name, Quoted(<<env[n].value>>))]
<1>5. EnvAdds = [n \in 1..Len(env) |-> add(n)]
  BY DEF EnvAdds, env
<1>6. \A n \in 1..Len(env) : add(n) \in Adds(Z, w, <<a, b>>)
  BY <1>3
<1>. HIDE DEF add
<1>7. EnvAdds \in Seq(Adds(Z, w, <<a, b>>))
  <2>1. EnvAdds \in [1..Len(env) -> Adds(Z, w, <<a, b>>)]
    BY <1>5, <1>6, Zenon
  <2>. QED
    BY <1>4, <2>1, SequenceOver
<1>. QED
  BY <1>7 DEF a, b

(* SequencesExt's SetToSeq.                                                   *)
LEMMA SequenceOfSet ==
    ASSUME NEW S, IsFiniteSet(S)
    PROVE  SetToSeq(S) \in Seq(S) /\ Len(SetToSeq(S)) \in Nat
<1> DEFINE n == Cardinality(S)
<1>1. n \in Nat /\ ExistsBijection(1..n, S)
  BY FS_CardinalityType
<1>. HIDE DEF n
<1>2. PICK f : f \in [1..n -> S] /\ IsInjective(f)
  BY <1>1 DEF ExistsBijection, Bijection, Injection
<1>3. SetToSeq(S) \in [1..n -> S]
  BY <1>2, Zenon DEF SetToSeq, n
<1>. QED
  BY <1>1, <1>3

(* The additions for requests or limits.                                      *)
LEMMA ResourceAddsFit ==
    ASSUME DeploymentsAssumption, given \in Seq(DeploymentSpecs), dep \in 1..Len(given),
           idx \in 1..Len(Containers), NEW Z, NEW kind \in {"requests", "limits"},
           NEW resources \in SUBSET DOMAIN Label
    PROVE  ResourceAdds(kind, resources)
               \in Seq(Adds(Z, <<Stored(Depl.name), Stored(Container.name), "resources">>,
                            <<Stored(Depl.name), Stored(Container.name)>>))
<1> DEFINE a == Stored(Depl.name)
           b == Stored(Container.name)
           w == <<a, b, "resources">>
           names == SetToSeq(resources)
<1>1. a \in Labels /\ b \in Labels /\ "resources" \in Labels /\ dep \in Nat /\ idx \in Nat
  BY AtDeployment, AtContainer, LabelsNamed DEF Parts
<1>2. kind \in Labels /\ kind \in Fields /\ kind \notin {"replicas", "revisionHistoryLimit"}
  BY LabelsNamed DEF Fields
<1>3. names \in Seq(DOMAIN Label) /\ Len(names) \in Nat
  <2>1. IsFiniteSet(resources)
    BY FS_Subset DEF DeploymentsAssumption
  <2>2. names \in Seq(resources)
    BY <2>1, SequenceOfSet
  <2>. QED
    BY <2>2
<1>. HIDE DEF a, b, w, names
<1>4. ASSUME NEW n \in 1..Len(names)
      PROVE  [schema |-> Expr("#ResourceList"),
              path |-> CtrPath(<<"resources", kind, Label[names[n]]>>),
              value |-> Value("atom", idx, kind, names[n],
                              <<InString(Quantity, StrconvQuote(Quantity))>>)]
                 \in Adds(Z, w, <<a, b>>)
  <2> DEFINE label == Label[names[n]]
             path == <<a, b, "resources", kind, label>>
             texts == <<InString(Quantity, StrconvQuote(Quantity))>>
             value == Value("atom", idx, kind, names[n], texts)
  <2>1. names[n] \in DOMAIN Label
    BY <1>3
  <2>2. label \in Labels
    BY <2>1, LabelsNamed
  <2>3. texts \in Seq(Strung)
    <3>1. InString(Quantity, StrconvQuote(Quantity)) \in Strung
      BY TextsAreChars, Quoting DEF DeploymentsAssumption, Quantities
    <3>. QED
      BY <3>1, OneOf
  <2>. HIDE DEF label, texts
  <2>4. /\ path \in Paths(Labels) /\ Depth(path) = 5 /\ ObjectOf(path) = a
        /\ ContainerOf(path) = b /\ PartOf(path) = "resources"
    BY <1>1, <1>2, <2>2, Path5
  <2>5. <<a, b>> \in StrictPrefixes(path)
    BY <1>1, <1>2, <2>2, Prefix5
  <2>6. CtrPath(<<"resources", kind, label>>) = path
    <3>1. <<a, b>> \o <<"resources", kind, label>> = path
      BY <1>1, <1>2, <2>2, BelowPair5
    <3>. QED
      BY <3>1 DEF CtrPath, a, b
  <2>7. value.kind = "atom"
    BY DEF Value, Node
  <2>8. value \in Contents
    <3>1. "atom" \in Kinds
      BY KindsNamed
    <3>. QED
      BY <1>1, <1>2, <2>1, <2>3, <3>1, ValueTyped
  <2>9. Expr("#ResourceList") \in Schemas /\ Expr("#ResourceList").kind = "expr"
    BY DefinitionsNamed, ExprTyped
  <2>10. InPart(path, w, "resources")
    <3>1. ObjectOf(w) = a /\ ContainerOf(w) = b /\ PartOf(w) = "resources"
      BY <1>1, Path3 DEF w
    <3>. QED
      BY <2>4, <3>1 DEF InPart
  <2>. HIDE DEF path, value
  <2>11. SchemaAt(path, Expr("#ResourceList"), w) /\ ValueSlot(path, value, Z)
    BY <2>4, <2>7, <2>9, <2>10 DEF SchemaAt, ValueSlot
  <2>12. \A q \in StrictPrefixes(path) : SchemaAbove(q, w)
    BY <2>4, <2>10, PrefixesAbove
  <2>13. [schema |-> Expr("#ResourceList"), path |-> path, value |-> value] \in Adds(Z, w, <<a, b>>)
    BY <2>4, <2>5, <2>7, <2>8, <2>9, <2>11, <2>12, AddFits
  <2>. QED
    BY <2>6, <2>13 DEF value, texts, label
<1> DEFINE add(n) ==
        [schema |-> Expr("#ResourceList"),
         path |-> CtrPath(<<"resources", kind, Label[names[n]]>>),
         value |-> Value("atom", idx, kind, names[n], <<InString(Quantity, StrconvQuote(Quantity))>>)]
<1>5. ResourceAdds(kind, resources) = [n \in 1..Len(names) |-> add(n)]
  BY DEF ResourceAdds, names
<1>6. \A n \in 1..Len(names) : add(n) \in Adds(Z, w, <<a, b>>)
  BY <1>4
<1>. HIDE DEF add
<1>7. ResourceAdds(kind, resources) \in Seq(Adds(Z, w, <<a, b>>))
  <2> DEFINE N == Len(names)
             S == Adds(Z, w, <<a, b>>)
  <2>1. N \in Nat
    BY <1>3
  <2>. HIDE DEF N, S
  <2>2. ResourceAdds(kind, resources) = [n \in 1..N |-> add(n)]
    BY <1>5 DEF N
  <2>3. \A n \in 1..N : add(n) \in S
    BY <1>6 DEF N, S
  <2>4. [n \in 1..N |-> add(n)] \in Seq(S)
    BY <2>1, <2>3
  <2>. QED
    BY <2>2, <2>4 DEF S
<1>. QED
  BY <1>7 DEF a, b, w

(* The addition for the pull policy.                                          *)
LEMMA PolicyAddsFit ==
    ASSUME DeploymentsAssumption, given \in Seq(DeploymentSpecs), dep \in 1..Len(given),
           idx \in 1..Len(Containers), NEW Z, NEW w
    PROVE  PolicyAdds \in Seq(Adds(Z, w, <<Stored(Depl.name), Stored(Container.name)>>))
<1> DEFINE a == Stored(Depl.name)
           b == Stored(Container.name)
           path == <<a, b, "imagePullPolicy">>
           texts == Quoted(<<Container.policy>>)
           value == Value("atom", idx, "imagePullPolicy", "", texts)
<1>1. a \in Labels /\ b \in Labels /\ "imagePullPolicy" \in Labels /\ dep \in Nat /\ idx \in Nat
  BY AtDeployment, AtContainer, LabelsNamed DEF Parts
<1>2. texts \in Seq(Strung)
  <2>1. Container.policy \in Texts
    BY AtContainer DEF ContainerSpecs
  <2>. QED
    BY <2>1, OneOf, QuotedTyped
<1>. HIDE DEF a, b, texts
<1>3. path \in Paths(Labels) /\ Depth(path) = 3 /\ PartOf(path) = "imagePullPolicy"
  BY <1>1, Path3
<1>4. <<a, b>> \in StrictPrefixes(path)
  BY <1>1, Prefix3
<1>5. CtrPath(<<"imagePullPolicy">>) = path
  <2>1. <<a, b>> \o <<"imagePullPolicy">> = path
    BY <1>1, BelowPair3
  <2>. QED
    BY <2>1 DEF CtrPath, a, b
<1>6. value.kind = "atom"
  BY DEF Value, Node
<1>7. value \in Contents /\ ~IsNumber(value)
  <2>1. "atom" \in Kinds /\ "imagePullPolicy" \in Fields
        /\ "imagePullPolicy" \notin {"replicas", "revisionHistoryLimit"}
        /\ "" \in DOMAIN Label \union {""}
    BY KindsNamed DEF Fields
  <2>. QED
    BY <1>1, <1>2, <2>1, ValueTyped
<1>8. Expr("#PullPolicy") \in Schemas /\ IsExpr(Expr("#PullPolicy"), "#PullPolicy")
      /\ Expr("#PullPolicy").kind = "expr"
  BY DefinitionsNamed, ExprTyped
<1>. HIDE DEF path, value
<1>9. SchemaAt(path, Expr("#PullPolicy"), w) /\ ValueSlot(path, value, Z)
  BY <1>3, <1>6, <1>7, <1>8 DEF SchemaAt, ValueSlot
<1>10. \A q \in StrictPrefixes(path) : SchemaAbove(q, w)
  <2>1. Depth(path) <= 3
    BY <1>3
  <2>. QED
    BY <1>3, <2>1, PrefixesAbove
<1>11. [schema |-> Expr("#PullPolicy"), path |-> path, value |-> value] \in Adds(Z, w, <<a, b>>)
  BY <1>3, <1>4, <1>6, <1>7, <1>8, <1>9, <1>10, AddFits
<1>12. PolicyAdds = << >> \/
          PolicyAdds = <<[schema |-> Expr("#PullPolicy"), path |-> path, value |-> value]>>
  BY <1>5 DEF PolicyAdds, CtrValue, value, texts
<1>13. PolicyAdds \in Seq(Adds(Z, w, <<a, b>>))
  <2> DEFINE S == Adds(Z, w, <<a, b>>)
             add == [schema |-> Expr("#PullPolicy"), path |-> path, value |-> value]
  <2>1. add \in S /\ (PolicyAdds = << >> \/ PolicyAdds = <<add>>)
    BY <1>11, <1>12
  <2>. HIDE DEF S, add
  <2>2. PolicyAdds \in Seq(S)
    <3>1. <<add>> \in Seq(S)
      BY <2>1, OneOf
    <3>2. << >> \in Seq(S)
      OBVIOUS
    <3>. QED
      BY <2>1, <3>1, <3>2
  <2>. QED
    BY <2>2 DEF S
<1>. QED
  BY <1>13 DEF a, b

(* Adding them all.                                                           *)
LEMMA AddAllOf ==
    ASSUME NEW Z, NEW w, NEW v, Agrees(v, Z, w), NEW root, NEW adds \in Seq(Adds(Z, w, root))
    PROVE  /\ Agrees(AddAll(v, adds), Z, w) /\ KeepsSecured(v, AddAll(v, adds))
           /\ AddAll(v, adds).outcome = "ok" /\ root \in DOMAIN v.values =>
                 root \in DOMAIN AddAll(v, adds).values
           /\ AddAll(v, adds).outcome = "ok" => v.outcome = "ok"
<1>1. Len(adds) \in Nat
  OBVIOUS
<1>2. \A n \in 1..Len(adds) : adds[n] \in Adds(Z, w, root)
  OBVIOUS
<1>3. \A n \in 1..Len(adds) : FitsAdd(adds[n], Z, w) /\ root \in StrictPrefixes(adds[n].path)
  BY <1>2 DEF Adds
<1>4. LET u == AddAll(v, adds)
      IN  /\ Agrees(u, Z, w) /\ KeepsSecured(v, u)
          /\ u.outcome = "ok" =>
                /\ v.outcome = "ok"
                /\ Len(adds) # 0 \/ root \in DOMAIN v.values => root \in DOMAIN u.values
  BY <1>1, <1>3, AddAllAgrees
<1>. QED
  BY <1>4

(* pod.go 176-264: a container added to Values that agree leaves such Values. *)
LEMMA PodContainerAgrees ==
    ASSUME DeploymentsAssumption, given \in Seq(DeploymentSpecs), dep \in 1..Len(given),
           idx \in 1..Len(Containers), NEW Z, NEW v, Agrees(v, Z, Idle), NEW parts,
           \A field \in {"repository", "tag", "digest"} : parts[field] \in Seq(Chars)
    PROVE  /\ Agrees(PodContainerValues(v, parts), Z, Idle)
           /\ KeepsSecured(v, PodContainerValues(v, parts))
<1> DEFINE a == Stored(Depl.name)
           b == Stored(Container.name)
           w1 == <<a, b, "image">>
           w2 == <<a, b, "resources">>
           v1 == AddAll(v, ImageAdds(parts))
           v2 == ImageSchema(v1)
           v3 == AddAll(v2, EnvAdds \o AllResourceAdds)
           v4 == ResourcesSchema(v3)
<1>1. a \in Labels /\ b \in Labels /\ "image" \in Labels /\ "resources" \in Labels
  BY AtDeployment, AtContainer, LabelsNamed DEF Parts
<1>2. Len(ImageAdds(parts)) = 3
      /\ \A n \in 1..3 : /\ FitsAdd(ImageAdds(parts)[n], Z, w1)
                         /\ w1 \in StrictPrefixes(ImageAdds(parts)[n].path)
  BY ImageAddsFit
<1>3. EnvAdds \in Seq(Adds(Z, w2, <<a, b>>)) /\ PolicyAdds \in Seq(Adds(Z, Idle, <<a, b>>))
  BY EnvAddsFit, PolicyAddsFit
<1>4. AllResourceAdds \in Seq(Adds(Z, w2, <<a, b>>))
  <2>1. Container.requests \in SUBSET DOMAIN Label /\ Container.limits \in SUBSET DOMAIN Label
    BY AtContainer DEF ContainerSpecs
  <2>2. /\ ResourceAdds("requests", Container.requests) \in Seq(Adds(Z, w2, <<a, b>>))
        /\ ResourceAdds("limits", Container.limits) \in Seq(Adds(Z, w2, <<a, b>>))
    BY <2>1, ResourceAddsFit
  <2>. QED
    BY <2>2, Concatenation DEF AllResourceAdds
<1>. HIDE DEF a, b
<1>5. Agrees(v, Z, w1)
  BY <1>1, PartBegins
<1>6. /\ Agrees(v1, Z, w1) /\ (v1.outcome = "ok" => w1 \in DOMAIN v1.values)
      /\ KeepsSecured(v, v1)
  <2>. HIDE DEF w1
  <2>1. LET u == AddAll(v, ImageAdds(parts))
        IN  /\ Agrees(u, Z, w1) /\ KeepsSecured(v, u)
            /\ u.outcome = "ok" =>
                  /\ v.outcome = "ok"
                  /\ Len(ImageAdds(parts)) # 0 \/ w1 \in DOMAIN v.values => w1 \in DOMAIN u.values
    <3>1. Len(ImageAdds(parts)) \in Nat
      BY <1>2
    <3>. QED
      BY <1>2, <1>5, <3>1, AddAllAgrees
  <2>. QED
    BY <1>2, <2>1
<1>. HIDE DEF v1
<1>7. Agrees(v2, Z, Idle) /\ v2.values = v1.values /\ (v2.outcome = "ok" => v1.outcome = "ok")
  <2>1. Expr("#Image") \in Schemas /\ IsExpr(Expr("#Image"), "#Image")
    BY DefinitionsNamed, ExprTyped
  <2>2. CtrPath(<<"image">>) = w1
    <3>1. <<a, b>> \o <<"image">> = w1
      BY <1>1, BelowPair3
    <3>. QED
      BY <3>1 DEF CtrPath, a, b
  <2>3. LET u == AddConfig(v1, Expr("#Image"), TRUE, w1)
        IN  Agrees(u, Z, Idle) /\ u.values = v1.values
            /\ (u.outcome = "ok" => v1.outcome = "ok")
    <3> DEFINE schema == Expr("#Image")
    <3>1. schema \in Schemas /\ IsExpr(schema, "#Image")
      BY <2>1
    <3>. HIDE DEF schema
    <3>2. w1 \in Paths(Labels) /\ Depth(w1) = 3 /\ PartOf(w1) = "image"
      BY <1>1, Path3
    <3>. HIDE DEF w1
    <3>4. /\ Agrees(AddConfig(v1, schema, TRUE, w1), Z, Idle)
          /\ AddConfig(v1, schema, TRUE, w1).values = v1.values
          /\ AddConfig(v1, schema, TRUE, w1).outcome = "ok" => v1.outcome = "ok"
      BY <1>6, <3>1, <3>2, ImageSchemaAgrees
    <3>. QED
      BY <3>4 DEF schema
  <2>. QED
    BY <2>2, <2>3 DEF ImageSchema
<1>8. v2.outcome = "ok" => <<a, b>> \in DOMAIN v2.values
  <2>1. <<a, b>> \in StrictPrefixes(w1)
    BY <1>1, Prefix3
  <2>2. IsContent(v2.values)
    BY <1>7 DEF Agrees, IsTyped, IsValuesOver, IsContent
  <2>. QED
    BY <1>6, <1>7, <2>1, <2>2 DEF IsContent, IsTreeOver
<1>. HIDE DEF v2
<1>9. Agrees(v2, Z, w2)
  BY <1>1, <1>7, PartBegins
<1>10. /\ Agrees(v3, Z, w2) /\ (v3.outcome = "ok" => <<a, b>> \in DOMAIN v3.values)
       /\ KeepsSecured(v2, v3)
  <2>1. EnvAdds \o AllResourceAdds \in Seq(Adds(Z, w2, <<a, b>>))
    BY <1>3, <1>4, Concatenation
  <2>. QED
    BY <1>8, <1>9, <2>1, AddAllOf
<1>. HIDE DEF v3
<1>11. Agrees(v4, Z, Idle) /\ v4.values = v3.values
  <2>1. /\ Expr("#ResourceRequirements") \in Schemas
        /\ IsExpr(Expr("#ResourceRequirements"), "#ResourceRequirements")
    BY DefinitionsNamed, ExprTyped
  <2>2. CtrPath(<<"resources">>) = w2
    <3>1. <<a, b>> \o <<"resources">> = w2
      BY <1>1, BelowPair3
    <3>. QED
      BY <3>1 DEF CtrPath, a, b
  <2>3. LET u == AddConfig(v3, Expr("#ResourceRequirements"), FALSE, w2)
        IN  Agrees(u, Z, Idle) /\ u.values = v3.values
    <3> DEFINE schema == Expr("#ResourceRequirements")
    <3>1. schema \in Schemas /\ IsExpr(schema, "#ResourceRequirements")
      BY <2>1
    <3>. HIDE DEF schema
    <3> DEFINE root == <<a, b>>
    <3>2. /\ w2 \in Paths(Labels) /\ Depth(w2) = 3 /\ PartOf(w2) = "resources"
      BY <1>1, Path3
    <3>3. root \in StrictPrefixes(w2) /\ Depth(root) = 2
      BY <1>1, Prefix3, PartShape
    <3>. HIDE DEF w2, root
    <3>5. v3.outcome = "ok" => root \in DOMAIN v3.values
      BY <1>10 DEF root
    <3>4. /\ Agrees(AddConfig(v3, schema, FALSE, w2), Z, Idle)
          /\ AddConfig(v3, schema, FALSE, w2).values = v3.values
      BY <1>10, <3>1, <3>2, <3>3, <3>5, ResourcesSchemaAgrees
    <3>. QED
      BY <3>4 DEF schema
  <2>. QED
    BY <2>2, <2>3 DEF ResourcesSchema
<1>12. Agrees(AddAll(v4, PolicyAdds), Z, Idle) /\ KeepsSecured(v4, AddAll(v4, PolicyAdds))
  <2>. HIDE DEF v4
  <2>. QED
    BY <1>3, <1>11, AddAllOf
<1>13. KeepsSecured(v, AddAll(v4, PolicyAdds))
  BY <1>6, <1>7, <1>10, <1>11, <1>12 DEF KeepsSecured
<1>. QED
  BY <1>12, <1>13 DEF PodContainerValues, v1, v2, v3

-----------------------------------------------------------------------------
(* What the other steps add                                                   *)

LEMMA Path2 ==
    ASSUME NEW a \in Labels, NEW x \in Labels
    PROVE  /\ <<a, x>> \in Paths(Labels) /\ Depth(<<a, x>>) = 2
           /\ ObjectOf(<<a, x>>) = a /\ ContainerOf(<<a, x>>) = x
  BY PairOf DEF Paths, Depth, ObjectOf, ContainerOf

(* A value with its schema, at most three labels deep.                        *)
LEMMA ShallowAddAgrees ==
    ASSUME NEW Z, NEW v, Agrees(v, Z, Idle), NEW path \in Paths(Labels), Depth(path) <= 3,
           NEW schema \in Schemas, NEW value \in Contents,
           schema.kind # "struct", value.kind # "struct",
           SchemaAt(path, schema, Idle), ValueSlot(path, value, Z)
    PROVE  /\ Agrees(Add(v, schema, value, path), Z, Idle)
           /\ ~ContextAt(path) \/ value.kind # "map" => KeepsSecured(v, Add(v, schema, value, path))
<1>1. \A q \in StrictPrefixes(path) : SchemaAbove(q, Idle)
  BY PrefixesAbove
<1>2. ~ContextAt(path) \/ value.kind # "map" => KeepsSecured(v, Add(v, schema, value, path))
  BY OtherAddSecured DEF Agrees
<1>. QED
  BY <1>1, <1>2, AddAgrees

(* deployment.go 199-210: so do the replicas, 0 of them too.                  *)
LEMMA ReplicasAgrees ==
    ASSUME DeploymentsAssumption, given \in Seq(DeploymentSpecs), dep \in 1..Len(given),
           NEW Z, NEW v, Agrees(v, Z, Idle), NEW kind \in {"atom", "zero"},
           kind = "zero" => ObjPath("replicas") \in Z
    PROVE  LET u == Add(v, Expr("int & >0"), Value(kind, 0, "replicas", "", << >>), ObjPath("replicas"))
           IN  Agrees(u, Z, Idle) /\ KeepsSecured(v, u)
<1> DEFINE a == ObjLabel
           path == <<a, "replicas">>
           schema == Expr("int & >0")
           value == Value(kind, 0, "replicas", "", << >>)
<1>1. a \in Labels /\ "replicas" \in Labels /\ dep \in Nat /\ (kind = "zero" => <<a, "replicas">> \in Z)
  BY AtDeployment, LabelsNamed DEF ObjPath
<1>2. value.kind = kind
  BY DEF Value, Node
<1>3. value \in Contents /\ IsNumber(value)
  <2>1. kind \in Kinds /\ 0 \in Nat /\ "replicas" \in Fields /\ "" \in DOMAIN Label \union {""}
        /\ << >> \in Seq(Strung) /\ "replicas" \in {"replicas", "revisionHistoryLimit"}
    BY KindsNamed DEF Fields
  <2>. QED
    BY <1>1, <2>1, ValueTyped
<1>4. schema \in Schemas /\ IsExpr(schema, "int & >0") /\ schema.kind = "expr"
  BY DefinitionsNamed, ExprTyped
<1>. HIDE DEF a, schema, value
<1>5. path \in Paths(Labels) /\ Depth(path) = 2 /\ ObjectOf(path) = a /\ ContainerOf(path) = "replicas"
  BY <1>1, Path2
<1>. HIDE DEF path
<1>6. SchemaAt(path, schema, Idle)
  BY <1>4, <1>5 DEF SchemaAt
<1>7. ValueSlot(path, value, Z)
  BY <1>1, <1>2, <1>3, <1>5 DEF ValueSlot, Scaled
<1>8. Depth(path) <= 3 /\ ~ContextAt(path) /\ value.kind # "struct" /\ schema.kind # "struct"
  <2>1. kind # "struct"
    OBVIOUS
  <2>2. value.kind # "struct"
    BY <1>2, <2>1
  <2>3. schema.kind # "struct"
    BY <1>4
  <2>4. Depth(path) <= 3 /\ ~ContextAt(path)
    BY <1>5 DEF ContextAt
  <2>. QED
    BY <2>2, <2>3, <2>4
<1>9. /\ Agrees(Add(v, schema, value, path), Z, Idle)
      /\ KeepsSecured(v, Add(v, schema, value, path))
  BY <1>3, <1>4, <1>5, <1>6, <1>7, <1>8, ShallowAddAgrees
<1>. QED
  BY <1>9 DEF ObjPath, a, path, schema, value

(* deployment.go 212-223: so does the revision history limit, 0 too.          *)
LEMMA RevisionAgrees ==
    ASSUME DeploymentsAssumption, given \in Seq(DeploymentSpecs), dep \in 1..Len(given),
           NEW Z, NEW v, Agrees(v, Z, Idle), NEW kind \in {"atom", "zero"},
           kind = "zero" => ObjPath("revisionHistoryLimit") \in Z
    PROVE  LET u == Add(v, Expr("int64"), Value(kind, 0, "revisionHistoryLimit", "", << >>),
                        ObjPath("revisionHistoryLimit"))
           IN  Agrees(u, Z, Idle) /\ KeepsSecured(v, u)
<1> DEFINE a == ObjLabel
           path == <<a, "revisionHistoryLimit">>
           schema == Expr("int64")
           value == Value(kind, 0, "revisionHistoryLimit", "", << >>)
<1>1. /\ a \in Labels /\ "revisionHistoryLimit" \in Labels /\ dep \in Nat
      /\ kind = "zero" => <<a, "revisionHistoryLimit">> \in Z
  BY AtDeployment, LabelsNamed DEF ObjPath
<1>2. value.kind = kind
  BY DEF Value, Node
<1>3. value \in Contents /\ IsNumber(value)
  <2>1. kind \in Kinds /\ 0 \in Nat /\ "revisionHistoryLimit" \in Fields
        /\ "" \in DOMAIN Label \union {""} /\ << >> \in Seq(Strung) /\ "revisionHistoryLimit" \in {"replicas", "revisionHistoryLimit"}
    BY KindsNamed DEF Fields
  <2>. QED
    BY <1>1, <2>1, ValueTyped
<1>4. schema \in Schemas /\ IsExpr(schema, "int64") /\ schema.kind = "expr"
  BY DefinitionsNamed, ExprTyped
<1>. HIDE DEF a, schema, value
<1>5. /\ path \in Paths(Labels) /\ Depth(path) = 2 /\ ObjectOf(path) = a
      /\ ContainerOf(path) = "revisionHistoryLimit"
  BY <1>1, Path2
<1>. HIDE DEF path
<1>6. SchemaAt(path, schema, Idle)
  BY <1>4, <1>5 DEF SchemaAt
<1>7. ValueSlot(path, value, Z)
  BY <1>1, <1>2, <1>3, <1>5 DEF ValueSlot, Scaled
<1>8. Depth(path) <= 3 /\ ~ContextAt(path) /\ value.kind # "struct" /\ schema.kind # "struct"
  <2>1. kind # "struct"
    OBVIOUS
  <2>2. value.kind # "struct"
    BY <1>2, <2>1
  <2>3. schema.kind # "struct"
    BY <1>4
  <2>4. Depth(path) <= 3 /\ ~ContextAt(path)
    BY <1>5 DEF ContextAt
  <2>. QED
    BY <2>2, <2>3, <2>4
<1>9. /\ Agrees(Add(v, schema, value, path), Z, Idle)
      /\ KeepsSecured(v, Add(v, schema, value, path))
  BY <1>3, <1>4, <1>5, <1>6, <1>7, <1>8, ShallowAddAgrees
<1>. QED
  BY <1>9 DEF ObjPath, a, path, schema, value

(* The node selector.                                                         *)
LEMMA NodeSelectorAgrees ==
    ASSUME DeploymentsAssumption, given \in Seq(DeploymentSpecs), dep \in 1..Len(given),
           NEW Z, NEW v, Agrees(v, Z, Idle)
    PROVE  LET u == Add(v, Pattern, Value("map", 0, "nodeSelector", "", Quoted(Depl.nodeSelector)),
                        PodPath("nodeSelector"))
           IN  Agrees(u, Z, Idle) /\ KeepsSecured(v, u)
<1> DEFINE a == Stored(Depl.name)
           path == <<a, "nodeSelector">>
           texts == Quoted(Depl.nodeSelector)
           value == Value("map", 0, "nodeSelector", "", texts)
<1>1. a \in Labels /\ "nodeSelector" \in Labels /\ dep \in Nat
  BY AtDeployment, LabelsNamed
<1>2. texts \in Seq(Strung)
  <2>1. Depl \in DeploymentSpecs
    BY AtDeployment
  <2>2. Depl.nodeSelector \in Seq(Texts)
    <3>. HIDE DEF Depl
    <3>. QED
      BY <2>1 DEF DeploymentSpecs
  <2>. QED
    BY <2>2, QuotedTyped
<1>. HIDE DEF texts
<1>3. value.kind = "map"
  BY DEF Value, Node
<1>4. value \in Contents
  <2>1. "map" \in Kinds /\ 0 \in Nat /\ "nodeSelector" \in Fields /\ "" \in DOMAIN Label \union {""}
    BY KindsNamed DEF Fields
  <2>. QED
    BY <1>1, <1>2, <2>1, ValueTyped
<1>5. Pattern \in Schemas /\ Pattern.kind = "pattern" /\ Pattern.of = <<"string">>
  BY DefinitionsNamed DEF Pattern, Node, Schemas, Nodes, Kinds
<1>. HIDE DEF a, value
<1>6. path \in Paths(Labels) /\ Depth(path) = 2 /\ ContainerOf(path) = "nodeSelector"
  BY <1>1, Path2
<1>. HIDE DEF path
<1>7. SchemaAt(path, Pattern, Idle) /\ ValueSlot(path, value, Z)
  BY <1>3, <1>5, <1>6 DEF SchemaAt, ValueSlot
<1>8. Depth(path) <= 3 /\ value.kind # "struct" /\ Pattern.kind # "struct"
  BY <1>3, <1>5, <1>6
<1>9. /\ Agrees(Add(v, Pattern, value, path), Z, Idle)
      /\ KeepsSecured(v, Add(v, Pattern, value, path))
  BY <1>4, <1>5, <1>6, <1>7, <1>8, ShallowAddAgrees DEF ContextAt
<1>. QED
  BY <1>9 DEF PodPath, a, path, value, texts

(* The arguments of a container.                                              *)
LEMMA ArgsAgrees ==
    ASSUME DeploymentsAssumption, given \in Seq(DeploymentSpecs), dep \in 1..Len(given),
           idx \in 1..Len(Containers), NEW Z, NEW v, Agrees(v, Z, Idle)
    PROVE  LET u == Add(v, Expr("[...string]"), CtrValue("list", "args", Container.args),
                        CtrPath(<<"args">>))
           IN  Agrees(u, Z, Idle) /\ KeepsSecured(v, u)
<1> DEFINE a == Stored(Depl.name)
           b == Stored(Container.name)
           path == <<a, b, "args">>
           texts == Quoted(Container.args)
           schema == Expr("[...string]")
           value == Value("list", idx, "args", "", texts)
<1>1. a \in Labels /\ b \in Labels /\ "args" \in Labels /\ dep \in Nat /\ idx \in Nat
  BY AtDeployment, AtContainer, LabelsNamed DEF Parts
<1>2. texts \in Seq(Strung)
  <2>1. Container.args \in Seq(Texts)
    BY AtContainer DEF ContainerSpecs
  <2>. QED
    BY <2>1, QuotedTyped
<1>. HIDE DEF a, b, texts
<1>3. path \in Paths(Labels) /\ Depth(path) = 3 /\ PartOf(path) = "args"
  BY <1>1, Path3
<1>4. CtrPath(<<"args">>) = path
  <2>1. <<a, b>> \o <<"args">> = path
    BY <1>1, BelowPair3
  <2>. QED
    BY <2>1 DEF CtrPath, a, b
<1>5. value.kind = "list"
  BY DEF Value, Node
<1>6. value \in Contents
  <2>1. "list" \in Kinds /\ "args" \in Fields /\ "" \in DOMAIN Label \union {""}
    BY KindsNamed DEF Fields
  <2>. QED
    BY <1>1, <1>2, <2>1, ValueTyped
<1>7. schema \in Schemas /\ IsExpr(schema, "[...string]") /\ schema.kind = "expr"
  BY DefinitionsNamed, ExprTyped
<1>. HIDE DEF path, value, schema
<1>8. SchemaAt(path, schema, Idle) /\ ValueSlot(path, value, Z)
  BY <1>3, <1>5, <1>7 DEF SchemaAt, ValueSlot
<1>9. Depth(path) <= 3 /\ value.kind # "struct" /\ schema.kind # "struct"
  BY <1>3, <1>5, <1>7
<1>10. /\ Agrees(Add(v, schema, value, path), Z, Idle)
       /\ KeepsSecured(v, Add(v, schema, value, path))
  BY <1>3, <1>6, <1>7, <1>8, <1>9, ShallowAddAgrees DEF ContextAt
<1>. QED
  BY <1>4, <1>10 DEF CtrValue, value, texts, schema

(* A security context belongs to those at its path.                           *)
LEMMA ContextBelongs ==
    ASSUME dep \in 1..Len(given), idx \in 1..Len(Containers), Container.secured
    PROVE  <<dep, idx>> \in Contexts(<<Stored(Depl.name), Stored(Container.name),
                                       "containerSecurityContext">>)
<1>1. ContainersOf(dep) = Containers
  BY DEF ContainersOf, Containers, Depl
<1>2. <<dep, idx>> \in UNION {{i} \X (1..Len(ContainersOf(i))) : i \in 1..Len(given)}
  <2>1. <<dep, idx>> \in {dep} \X (1..Len(ContainersOf(dep)))
    BY <1>1
  <2>. QED
    BY <2>1, Zenon
<1>. QED
  BY <1>1, <1>2 DEF Contexts, Container, Depl

(* Its security context: it is the one there is of this Deployment.           *)
LEMMA SecurityAgrees ==
    ASSUME DeploymentsAssumption, given \in Seq(DeploymentSpecs), dep \in 1..Len(given),
           idx \in 1..Len(Containers), NEW Z, NEW v, Agrees(v, Z, Idle)
    PROVE  LET u == Add(v, Expr("#SecurityContext"),
                        CtrValue("map", "securityContext", Container.security),
                        CtrPath(<<"containerSecurityContext">>))
           IN  /\ Agrees(u, Z, Idle)
               /\ SecuredBy(v.values, dep, dep) /\ Container.secured => SecuredBy(u.values, dep, dep)
<1> DEFINE a == Stored(Depl.name)
           b == Stored(Container.name)
           path == <<a, b, "containerSecurityContext">>
           texts == Quoted(Container.security)
           schema == Expr("#SecurityContext")
           value == Value("map", idx, "securityContext", "", texts)
<1>1. a \in Labels /\ b \in Labels /\ "containerSecurityContext" \in Labels
      /\ dep \in Nat /\ idx \in Nat
  BY AtDeployment, AtContainer, LabelsNamed DEF Parts
<1>2. texts \in Seq(Strung)
  <2>1. Container.security \in Seq(Texts)
    BY AtContainer DEF ContainerSpecs
  <2>. QED
    BY <2>1, QuotedTyped
<1>. HIDE DEF a, b, texts
<1>3. path \in Paths(Labels) /\ Depth(path) = 3 /\ PartOf(path) = "containerSecurityContext"
  BY <1>1, Path3
<1>4. CtrPath(<<"containerSecurityContext">>) = path
  <2>1. <<a, b>> \o <<"containerSecurityContext">> = path
    BY <1>1, BelowPair3
  <2>. QED
    BY <2>1 DEF CtrPath, a, b
<1>5. value.kind = "map"
  BY DEF Value, Node
<1>6. value \in Contents
  <2>1. "map" \in Kinds /\ "securityContext" \in Fields /\ "" \in DOMAIN Label \union {""}
    BY KindsNamed DEF Fields
  <2>. QED
    BY <1>1, <1>2, <2>1, ValueTyped
<1>7. value.of = <<[dep |-> dep, container |-> idx, field |-> "securityContext", key |-> "",
                     texts |-> texts]>>
  BY DEF Value, Node
<1>8. Container.secured => ContextsFrom(value.of, path, dep, dep)
  <2>1. Container.secured => <<dep, idx>> \in Contexts(path)
    BY ContextBelongs DEF a, b
  <2> DEFINE origin == [dep |-> dep, container |-> idx, field |-> "securityContext", key |-> "",
                        texts |-> texts]
  <2>2. value.of = <<origin>>
    BY <1>7
  <2>3. origin.dep = dep /\ origin.container = idx
    OBVIOUS
  <2>. HIDE DEF value, path, origin
  <2>4. Len(value.of) = 1 /\ value.of[1] = origin
    BY <2>2
  <2>. QED
    BY <1>1, <2>1, <2>3, <2>4 DEF ContextsFrom
<1>9. schema \in Schemas /\ IsExpr(schema, "#SecurityContext") /\ schema.kind = "expr"
  BY DefinitionsNamed, ExprTyped
<1>. HIDE DEF path, value, schema
<1>10. SchemaAt(path, schema, Idle) /\ ValueSlot(path, value, Z)
  BY <1>3, <1>5, <1>9 DEF SchemaAt, ValueSlot
<1>11. Depth(path) <= 3 /\ value.kind # "struct" /\ schema.kind # "struct"
  BY <1>3, <1>5, <1>9
<1>12. Agrees(Add(v, schema, value, path), Z, Idle)
  BY <1>3, <1>6, <1>9, <1>10, <1>11, ShallowAddAgrees
<1>13. SecuredBy(v.values, dep, dep) /\ Container.secured =>
           SecuredBy(Add(v, schema, value, path).values, dep, dep)
  BY <1>3, <1>6, <1>8, AddSecured DEF Agrees
<1>. QED
  BY <1>4, <1>12, <1>13 DEF CtrValue, value, texts, schema

LEMMA Path1 ==
    ASSUME NEW x \in Labels
    PROVE  <<x>> \in Paths(Labels) /\ Depth(<<x>>) = 1 /\ ObjectOf(<<x>>) = x
  BY OneOf DEF Paths, Depth, ObjectOf

(* The pull secrets of the flag.                                              *)
LEMMA PullSecretsAgrees ==
    ASSUME NEW Z, NEW v, Agrees(v, Z, Idle)
    PROVE  LET u == Add(v, Expr("#LocalObjectReference"), Node("list", << >>, FALSE),
                        <<"imagePullSecrets">>)
           IN  Agrees(u, Z, Idle) /\ KeepsSecured(v, u)
<1> DEFINE path == <<"imagePullSecrets">>
           schema == Expr("#LocalObjectReference")
           value == Node("list", << >>, FALSE)
<1>1. path \in Paths(Labels) /\ Depth(path) = 1 /\ ObjectOf(path) = "imagePullSecrets"
  BY LabelsNamed, Path1
<1>2. value \in Contents /\ value.kind = "list"
  BY EmptyOrigins DEF Node, Contents, Nodes, Kinds
<1>3. schema \in Schemas /\ schema.kind = "expr"
  BY DefinitionsNamed, ExprTyped
<1>. HIDE DEF path, schema, value
<1>4. SchemaAt(path, schema, Idle) /\ ValueSlot(path, value, Z)
  BY <1>1, <1>2, <1>3 DEF SchemaAt, ValueSlot
<1>5. Depth(path) <= 3 /\ value.kind # "struct" /\ schema.kind # "struct"
  BY <1>1, <1>2, <1>3
<1>6. /\ Agrees(Add(v, schema, value, path), Z, Idle)
      /\ KeepsSecured(v, Add(v, schema, value, path))
  BY <1>1, <1>2, <1>3, <1>4, <1>5, ShallowAddAgrees DEF ContextAt
<1>. QED
  BY <1>6 DEF path, schema, value

(* There is nothing that could disagree.                                      *)
LEMMA NewValuesAgree ==
    ASSUME NEW Z
    PROVE  Agrees(NewValues, Z, Idle) /\ NewValues.outcome = "ok"
           /\ DOMAIN NewValues.config = {} /\ DOMAIN NewValues.values = {}
<1>1. /\ NewValues.config = Empty /\ NewValues.values = Empty /\ NewValues.outcome = "ok"
      /\ NewValues = [config |-> NewValues.config, values |-> NewValues.values,
                      outcome |-> NewValues.outcome]
  BY DEF NewValues
<1>2. DOMAIN Empty = {}
  BY DEF Empty
<1>3. \A O : IsTreeOver(Empty, Labels, O)
  <2>1. \A O : Empty \in [{} -> Nodes(O)]
    BY DEF Empty
  <2>. QED
    BY <1>2, <2>1 DEF IsTreeOver
<1>4. IsTyped(NewValues)
  BY <1>1, <1>3 DEF IsTyped, IsValuesOver
<1>5. Fit(Empty, Empty, Z, Idle)
  BY <1>2 DEF Fit, SlotsFit, Covered, Matched, Valued
<1>. QED
  BY <1>1, <1>2, <1>4, <1>5 DEF Agrees

(* The domain of the cluster, and the Values of output.Create.                *)
LEMMA DomainTyped ==
    DomainValue \in Contents /\ DomainValue.kind = "atom" /\ ~IsNumber(DomainValue)
<1> DEFINE text == InString(DefaultDomain, StrconvQuote(DefaultDomain))
           origin == [dep |-> 0, container |-> 0, field |-> "domain", key |-> "",
                      texts |-> <<text>>]
<1>1. text \in Strung
  <2>1. DefaultDomain \in Seq(ToSet(DefaultDomain))
    BY DEF ToSet, DefaultDomain
  <2>2. DefaultDomain \in Seq(Chars)
    BY <2>1 DEF Chars
  <2>. QED
    BY <2>2, Quoting
<1>2. <<text>> \in Seq(Strung)
  BY <1>1, OneOf
<1>3. "domain" \in Fields /\ "domain" \notin {"replicas", "revisionHistoryLimit"}
  BY DEF Fields
<1>. HIDE DEF text
<1>4. origin \in Origins /\ origin.field = "domain"
  BY <1>2, <1>3 DEF Origins
<1>5. DomainValue = [kind |-> "atom", of |-> <<origin>>, required |-> FALSE]
  BY DEF DomainValue, Node, text
<1>. HIDE DEF origin
<1>6. <<origin>> \in Sources /\ <<origin>>[1] = origin
  BY <1>4, OneOf DEF Sources
<1>7. DomainValue \in Contents
  <2>1. [kind |-> "atom", of |-> <<origin>>, required |-> FALSE] \in Nodes(Sources)
    BY <1>6 DEF Nodes, Kinds
  <2>. QED
    BY <1>5, <2>1 DEF Contents
<1>8. DomainValue.kind = "atom" /\ DomainValue.of = <<origin>>
  BY <1>5
<1>. QED
  BY <1>3, <1>4, <1>6, <1>7, <1>8 DEF IsNumber

LEMMA DomainAgrees ==
    ASSUME NEW Z
    PROVE  Agrees(Add(NewValues, Expr("string"), DomainValue, <<DomainKey>>), Z, Idle)
           /\ Add(NewValues, Expr("string"), DomainValue, <<DomainKey>>).outcome = "ok"
<1> DEFINE path == <<DomainKey>>
           schema == Expr("string")
           u == Add(NewValues, schema, DomainValue, path)
<1>1. path \in Paths(Labels) /\ Depth(path) = 1 /\ ObjectOf(path) = DomainKey
  BY LabelsNamed, Path1
<1>2. DomainValue \in Contents /\ DomainValue.kind = "atom" /\ ~IsNumber(DomainValue)
  BY DomainTyped
<1>3. schema \in Schemas /\ IsExpr(schema, "string") /\ schema.kind = "expr"
  BY DefinitionsNamed, ExprTyped
<1>. HIDE DEF path, schema
<1>4. SchemaAt(path, schema, Idle) /\ ValueSlot(path, DomainValue, Z)
  BY <1>1, <1>2, <1>3 DEF SchemaAt, ValueSlot
<1>5. Depth(path) <= 3 /\ DomainValue.kind # "struct" /\ schema.kind # "struct"
  BY <1>1, <1>2, <1>3
<1>6. Agrees(u, Z, Idle)
  BY <1>1, <1>2, <1>3, <1>4, <1>5, NewValuesAgree, ShallowAddAgrees
<1>7. u.outcome = "ok"
  <2>1. schema # NoSchema
    BY <1>3 DEF NoSchema, Node
  <2>2. ~Blocked(Empty, path)
    BY DEF Blocked, Empty
  <2>3. /\ NewValues.config = Empty /\ NewValues.values = Empty /\ NewValues.outcome = "ok"
        /\ NewValues = [config |-> Empty, values |-> Empty, outcome |-> "ok"]
    BY DEF NewValues
  <2>. HIDE DEF Empty, NewValues
  <2>. QED
    BY <2>1, <2>2, <2>3 DEF Add, AddConfig, SetValue
<1>. QED
  BY <1>6, <1>7 DEF path, schema

-----------------------------------------------------------------------------
(* The invariant                                                              *)

(* The paths of the zeros: of replicas and of revision history limits.        *)
UnsetPaths ==
    {<<Label[given[i].name], "replicas">> : i \in {j \in 1..Len(given) : given[j].replicas = "zero"}}
    \union
    {<<Label[given[i].name], "revisionHistoryLimit">> :
        i \in {j \in 1..Len(given) : given[j].revision = "zero"}}

Outcomes ==
    [config : UNION {[D -> Schemas] : D \in SUBSET Paths(Labels)},
     values : UNION {[D -> Contents] : D \in SUBSET Paths(Labels)},
     outcome : {"ok", "error", "panic"}]
Agreed(Z) == {v \in Outcomes : Agrees(v, Z, Idle)}
Good(Z) == {v \in Agreed(Z) : v.outcome = "ok"}

Processing == {"replicas", "revision", "labels", "containers", "nested", "security", "merge"}

(* Where a run is: a Deployment is being processed until they all are.        *)
InRange ==
    /\ given \in Runs
    /\ dep \in 1..Len(given) + 1 /\ idx \in Nat /\ idx >= 1
    /\ pc \in Processing \union {"meta", "create", "done", "error", "panic"}
    /\ pc \in Processing => dep <= Len(given)

(* What there is of schema and values agrees, and as long as the run goes on  *)
(* nothing has failed.                                                        *)
InAgreement ==
    /\ values \in Agreed(UnsetPaths) /\ podValues \in Agreed(UnsetPaths)
    /\ module \in Agreed(UnsetPaths) /\ templates \in Seq(Agreed(UnsetPaths))
    /\ pc \notin {"error", "panic"} =>
          /\ values.outcome = "ok" /\ podValues.outcome = "ok" /\ module.outcome = "ok"
          /\ templates \in Seq(Good(UnsetPaths))

WrittenConfig == pc = "done" => configFile = DefaultConfig(module.config)

SchemaInv == InRange /\ InAgreement /\ WrittenConfig

(* Values that agree are a set.                                               *)
LEMMA AgreedValues ==
    ASSUME NEW Z, NEW v
    PROVE  v \in Agreed(Z) <=> Agrees(v, Z, Idle)
<1>1. ASSUME Agrees(v, Z, Idle) PROVE v \in Outcomes
  <2>1. /\ v = [config |-> v.config, values |-> v.values, outcome |-> v.outcome]
        /\ v.outcome \in {"ok", "error", "panic"}
        /\ IsTreeOver(v.config, Labels, Definitions) /\ IsTreeOver(v.values, Labels, Sources)
    BY <1>1 DEF Agrees, IsTyped, IsValuesOver
  <2>2. v.config \in UNION {[D -> Schemas] : D \in SUBSET Paths(Labels)}
    BY <2>1 DEF IsTreeOver, Schemas
  <2>3. v.values \in UNION {[D -> Contents] : D \in SUBSET Paths(Labels)}
    BY <2>1 DEF IsTreeOver, Contents
  <2>4. [config |-> v.config, values |-> v.values, outcome |-> v.outcome] \in Outcomes
    BY <2>1, <2>2, <2>3 DEF Outcomes
  <2>. QED
    BY <2>1, <2>4, Zenon
<1>. QED
  BY <1>1 DEF Agreed

LEMMA GivenTyped ==
    ASSUME DeploymentsAssumption, given \in Runs
    PROVE  given \in Seq(DeploymentSpecs) /\ Len(given) \in Nat
  BY DEF DeploymentsAssumption

LEMMA OutcomeOf ==
    ASSUME NEW Z, NEW v \in Agreed(Z)
    PROVE  v.outcome \in {"ok", "error", "panic"}
  BY DEF Agreed, Outcomes

(* The invariant holds when a run begins.                                     *)
THEOREM SchemaInit == DeploymentsAssumption /\ Init => SchemaInv
<1>. SUFFICES ASSUME DeploymentsAssumption, Init PROVE SchemaInv
  OBVIOUS
<1>1. /\ given \in Runs /\ dep = 1 /\ idx = 1 /\ pc = "meta"
      /\ values = NewValues /\ podValues = NewValues /\ templates = << >>
      /\ module = Add(NewValues, Expr("string"), DomainValue, <<DomainKey>>)
  BY DEF Init
<1>2. InRange
  BY <1>1, GivenTyped DEF InRange, Processing
<1>3. InAgreement
  <2>1. NewValues \in Agreed(UnsetPaths) /\ NewValues.outcome = "ok"
    BY NewValuesAgree, AgreedValues
  <2>2. module \in Agreed(UnsetPaths) /\ module.outcome = "ok"
    BY <1>1, DomainAgrees, AgreedValues
  <2>3. templates \in Seq(Agreed(UnsetPaths)) /\ templates \in Seq(Good(UnsetPaths))
    BY <1>1
  <2>. QED
    BY <1>1, <2>1, <2>2, <2>3 DEF InAgreement
<1>. QED
  BY <1>1, <1>2, <1>3 DEF SchemaInv, WrittenConfig

-----------------------------------------------------------------------------
(* Steps of a Deployment                                                      *)

(* While a Deployment is processed, its own Values change and no others do.   *)
LEMMA ProcessingStep ==
    ASSUME SchemaInv, given' = given, dep' = dep, idx' \in Nat, idx' >= 1,
           templates' = templates, module' = module,
           values' \in Agreed(UnsetPaths), podValues' \in Agreed(UnsetPaths),
           pc \in Processing, pc' \in Processing \union {"error", "panic"},
           pc' \notin {"error", "panic"} => values'.outcome = "ok" /\ podValues'.outcome = "ok"
    PROVE  SchemaInv'
<1>1. UnsetPaths' = UnsetPaths
  BY DEF UnsetPaths
<1>2. pc \notin {"error", "panic"} /\ pc' # "done"
  BY DEF Processing
<1>3. InRange'
  BY DEF SchemaInv, InRange, Processing
<1>4. InAgreement'
  BY <1>1, <1>2 DEF SchemaInv, InAgreement
<1>. QED
  BY <1>2, <1>3, <1>4 DEF SchemaInv, WrittenConfig

(* What the lemmas on a Deployment's steps need.                              *)
LEMMA ProcessingState ==
    ASSUME DeploymentsAssumption, SchemaInv, pc \in Processing
    PROVE  /\ given \in Seq(DeploymentSpecs) /\ dep \in 1..Len(given) /\ idx \in Nat /\ idx >= 1
           /\ values \in Agreed(UnsetPaths) /\ podValues \in Agreed(UnsetPaths)
           /\ values.outcome = "ok" /\ podValues.outcome = "ok"
           /\ Len(Containers) \in Nat
<1>1. given \in Seq(DeploymentSpecs) /\ dep \in 1..Len(given) /\ idx \in Nat /\ idx >= 1
  BY GivenTyped DEF SchemaInv, InRange, Processing
<1>2. Depl \in DeploymentSpecs
  BY <1>1 DEF Depl
<1>3. Containers \in Seq(ContainerSpecs)
  BY <1>2 DEF DeploymentSpecs, Containers
<1>4. Len(Containers) \in Nat
  BY <1>3
<1>. QED
  BY <1>1, <1>4 DEF SchemaInv, InAgreement, Processing

LEMMA ReplicasStep ==
    ASSUME DeploymentsAssumption, SchemaInv, ProcessReplicas
    PROVE  SchemaInv'
<1> DEFINE Z == UnsetPaths
<1>1. /\ pc = "replicas" /\ given' = given /\ dep' = dep /\ idx' = idx
      /\ podValues' = podValues /\ templates' = templates /\ module' = module
      /\ pc' = IF values'.outcome = "ok" THEN "revision" ELSE values'.outcome
  BY DEF ProcessReplicas, Proceed, fileVars
<1>2. pc \in Processing
  BY <1>1 DEF Processing
<1>3. Depl.replicas = "zero" => ObjPath("replicas") \in Z
  BY <1>2, ProcessingState DEF UnsetPaths, Depl, ObjPath, ObjLabel
<1>4. values' \in Agreed(Z)
  <2>. HIDE DEF Z
  <2>1. values \in Agreed(Z)
    BY <1>2, ProcessingState DEF Z
  <2>2. CASE Depl.replicas = "none"
    BY <2>1, <2>2 DEF ProcessReplicas
  <2>3. CASE Depl.replicas # "none"
    <3>1. PICK kind \in {"atom", "zero"} :
              /\ kind = "zero" => Depl.replicas = "zero"
              /\ values' = Add(values, Expr("int & >0"), Value(kind, 0, "replicas", "", << >>),
                               ObjPath("replicas"))
      BY <2>3 DEF ProcessReplicas, NumberKind
    <3>2. Agrees(values', Z, Idle)
      BY <1>2, <1>3, <2>1, <3>1, AgreedValues, ReplicasAgrees, ProcessingState
    <3>. QED
      BY <3>2, AgreedValues
  <2>. QED
    BY <2>2, <2>3
<1>5. values'.outcome \in {"ok", "error", "panic"}
  BY <1>4, OutcomeOf
<1>. QED
  BY <1>1, <1>2, <1>4, <1>5, ProcessingStep, ProcessingState DEF Processing

LEMMA RevisionStep ==
    ASSUME DeploymentsAssumption, SchemaInv, ProcessRevisionHistoryLimit
    PROVE  SchemaInv'
<1> DEFINE Z == UnsetPaths
<1>1. /\ pc = "revision" /\ given' = given /\ dep' = dep /\ idx' = idx
      /\ podValues' = podValues /\ templates' = templates /\ module' = module
      /\ pc' = IF values'.outcome = "ok" THEN "labels" ELSE values'.outcome
  BY DEF ProcessRevisionHistoryLimit, Proceed, fileVars
<1>2. pc \in Processing
  BY <1>1 DEF Processing
<1>3. Depl.revision = "zero" => ObjPath("revisionHistoryLimit") \in Z
  BY <1>2, ProcessingState DEF UnsetPaths, Depl, ObjPath, ObjLabel
<1>4. values' \in Agreed(Z)
  <2>. HIDE DEF Z
  <2>1. values \in Agreed(Z)
    BY <1>2, ProcessingState DEF Z
  <2>2. CASE Depl.revision = "none"
    BY <2>1, <2>2 DEF ProcessRevisionHistoryLimit
  <2>3. CASE Depl.revision # "none"
    <3>1. PICK kind \in {"atom", "zero"} :
              /\ kind = "zero" => Depl.revision = "zero"
              /\ values' = Add(values, Expr("int64"),
                               Value(kind, 0, "revisionHistoryLimit", "", << >>),
                               ObjPath("revisionHistoryLimit"))
      BY <2>3 DEF ProcessRevisionHistoryLimit, NumberKind
    <3>2. Agrees(values', Z, Idle)
      BY <1>2, <1>3, <2>1, <3>1, AgreedValues, RevisionAgrees, ProcessingState
    <3>. QED
      BY <3>2, AgreedValues
  <2>. QED
    BY <2>2, <2>3
<1>5. values'.outcome \in {"ok", "error", "panic"}
  BY <1>4, OutcomeOf
<1>. QED
  BY <1>1, <1>2, <1>4, <1>5, ProcessingStep, ProcessingState DEF Processing

LEMMA LabelsStep ==
    ASSUME DeploymentsAssumption, SchemaInv, ProcessLabels
    PROVE  SchemaInv'
<1>1. /\ pc = "labels" /\ given' = given /\ dep' = dep /\ idx' = idx /\ values' = values
      /\ podValues' = podValues /\ templates' = templates /\ module' = module
      /\ pc' \in {"containers", "panic"}
  BY DEF ProcessLabels
<1>2. pc \in Processing
  BY <1>1 DEF Processing
<1>. QED
  BY <1>1, <1>2, ProcessingStep, ProcessingState DEF Processing

LEMMA NamesStep ==
    ASSUME DeploymentsAssumption, SchemaInv, TemplateNames
    PROVE  SchemaInv'
<1>1. /\ pc = "containers" /\ given' = given /\ dep' = dep /\ idx' = 1 /\ values' = values
      /\ podValues' = podValues /\ templates' = templates /\ module' = module
      /\ pc' = "nested"
  BY DEF TemplateNames, fileVars
<1>2. pc \in Processing
  BY <1>1 DEF Processing
<1>. QED
  BY <1>1, <1>2, ProcessingStep, ProcessingState DEF Processing

LEMMA PodContainerStep ==
    ASSUME DeploymentsAssumption, SchemaInv, ProcessPodContainer
    PROVE  SchemaInv'
<1> DEFINE Z == UnsetPaths
           parts == Split(Quote(Container.image))
<1>1. /\ pc = "containers" /\ idx <= Len(Containers) /\ given' = given /\ dep' = dep
      /\ values' = values /\ templates' = templates /\ module' = module
      /\ \/ pc' = "error" /\ idx' = idx /\ podValues' = podValues
         \/ /\ idx' = idx + 1 /\ podValues' = PodContainerValues(podValues, parts)
            /\ Splittable(Quote(Container.image))
            /\ pc' = IF podValues'.outcome = "ok" THEN "containers" ELSE podValues'.outcome
  BY DEF ProcessPodContainer, Proceed, fileVars
<1>2. pc \in Processing
  BY <1>1 DEF Processing
<1>3. idx \in 1..Len(Containers)
  BY <1>1, <1>2, ProcessingState
<1>4. podValues' \in Agreed(Z)
  <2>1. Container.image \in Texts
    BY <1>2, <1>3, ProcessingState, AtContainer DEF ContainerSpecs
  <2>2. Container.image \in Seq(Chars)
    BY <2>1, TextsAreChars
  <2>3. Splittable(Quote(Container.image)) =>
            \A field \in {"repository", "tag", "digest"} : parts[field] \in Seq(Chars)
    BY <2>2, SplitTyped
  <2>4. podValues \in Agreed(Z)
    BY <1>2, ProcessingState
  <2>. HIDE DEF Z, parts
  <2>. QED
    BY <1>1, <1>2, <1>3, <2>3, <2>4, AgreedValues, PodContainerAgrees, ProcessingState
<1>5. podValues'.outcome \in {"ok", "error", "panic"}
  BY <1>4, OutcomeOf
<1>6. idx' \in Nat /\ idx' >= 1
  BY <1>1, <1>3
<1>. QED
  BY <1>1, <1>2, <1>4, <1>5, <1>6, ProcessingStep, ProcessingState DEF Processing

LEMMA ContainerStep ==
    ASSUME DeploymentsAssumption, SchemaInv, ProcessContainer
    PROVE  SchemaInv'
<1> DEFINE Z == UnsetPaths
<1>1. /\ pc = "nested" /\ idx <= Len(Containers) /\ given' = given /\ dep' = dep
      /\ values' = values /\ templates' = templates /\ module' = module /\ idx' = idx + 1
      /\ \/ podValues' = podValues
         \/ podValues' = Add(podValues, Expr("[...string]"),
                             CtrValue("list", "args", Container.args), CtrPath(<<"args">>))
      /\ pc' = IF podValues'.outcome = "ok" THEN "nested" ELSE podValues'.outcome
  BY DEF ProcessContainer, Proceed, fileVars
<1>2. pc \in Processing
  BY <1>1 DEF Processing
<1>3. idx \in 1..Len(Containers) /\ idx' \in Nat /\ idx' >= 1
  BY <1>1, <1>2, ProcessingState
<1>4. podValues' \in Agreed(Z)
  <2>1. podValues \in Agreed(Z)
    BY <1>2, ProcessingState
  <2>. HIDE DEF Z
  <2>. QED
    BY <1>1, <1>2, <1>3, <2>1, AgreedValues, ArgsAgrees, ProcessingState
<1>5. podValues'.outcome \in {"ok", "error", "panic"}
  BY <1>4, OutcomeOf
<1>. QED
  BY <1>1, <1>2, <1>3, <1>4, <1>5, ProcessingStep, ProcessingState DEF Processing

LEMMA PullSecretsStep ==
    ASSUME DeploymentsAssumption, SchemaInv, AddPullSecrets
    PROVE  SchemaInv'
<1> DEFINE Z == UnsetPaths
<1>1. /\ pc = "nested" /\ given' = given /\ dep' = dep
      /\ values' = values /\ templates' = templates /\ module' = module /\ idx' = 1
      /\ \/ podValues' = podValues
         \/ podValues' = Add(podValues, Expr("#LocalObjectReference"), Node("list", << >>, FALSE),
                             <<"imagePullSecrets">>)
      /\ pc' = IF podValues'.outcome = "ok" THEN "security" ELSE podValues'.outcome
  BY DEF AddPullSecrets, Proceed, fileVars
<1>2. pc \in Processing
  BY <1>1 DEF Processing
<1>4. podValues' \in Agreed(Z)
  <2>1. podValues \in Agreed(Z)
    BY <1>2, ProcessingState
  <2>. HIDE DEF Z
  <2>. QED
    BY <1>1, <2>1, AgreedValues, PullSecretsAgrees
<1>5. podValues'.outcome \in {"ok", "error", "panic"}
  BY <1>4, OutcomeOf
<1>. QED
  BY <1>1, <1>2, <1>4, <1>5, ProcessingStep, ProcessingState DEF Processing

LEMMA SecurityStep ==
    ASSUME DeploymentsAssumption, SchemaInv, SecurityContext
    PROVE  SchemaInv'
<1> DEFINE Z == UnsetPaths
<1>1. /\ pc = "security" /\ idx <= Len(Containers) /\ given' = given /\ dep' = dep
      /\ values' = values /\ templates' = templates /\ module' = module /\ idx' = idx + 1
      /\ \/ podValues' = podValues
         \/ podValues' = Add(podValues, Expr("#SecurityContext"),
                             CtrValue("map", "securityContext", Container.security),
                             CtrPath(<<"containerSecurityContext">>))
      /\ pc' = IF podValues'.outcome = "ok" THEN "security" ELSE podValues'.outcome
  BY DEF SecurityContext, Proceed, fileVars
<1>2. pc \in Processing
  BY <1>1 DEF Processing
<1>3. idx \in 1..Len(Containers) /\ idx' \in Nat /\ idx' >= 1
  BY <1>1, <1>2, ProcessingState
<1>4. podValues' \in Agreed(Z)
  <2>1. podValues \in Agreed(Z)
    BY <1>2, ProcessingState
  <2>. HIDE DEF Z
  <2>. QED
    BY <1>1, <1>2, <1>3, <2>1, AgreedValues, SecurityAgrees, ProcessingState
<1>5. podValues'.outcome \in {"ok", "error", "panic"}
  BY <1>4, OutcomeOf
<1>. QED
  BY <1>1, <1>2, <1>3, <1>4, <1>5, ProcessingStep, ProcessingState DEF Processing

LEMMA NodeSelectorStep ==
    ASSUME DeploymentsAssumption, SchemaInv, NodeSelector
    PROVE  SchemaInv'
<1> DEFINE Z == UnsetPaths
<1>1. /\ pc = "security" /\ given' = given /\ dep' = dep /\ idx' = idx
      /\ values' = values /\ templates' = templates /\ module' = module
      /\ \/ podValues' = podValues
         \/ podValues' = Add(podValues, Pattern,
                             Value("map", 0, "nodeSelector", "", Quoted(Depl.nodeSelector)),
                             PodPath("nodeSelector"))
      /\ pc' = IF podValues'.outcome = "ok" THEN "merge" ELSE podValues'.outcome
  BY DEF NodeSelector, Proceed, fileVars
<1>2. pc \in Processing
  BY <1>1 DEF Processing
<1>4. podValues' \in Agreed(Z)
  <2>1. podValues \in Agreed(Z)
    BY <1>2, ProcessingState
  <2>. HIDE DEF Z
  <2>. QED
    BY <1>1, <1>2, <2>1, AgreedValues, NodeSelectorAgrees, ProcessingState
<1>5. podValues'.outcome \in {"ok", "error", "panic"}
  BY <1>4, OutcomeOf
<1>. QED
  BY <1>1, <1>2, <1>4, <1>5, ProcessingStep, ProcessingState DEF Processing

-----------------------------------------------------------------------------
(* Steps between Deployments                                                  *)

LEMMA MetaStep ==
    ASSUME DeploymentsAssumption, SchemaInv, ProcessObjMeta
    PROVE  SchemaInv'
<1>1. /\ pc = "meta" /\ dep <= Len(given) /\ pc' = "replicas"
      /\ UNCHANGED <<given, dep, idx, values, podValues, templates, module>>
  BY DEF ProcessObjMeta
<1>2. UnsetPaths' = UnsetPaths
  BY <1>1 DEF UnsetPaths
<1>3. InRange'
  BY <1>1 DEF SchemaInv, InRange, Processing
<1>4. InAgreement'
  BY <1>1, <1>2 DEF SchemaInv, InAgreement
<1>. QED
  BY <1>1, <1>3, <1>4 DEF SchemaInv, WrittenConfig

LEMMA MergePodStep ==
    ASSUME DeploymentsAssumption, SchemaInv, MergePodValues
    PROVE  SchemaInv'
<1> DEFINE Z == UnsetPaths
           merged == Merge(values, podValues)
<1>1. /\ pc = "merge" /\ given' = given /\ dep' = dep + 1 /\ idx' = 1
      /\ values' = NewValues /\ podValues' = NewValues /\ module' = module
      /\ templates' = Append(templates, merged)
      /\ pc' = IF merged.outcome = "ok" THEN "meta" ELSE merged.outcome
  BY DEF MergePodValues, Proceed
<1>2. pc \in Processing
  BY <1>1 DEF Processing
<1>3. merged \in Agreed(Z)
  <2>1. Agrees(values, Z, Idle) /\ Agrees(podValues, Z, Idle) /\ podValues.outcome = "ok"
    BY <1>2, ProcessingState, AgreedValues
  <2>. HIDE DEF Z
  <2>2. Agrees(merged, Z, Idle)
    BY <2>1, MergeAgrees
  <2>. QED
    BY <2>2, AgreedValues
<1>4. NewValues \in Agreed(Z) /\ NewValues.outcome = "ok"
  BY NewValuesAgree, AgreedValues
<1>5. merged.outcome \in {"ok", "error", "panic"}
  BY <1>3, OutcomeOf
<1>6. UnsetPaths' = UnsetPaths
  BY <1>1 DEF UnsetPaths
<1>. HIDE DEF merged
<1>7. InRange'
  <2>1. dep \in 1..Len(given) /\ Len(given) \in Nat
    BY <1>2, ProcessingState
  <2>2. dep + 1 \in 1..Len(given) + 1
    BY <2>1
  <2>. QED
    BY <1>1, <1>5, <2>2 DEF SchemaInv, InRange, Processing
<1>8. templates' \in Seq(Agreed(Z))
  BY <1>1, <1>3 DEF SchemaInv, InAgreement
<1>9. pc' \notin {"error", "panic"} => templates' \in Seq(Good(Z))
  <2>1. templates \in Seq(Good(Z))
    BY <1>1 DEF SchemaInv, InAgreement
  <2>2. pc' \notin {"error", "panic"} => merged \in Good(Z)
    BY <1>1, <1>3, <1>5 DEF Good
  <2>. HIDE DEF Z
  <2>. QED
    BY <1>1, <2>1, <2>2
<1>10. module \in Agreed(Z) /\ module.outcome = "ok"
  BY <1>1 DEF SchemaInv, InAgreement
<1>11. InAgreement'
  BY <1>1, <1>4, <1>6, <1>8, <1>9, <1>10 DEF InAgreement
<1>. QED
  BY <1>1, <1>5, <1>7, <1>11 DEF SchemaInv, WrittenConfig

LEMMA BeginCreateStep ==
    ASSUME DeploymentsAssumption, SchemaInv, BeginCreate
    PROVE  SchemaInv'
<1>1. /\ pc = "meta" /\ pc' = "create"
      /\ UNCHANGED <<given, dep, idx, values, podValues, templates, module>>
  BY DEF BeginCreate
<1>2. UnsetPaths' = UnsetPaths
  BY <1>1 DEF UnsetPaths
<1>3. InRange'
  BY <1>1 DEF SchemaInv, InRange, Processing
<1>4. InAgreement'
  BY <1>1, <1>2 DEF SchemaInv, InAgreement
<1>. QED
  BY <1>1, <1>3, <1>4 DEF SchemaInv, WrittenConfig

LEMMA MergeTemplateStep ==
    ASSUME DeploymentsAssumption, SchemaInv, MergeTemplate
    PROVE  SchemaInv'
<1> DEFINE Z == UnsetPaths
           template == templates[idx]
<1>1. /\ pc = "create" /\ idx <= Len(templates) /\ module' = Merge(module, template)
      /\ idx' = idx + 1
      /\ pc' = IF module'.outcome = "ok" THEN "create" ELSE module'.outcome
      /\ UNCHANGED <<given, dep, values, podValues, templates>>
  BY DEF MergeTemplate, Proceed
<1>2. idx \in Nat /\ idx >= 1
  BY DEF SchemaInv, InRange
<1>3. templates \in Seq(Good(Z)) /\ module \in Agreed(Z)
  BY <1>1 DEF SchemaInv, InAgreement
<1>4. module' \in Agreed(Z)
  <2>. HIDE DEF Z
  <2>1. template \in Good(Z)
    BY <1>1, <1>2, <1>3
  <2>2. Agrees(template, Z, Idle) /\ template.outcome = "ok" /\ Agrees(module, Z, Idle)
    BY <1>3, <2>1, AgreedValues DEF Good
  <2>. HIDE DEF template
  <2>3. Agrees(Merge(module, template), Z, Idle)
    BY <2>2, MergeAgrees
  <2>. QED
    BY <1>1, <2>3, AgreedValues
<1>5. module'.outcome \in {"ok", "error", "panic"}
  BY <1>4, OutcomeOf
<1>6. UnsetPaths' = UnsetPaths
  BY <1>1 DEF UnsetPaths
<1>7. InRange'
  BY <1>1, <1>2, <1>5 DEF SchemaInv, InRange, Processing
<1>8. InAgreement'
  BY <1>1, <1>4, <1>5, <1>6 DEF SchemaInv, InAgreement
<1>. QED
  BY <1>1, <1>5, <1>7, <1>8 DEF SchemaInv, WrittenConfig

LEMMA WrittenStep ==
    ASSUME DeploymentsAssumption, SchemaInv, Written
    PROVE  SchemaInv'
<1>1. /\ pc = "create" /\ pc' = "done" /\ configFile' = DefaultConfig(module.config)
      /\ UNCHANGED <<given, dep, idx, values, podValues, templates, module>>
  BY DEF Written
<1>2. UnsetPaths' = UnsetPaths
  BY <1>1 DEF UnsetPaths
<1>3. InRange'
  BY <1>1 DEF SchemaInv, InRange, Processing
<1>4. InAgreement'
  BY <1>1, <1>2 DEF SchemaInv, InAgreement
<1>5. WrittenConfig'
  BY <1>1 DEF WrittenConfig
<1>. QED
  BY <1>3, <1>4, <1>5 DEF SchemaInv

LEMMA NoStep ==
    ASSUME SchemaInv, UNCHANGED vars
    PROVE  SchemaInv'
<1>1. UNCHANGED <<given, dep, pc, idx, values, podValues, templates, module, configFile>>
  BY DEF vars
<1>2. UnsetPaths' = UnsetPaths
  BY <1>1 DEF UnsetPaths
<1>3. InRange'
  BY <1>1 DEF SchemaInv, InRange
<1>4. InAgreement'
  BY <1>1, <1>2 DEF SchemaInv, InAgreement
<1>5. WrittenConfig'
  BY <1>1 DEF SchemaInv, WrittenConfig
<1>. QED
  BY <1>3, <1>4, <1>5 DEF SchemaInv

(* Every step of every processor, of merging and of writing keeps it.         *)
THEOREM SchemaNext == DeploymentsAssumption /\ SchemaInv /\ [Next]_vars => SchemaInv'
<1>. SUFFICES ASSUME DeploymentsAssumption, SchemaInv, [Next]_vars PROVE SchemaInv'
  OBVIOUS
<1>1. CASE ProcessObjMeta
  BY <1>1, MetaStep
<1>2. CASE ProcessReplicas
  BY <1>2, ReplicasStep
<1>3. CASE ProcessRevisionHistoryLimit
  BY <1>3, RevisionStep
<1>4. CASE ProcessLabels
  BY <1>4, LabelsStep
<1>5. CASE ProcessPodContainer
  BY <1>5, PodContainerStep
<1>6. CASE TemplateNames
  BY <1>6, NamesStep
<1>7. CASE ProcessContainer
  BY <1>7, ContainerStep
<1>8. CASE AddPullSecrets
  BY <1>8, PullSecretsStep
<1>9. CASE SecurityContext
  BY <1>9, SecurityStep
<1>10. CASE NodeSelector
  BY <1>10, NodeSelectorStep
<1>11. CASE MergePodValues
  BY <1>11, MergePodStep
<1>12. CASE BeginCreate
  BY <1>12, BeginCreateStep
<1>13. CASE MergeTemplate
  BY <1>13, MergeTemplateStep
<1>14. CASE Written
  BY <1>14, WrittenStep
<1>15. CASE UNCHANGED vars
  BY <1>15, NoStep
<1>. QED
  BY <1>1, <1>2, <1>3, <1>4, <1>5, <1>6, <1>7, <1>8, <1>9, <1>10, <1>11, <1>12, <1>13,
     <1>14, <1>15 DEF Next

(* In every run, whatever the Deployments are and however their names collide,*)
(* the schema and the values of each template and of the module agree, as long*)
(* as the run goes on.                                                        *)
THEOREM SchemaInvariance == Spec => []SchemaInv
<1>1. Init => SchemaInv
  BY SchemaInit, DeploymentsAssumption
<1>2. SchemaInv /\ [Next]_vars => SchemaInv'
  BY SchemaNext, DeploymentsAssumption
<1>. QED
  BY <1>1, <1>2, PTL DEF Spec

-----------------------------------------------------------------------------
(* The security contexts of a run                                             *)

(* What the contexts in the values of a run come from: in those of a pod from *)
(* its own Deployment, in those of a template too, and in those of the module *)
(* from the Deployments whose templates have been merged.                     *)
SecuredTemplates ==
    /\ Len(templates) = dep - 1
    /\ \A i \in 1..Len(templates) : SecuredBy(templates[i].values, i, i)
SecuredInv ==
    /\ SecuredTemplates
    /\ pc = "meta" => idx = 1
    /\ pc \in Processing \union {"meta"} =>
          /\ SecuredBy(values.values, dep, dep - 1)
          /\ SecuredBy(podValues.values, dep, dep)
          /\ SecuredBy(module.values, 1, 0)
    /\ pc \in {"create", "done"} => SecuredBy(module.values, 1, idx - 1)

(* It is the Deployments of the run that say which contexts there are.        *)
LEMMA SecuredSame ==
    ASSUME given' = given
    PROVE  \A content, lo, hi : SecuredBy(content, lo, hi)' <=> SecuredBy(content, lo, hi)
  BY DEF SecuredBy, ContextAt, ContextsFrom, Contexts, ContainersOf, Depth, PartOf, Stored

LEMMA NoneSecured ==
    ASSUME NEW lo, NEW hi
    PROVE  SecuredBy(NewValues.values, lo, hi)
  BY NewValuesAgree DEF SecuredBy

(* The domain is no context.                                                  *)
LEMMA SecuredInit ==
    ASSUME DeploymentsAssumption, Init
    PROVE  SecuredInv
<1>1. /\ dep = 1 /\ idx = 1 /\ pc = "meta" /\ templates = << >>
      /\ values = NewValues /\ podValues = NewValues
      /\ module = Add(NewValues, Expr("string"), DomainValue, <<DomainKey>>)
  BY DEF Init
<1>2. SecuredBy(module.values, 1, 0)
  <2>1. KeepsSecured(NewValues, module)
    <3>1. <<DomainKey>> \in Paths(Labels) /\ Depth(<<DomainKey>>) = 1
      BY LabelsNamed, Path1
    <3>2. DomainValue \in Contents
      BY DomainTyped
    <3>3. IsTyped(NewValues)
      BY NewValuesAgree DEF Agrees
    <3>. QED
      BY <1>1, <3>1, <3>2, <3>3, OtherAddSecured DEF ContextAt
  <2>. QED
    BY <2>1, NoneSecured DEF KeepsSecured
<1>. QED
  BY <1>1, <1>2, NoneSecured DEF SecuredInv, SecuredTemplates

(* While a Deployment is processed its own Values change, those of the pod to *)
(* some that its contexts are in.                                             *)
LEMMA SecuredProcessing ==
    ASSUME SecuredInv, given' = given, dep' = dep, templates' = templates, module' = module,
           pc \in Processing, pc' \in Processing \union {"error", "panic"},
           SecuredBy(values.values, dep, dep - 1) => SecuredBy(values'.values, dep, dep - 1),
           SecuredBy(podValues.values, dep, dep) => SecuredBy(podValues'.values, dep, dep)
    PROVE  SecuredInv'
<1>1. pc' \notin {"meta", "create", "done"}
  BY DEF Processing
<1>2. /\ SecuredBy(values'.values, dep, dep - 1) /\ SecuredBy(podValues'.values, dep, dep)
      /\ SecuredBy(module.values, 1, 0)
  BY DEF SecuredInv
<1>3. SecuredTemplates'
  BY SecuredSame DEF SecuredInv, SecuredTemplates
<1>4. /\ SecuredBy(values.values, dep, dep - 1)' /\ SecuredBy(podValues.values, dep, dep)'
      /\ SecuredBy(module.values, 1, 0)'
  BY <1>2, SecuredSame
<1>. QED
  BY <1>1, <1>3, <1>4 DEF SecuredInv

LEMMA SecuredMergePod ==
    ASSUME DeploymentsAssumption, SchemaInv, SecuredInv, MergePodValues
    PROVE  SecuredInv'
<1> DEFINE merged == Merge(values, podValues)
<1>1. /\ pc = "merge" /\ given' = given /\ dep' = dep + 1 /\ idx' = 1
      /\ values' = NewValues /\ podValues' = NewValues /\ module' = module
      /\ templates' = Append(templates, merged)
      /\ pc' = IF merged.outcome = "ok" THEN "meta" ELSE merged.outcome
  BY DEF MergePodValues, Proceed
<1>2. pc \in Processing
  BY <1>1 DEF Processing
<1>3. dep \in Nat /\ Agrees(values, UnsetPaths, Idle) /\ Agrees(podValues, UnsetPaths, Idle)
  BY <1>2, ProcessingState, AgreedValues
<1>4. merged.outcome \in {"ok", "error", "panic"}
  BY <1>3, ProcessingState, <1>2, MergeAgrees DEF Agrees, IsTyped, IsValuesOver
<1>5. SecuredBy(merged.values, dep, dep)
  <2>1. SecuredBy(values.values, dep, dep - 1) /\ SecuredBy(podValues.values, dep - 1 + 1, dep)
    BY <1>2, <1>3 DEF SecuredInv
  <2>. QED
    BY <1>3, <2>1, MergeSecuredBy
<1>6. templates \in Seq(Good(UnsetPaths)) /\ Len(templates) = dep - 1
  BY <1>1 DEF SchemaInv, InAgreement, SecuredInv, SecuredTemplates
<1>. HIDE DEF merged
<1>7. SecuredTemplates'
  <2>1. Len(templates') = dep' - 1 /\ Len(templates') = dep
    BY <1>1, <1>3, <1>6
  <2>2. ASSUME NEW i \in 1..Len(templates') PROVE SecuredBy(templates'[i].values, i, i)
    <3>1. CASE i = dep
      <4>1. templates'[i] = merged
        BY <1>1, <1>3, <1>6, <3>1
      <4>. QED
        BY <1>5, <3>1, <4>1
    <3>2. CASE i \in 1..Len(templates)
      <4>1. templates'[i] = templates[i]
        BY <1>1, <1>6, <3>2
      <4>. QED
        BY <3>2, <4>1 DEF SecuredInv, SecuredTemplates
    <3>. QED
      BY <1>3, <1>6, <2>1, <2>2, <3>1, <3>2
  <2>. QED
    BY <1>1, <2>1, <2>2, SecuredSame DEF SecuredTemplates
<1>8. SecuredBy(module.values, 1, 0)'
  BY <1>1, <1>2, SecuredSame DEF SecuredInv
<1>9. SecuredBy(values.values, dep, dep - 1)' /\ SecuredBy(podValues.values, dep, dep)'
  BY <1>1, NoneSecured, SecuredSame
<1>10. pc' \notin {"create", "done"}
  BY <1>1, <1>4
<1>. QED
  BY <1>1, <1>7, <1>8, <1>9, <1>10 DEF SecuredInv

LEMMA SecuredMergeTemplate ==
    ASSUME SchemaInv, SecuredInv, MergeTemplate
    PROVE  SecuredInv'
<1> DEFINE template == templates[idx]
<1>1. /\ pc = "create" /\ idx <= Len(templates) /\ module' = Merge(module, template)
      /\ idx' = idx + 1
      /\ pc' = IF module'.outcome = "ok" THEN "create" ELSE module'.outcome
      /\ UNCHANGED <<given, dep, values, podValues, templates>>
  BY DEF MergeTemplate, Proceed
<1>2. idx \in Nat /\ idx >= 1 /\ templates \in Seq(Good(UnsetPaths)) /\ module \in Agreed(UnsetPaths)
  BY <1>1 DEF SchemaInv, InRange, InAgreement
<1>3. template \in Good(UnsetPaths) /\ SecuredBy(template.values, idx, idx)
  BY <1>1, <1>2 DEF SecuredInv, SecuredTemplates
<1>4. Agrees(module, UnsetPaths, Idle) /\ Agrees(template, UnsetPaths, Idle)
      /\ template.outcome = "ok"
  BY <1>2, <1>3, AgreedValues DEF Good
<1>. HIDE DEF template
<1>5. SecuredBy(module'.values, 1, idx)
  <2>1. SecuredBy(module.values, 1, idx - 1) /\ SecuredBy(template.values, idx - 1 + 1, idx)
    BY <1>1, <1>2, <1>3 DEF SecuredInv
  <2>. QED
    BY <1>1, <1>2, <1>4, <2>1, MergeSecuredBy
<1>6. module'.outcome \in {"ok", "error", "panic"}
  BY <1>1, <1>4, MergeAgrees DEF Agrees, IsTyped, IsValuesOver
<1>7. SecuredTemplates'
  BY <1>1, SecuredSame DEF SecuredInv, SecuredTemplates
<1>8. SecuredBy(module.values, 1, idx - 1)'
  BY <1>1, <1>2, <1>5, SecuredSame
<1>9. pc' \notin Processing \union {"meta"}
  BY <1>1, <1>6 DEF Processing
<1>. QED
  BY <1>7, <1>8, <1>9 DEF SecuredInv

LEMMA SecuredValues ==
    ASSUME DeploymentsAssumption, SchemaInv, SecuredInv, ProcessReplicas \/ ProcessRevisionHistoryLimit
    PROVE  SecuredInv'
<1>1. /\ pc \in {"replicas", "revision"} /\ given' = given /\ dep' = dep
      /\ podValues' = podValues /\ templates' = templates /\ module' = module
      /\ pc' \in {"revision", "labels"} \union {values'.outcome}
  BY DEF ProcessReplicas, ProcessRevisionHistoryLimit, Proceed, fileVars
<1>2. pc \in Processing
  BY <1>1 DEF Processing
<1>3. /\ given \in Seq(DeploymentSpecs) /\ dep \in 1..Len(given) /\ values \in Agreed(UnsetPaths)
      /\ Depl.replicas = "zero" => ObjPath("replicas") \in UnsetPaths
      /\ Depl.revision = "zero" => ObjPath("revisionHistoryLimit") \in UnsetPaths
  BY <1>2, ProcessingState DEF UnsetPaths, Depl, ObjPath, ObjLabel
<1>4. Agrees(values, UnsetPaths, Idle)
  BY <1>3, AgreedValues
<1>5. KeepsSecured(values, values')
  <2>1. \/ values' = values
        \/ \E kind \in {"atom", "zero"} :
              /\ kind = "zero" => Depl.replicas = "zero"
              /\ values' = Add(values, Expr("int & >0"), Value(kind, 0, "replicas", "", << >>),
                               ObjPath("replicas"))
        \/ \E kind \in {"atom", "zero"} :
              /\ kind = "zero" => Depl.revision = "zero"
              /\ values' = Add(values, Expr("int64"),
                               Value(kind, 0, "revisionHistoryLimit", "", << >>),
                               ObjPath("revisionHistoryLimit"))
    BY DEF ProcessReplicas, ProcessRevisionHistoryLimit, NumberKind
  <2>2. CASE values' = values
    BY <2>2 DEF KeepsSecured
  <2>3. CASE \E kind \in {"atom", "zero"} :
              /\ kind = "zero" => Depl.replicas = "zero"
              /\ values' = Add(values, Expr("int & >0"), Value(kind, 0, "replicas", "", << >>),
                               ObjPath("replicas"))
    BY <1>3, <1>4, <2>3, ReplicasAgrees
  <2>4. CASE \E kind \in {"atom", "zero"} :
              /\ kind = "zero" => Depl.revision = "zero"
              /\ values' = Add(values, Expr("int64"),
                               Value(kind, 0, "revisionHistoryLimit", "", << >>),
                               ObjPath("revisionHistoryLimit"))
    BY <1>3, <1>4, <2>4, RevisionAgrees
  <2>. QED
    BY <2>1, <2>2, <2>3, <2>4
<1>6. SchemaInv'
  BY ReplicasStep, RevisionStep
<1>7. values'.outcome \in {"ok", "error", "panic"} /\ pc' # "ok"
  BY <1>6, OutcomeOf DEF SchemaInv, InAgreement, InRange, Processing
<1>8. pc' \in Processing \union {"error", "panic"}
  BY <1>1, <1>7 DEF Processing
<1>. QED
  BY <1>1, <1>2, <1>5, <1>8, SecuredProcessing DEF KeepsSecured

(* What is added to the values of a pod before its contexts is none of them.  *)
LEMMA SecuredPod ==
    ASSUME DeploymentsAssumption, SchemaInv, SecuredInv,
           ProcessPodContainer \/ ProcessContainer \/ AddPullSecrets \/ NodeSelector
    PROVE  SecuredInv'
<1> DEFINE parts == Split(Quote(Container.image))
<1>1. /\ pc \in {"containers", "nested", "security"} /\ given' = given /\ dep' = dep
      /\ values' = values /\ templates' = templates /\ module' = module
      /\ pc' \in {"containers", "nested", "security", "merge", "error"} \union {podValues'.outcome}
  BY DEF ProcessPodContainer, ProcessContainer, AddPullSecrets, NodeSelector, Proceed, fileVars
<1>2. pc \in Processing
  BY <1>1 DEF Processing
<1>3. /\ given \in Seq(DeploymentSpecs) /\ dep \in 1..Len(given) /\ podValues \in Agreed(UnsetPaths)
      /\ idx \in Nat /\ idx >= 1 /\ Len(Containers) \in Nat
  BY <1>2, ProcessingState
<1>4. Agrees(podValues, UnsetPaths, Idle)
  BY <1>3, AgreedValues
<1>5. KeepsSecured(podValues, podValues')
  <2>1. \/ podValues' = podValues
        \/ /\ idx <= Len(Containers) /\ Splittable(Quote(Container.image))
           /\ podValues' = PodContainerValues(podValues, parts)
        \/ /\ idx <= Len(Containers)
           /\ podValues' = Add(podValues, Expr("[...string]"),
                               CtrValue("list", "args", Container.args), CtrPath(<<"args">>))
        \/ podValues' = Add(podValues, Expr("#LocalObjectReference"), Node("list", << >>, FALSE),
                            <<"imagePullSecrets">>)
        \/ podValues' = Add(podValues, Pattern,
                            Value("map", 0, "nodeSelector", "", Quoted(Depl.nodeSelector)),
                            PodPath("nodeSelector"))
    BY DEF ProcessPodContainer, ProcessContainer, AddPullSecrets, NodeSelector
  <2>2. CASE podValues' = podValues
    BY <2>2 DEF KeepsSecured
  <2>3. CASE /\ idx <= Len(Containers) /\ Splittable(Quote(Container.image))
             /\ podValues' = PodContainerValues(podValues, parts)
    <3>1. idx \in 1..Len(Containers)
      BY <1>3, <2>3
    <3>2. Container.image \in Texts
      BY <1>3, <3>1, AtContainer DEF ContainerSpecs
    <3>3. Container.image \in Seq(Chars)
      BY <3>2, TextsAreChars
    <3>4. \A field \in {"repository", "tag", "digest"} : parts[field] \in Seq(Chars)
      BY <2>3, <3>3, SplitTyped
    <3>. HIDE DEF parts
    <3>. QED
      BY <1>3, <1>4, <2>3, <3>1, <3>4, PodContainerAgrees
  <2>4. CASE /\ idx <= Len(Containers)
             /\ podValues' = Add(podValues, Expr("[...string]"),
                                 CtrValue("list", "args", Container.args), CtrPath(<<"args">>))
    <3>1. idx \in 1..Len(Containers)
      BY <1>3, <2>4
    <3>. QED
      BY <1>3, <1>4, <2>4, <3>1, ArgsAgrees
  <2>5. CASE podValues' = Add(podValues, Expr("#LocalObjectReference"), Node("list", << >>, FALSE),
                              <<"imagePullSecrets">>)
    BY <1>4, <2>5, PullSecretsAgrees
  <2>6. CASE podValues' = Add(podValues, Pattern,
                              Value("map", 0, "nodeSelector", "", Quoted(Depl.nodeSelector)),
                              PodPath("nodeSelector"))
    BY <1>3, <1>4, <2>6, NodeSelectorAgrees
  <2>. QED
    BY <2>1, <2>2, <2>3, <2>4, <2>5, <2>6
<1>6. SchemaInv'
  BY PodContainerStep, ContainerStep, PullSecretsStep, NodeSelectorStep
<1>7. podValues'.outcome \in {"ok", "error", "panic"} /\ pc' # "ok"
  BY <1>6, OutcomeOf DEF SchemaInv, InAgreement, InRange, Processing
<1>8. pc' \in Processing \union {"error", "panic"}
  BY <1>1, <1>7 DEF Processing
<1>. QED
  BY <1>1, <1>2, <1>5, <1>8, SecuredProcessing DEF KeepsSecured

LEMMA SecuredContext ==
    ASSUME DeploymentsAssumption, SchemaInv, SecuredInv, SecurityContext
    PROVE  SecuredInv'
<1>1. /\ pc = "security" /\ idx <= Len(Containers) /\ given' = given /\ dep' = dep
      /\ values' = values /\ templates' = templates /\ module' = module
      /\ \/ podValues' = podValues
         \/ /\ Container.secured
            /\ podValues' = Add(podValues, Expr("#SecurityContext"),
                                CtrValue("map", "securityContext", Container.security),
                                CtrPath(<<"containerSecurityContext">>))
      /\ pc' = IF podValues'.outcome = "ok" THEN "security" ELSE podValues'.outcome
  BY DEF SecurityContext, Proceed, fileVars
<1>2. pc \in Processing
  BY <1>1 DEF Processing
<1>3. /\ given \in Seq(DeploymentSpecs) /\ dep \in 1..Len(given) /\ podValues \in Agreed(UnsetPaths)
      /\ idx \in 1..Len(Containers)
  BY <1>1, <1>2, ProcessingState
<1>4. Agrees(podValues, UnsetPaths, Idle)
  BY <1>3, AgreedValues
<1>5. SecuredBy(podValues.values, dep, dep) => SecuredBy(podValues'.values, dep, dep)
  BY <1>1, <1>3, <1>4, SecurityAgrees
<1>6. SchemaInv'
  BY SecurityStep
<1>7. podValues'.outcome \in {"ok", "error", "panic"}
  BY <1>6, OutcomeOf DEF SchemaInv, InAgreement
<1>8. pc' \in Processing \union {"error", "panic"}
  BY <1>1, <1>7 DEF Processing
<1>. QED
  BY <1>1, <1>2, <1>5, <1>8, SecuredProcessing

(* The steps that leave values alone.                                         *)
LEMMA SecuredLeft ==
    ASSUME SecuredInv, UNCHANGED <<given, dep, values, podValues, templates, module>>,
           \/ /\ pc \in Processing \union {"meta"}
              /\ pc' \in Processing \union {"error", "panic"}
           \/ pc = "meta" /\ pc' = "create" /\ idx' = idx
           \/ pc' = pc /\ idx' = idx
           \/ pc = "create" /\ pc' = "done" /\ idx' = idx
    PROVE  SecuredInv'
<1>1. SecuredTemplates'
  BY SecuredSame DEF SecuredInv, SecuredTemplates
<1>2. pc' = "meta" => pc = "meta" /\ idx' = 1
  BY DEF SecuredInv, Processing
<1>3. ASSUME pc' \in Processing \union {"meta"}
      PROVE  /\ SecuredBy(values.values, dep, dep - 1)' /\ SecuredBy(podValues.values, dep, dep)'
             /\ SecuredBy(module.values, 1, 0)'
  <2>1. pc \in Processing \union {"meta"}
    BY <1>3 DEF Processing
  <2>2. /\ SecuredBy(values'.values, dep', dep' - 1) /\ SecuredBy(podValues'.values, dep', dep')
        /\ SecuredBy(module'.values, 1, 0)
    BY <2>1 DEF SecuredInv
  <2>. QED
    BY <2>2, SecuredSame
<1>4. ASSUME pc' \in {"create", "done"}
      PROVE  SecuredBy(module.values, 1, idx - 1)'
  <2>1. pc \in {"meta", "create", "done"} /\ idx' = idx
    BY <1>4 DEF Processing
  <2>2. SecuredBy(module'.values, 1, idx' - 1)
    BY <2>1 DEF SecuredInv
  <2>. QED
    BY <2>2, SecuredSame
<1>. QED
  BY <1>1, <1>2, <1>3, <1>4 DEF SecuredInv

(* In every run the contexts that are joined at a path are those of different *)
(* Deployments, all of containers whose context belongs there.                *)
THEOREM SecuredInvariance == Spec => []SecuredInv
<1>1. Init => SecuredInv
  BY SecuredInit, DeploymentsAssumption
<1>2. ASSUME SchemaInv, SecuredInv, [Next]_vars PROVE SecuredInv'
  <2>1. CASE ProcessReplicas \/ ProcessRevisionHistoryLimit
    BY <1>2, <2>1, SecuredValues, DeploymentsAssumption
  <2>2. CASE ProcessPodContainer \/ ProcessContainer \/ AddPullSecrets \/ NodeSelector
    BY <1>2, <2>2, SecuredPod, DeploymentsAssumption
  <2>3. CASE SecurityContext
    BY <1>2, <2>3, SecuredContext, DeploymentsAssumption
  <2>4. CASE MergePodValues
    BY <1>2, <2>4, SecuredMergePod, DeploymentsAssumption
  <2>5. CASE MergeTemplate
    BY <1>2, <2>5, SecuredMergeTemplate
  <2>6. CASE ProcessObjMeta \/ ProcessLabels \/ TemplateNames
    <3>1. UNCHANGED <<given, dep, values, podValues, templates, module>>
          /\ pc \in {"meta", "labels", "containers"}
          /\ pc' \in {"replicas", "panic", "containers", "nested"}
      BY <2>6 DEF ProcessObjMeta, ProcessLabels, TemplateNames, fileVars
    <3>. QED
      BY <1>2, <3>1, SecuredLeft DEF Processing
  <2>7. CASE BeginCreate
    BY <1>2, <2>7, SecuredLeft DEF BeginCreate
  <2>8. CASE Written
    BY <1>2, <2>8, SecuredLeft DEF Written
  <2>9. CASE UNCHANGED vars
    BY <1>2, <2>9, SecuredLeft DEF vars
  <2>. QED
    BY <1>2, <2>1, <2>2, <2>3, <2>4, <2>5, <2>6, <2>7, <2>8, <2>9 DEF Next
<1>. QED
  BY <1>1, <1>2, SchemaInvariance, PTL DEF Spec

-----------------------------------------------------------------------------
(* What TypeOK says                                                           *)

LEMMA AgreedAreValues ==
    ASSUME NEW Z, NEW v \in Agreed(Z)
    PROVE  IsValues(v)
  BY AgreedValues, ValuesAreValues DEF Agrees, IsTyped

(* The nested structures of a run stay nested structures (values.go 94-213).  *)
THEOREM TypeCorrect == Spec => []TypeOK
<1>1. SchemaInv => TypeOK
  <2>. SUFFICES ASSUME SchemaInv PROVE TypeOK
    OBVIOUS
  <2>1. dep \in 1..Len(given) + 1
        /\ pc \in {"meta", "replicas", "revision", "labels", "containers", "nested", "security",
                   "merge", "create", "done", "error", "panic"}
    BY DEF SchemaInv, InRange, Processing
  <2>2. IsValues(values) /\ IsValues(podValues) /\ IsValues(module)
    BY AgreedAreValues DEF SchemaInv, InAgreement
  <2>3. \A i \in 1..Len(templates) : templates[i] \in Agreed(UnsetPaths)
    BY DEF SchemaInv, InAgreement
  <2>. QED
    BY <2>1, <2>2, <2>3, AgreedAreValues DEF TypeOK
<1>. QED
  BY <1>1, SchemaInvariance, PTL

-----------------------------------------------------------------------------
(* What follows of schema and values                                          *)

(* The module that is written agrees, and nothing of it is being added.       *)
LEMMA WrittenModule ==
    ASSUME SchemaInv, pc = "done"
    PROVE  /\ IsTyped(module) /\ Fit(module.config, module.values, UnsetPaths, Idle)
           /\ DOMAIN configFile = DOMAIN module.config \union {<<f>> : f \in DefaultFields}
           /\ \A f \in DefaultFields : configFile[<<f>>] = Node("expr", <<"timoni">>, FALSE)
           /\ \A p \in DOMAIN module.config :
                 p \notin {<<f>> : f \in DefaultFields} => configFile[p] = module.config[p]
<1>1. module \in Agreed(UnsetPaths) /\ module.outcome = "ok"
  BY DEF SchemaInv, InAgreement
<1>2. configFile = DefaultConfig(module.config)
  BY DEF SchemaInv, WrittenConfig
<1>3. Agrees(module, UnsetPaths, Idle)
  BY <1>1, AgreedValues
<1>4. IsTyped(module) /\ Fit(module.config, module.values, UnsetPaths, Idle)
  BY <1>1, <1>3 DEF Agrees
<1>5. /\ DOMAIN configFile = DOMAIN module.config \union {<<f>> : f \in DefaultFields}
      /\ \A p \in DOMAIN configFile :
            configFile[p] = IF p \in {<<f>> : f \in DefaultFields} THEN Node("expr", <<"timoni">>, FALSE)
                            ELSE module.config[p]
  <2> DEFINE D == {<<f>> : f \in DefaultFields}
  <2>. HIDE DEF D
  <2>1. configFile = [p \in DOMAIN module.config \union D |->
                         IF p \in D THEN Node("expr", <<"timoni">>, FALSE) ELSE module.config[p]]
    BY <1>2 DEF DefaultConfig, D
  <2>2. /\ DOMAIN configFile = DOMAIN module.config \union D
        /\ \A p \in DOMAIN configFile :
              configFile[p] = IF p \in D THEN Node("expr", <<"timoni">>, FALSE) ELSE module.config[p]
    BY <2>1
  <2>. QED
    BY <2>2 DEF D
<1>6. \A f \in DefaultFields : configFile[<<f>>] = Node("expr", <<"timoni">>, FALSE)
  <2>1. SUFFICES ASSUME NEW f \in DefaultFields
                 PROVE  configFile[<<f>>] = Node("expr", <<"timoni">>, FALSE)
    OBVIOUS
  <2>2. <<f>> \in {<<g>> : g \in DefaultFields}
    OBVIOUS
  <2>. QED
    BY <1>5, <2>2, Zenon
<1>7. ASSUME NEW p \in DOMAIN module.config, p \notin {<<f>> : f \in DefaultFields}
      PROVE  configFile[p] = module.config[p]
  BY <1>5, <1>7, Zenon
<1>. QED
  BY <1>4, <1>5, <1>6, <1>7

(* A path of an unset 0 is at or below that of a Deployment's.                *)
LEMMA ScaledAtUnset ==
    ASSUME NEW p, Scaled(p, UnsetPaths)
    PROVE  AtUnset(p)
<1>1. <<p[1], p[2]>> \in UnsetPaths
  BY DEF Scaled, ObjectOf, ContainerOf
<1>2. CASE \E i \in {j \in 1..Len(given) : given[j].replicas = "zero"} :
              <<p[1], p[2]>> = <<Label[given[i].name], "replicas">>
  BY <1>2 DEF AtUnset
<1>3. CASE \E i \in {j \in 1..Len(given) : given[j].revision = "zero"} :
              <<p[1], p[2]>> = <<Label[given[i].name], "revisionHistoryLimit">>
  BY <1>3 DEF AtUnset
<1>. QED
  BY <1>1, <1>2, <1>3 DEF UnsetPaths

(* Every value of values.cue has a schema in #Config, in every run that ends  *)
(* well, with the exceptions that ValuesHaveSchema names (values.go 31-92).   *)
THEOREM SchemaOfValues == Spec => []ValuesHaveSchema
<1>1. SchemaInv => ValuesHaveSchema
  <2>. SUFFICES ASSUME SchemaInv, pc = "done", NEW p \in DOMAIN module.values,
                       module.values[p].kind # "struct", p[1] \notin DefaultFields, ~BelowUnset(p)
                PROVE  HasSchema(p)
    BY DEF ValuesHaveSchema
  <2>1. Has(module.config, p) \/ Below(p, UnsetPaths) \/ InImage(p, Idle)
    BY WrittenModule DEF Fit, Covered
  <2>2. ~InImage(p, Idle)
    BY DEF InImage, PartOf, Idle
  <2>3. ~Below(p, UnsetPaths)
    BY ScaledAtUnset DEF Below, BelowUnset, Depth
  <2>4. CASE p \in DOMAIN module.config
    BY <2>4, WrittenModule DEF HasSchema
  <2>5. CASE \E q \in StrictPrefixes(p) :
                q \in DOMAIN module.config /\ module.config[q].kind # "struct"
    <3>1. PICK q \in StrictPrefixes(p) : q \in DOMAIN module.config /\ module.config[q].kind # "struct"
      BY <2>5
    <3>2. q \in DOMAIN configFile
      BY <3>1, WrittenModule
    <3>3. configFile[q].kind # "struct"
      <4>1. CASE \E f \in DefaultFields : q = <<f>>
        <5>1. configFile[q] = Node("expr", <<"timoni">>, FALSE)
          BY <4>1, WrittenModule
        <5>. QED
          BY <5>1 DEF Node
      <4>2. CASE ~\E f \in DefaultFields : q = <<f>>
        <5>1. q \notin {<<f>> : f \in DefaultFields}
          BY <4>2
        <5>2. configFile[q] = module.config[q]
          BY <3>1, <5>1, WrittenModule
        <5>. QED
          BY <3>1, <5>2
      <4>. QED
        BY <4>1, <4>2
    <3>. QED
      BY <3>1, <3>2, <3>3 DEF HasSchema
  <2>. QED
    BY <2>1, <2>2, <2>3, <2>4, <2>5 DEF Has
<1>. QED
  BY <1>1, SchemaInvariance, PTL

(* What the schema requires has values: AddConfig makes images required, whose*)
(* parts have been added, and the structs above them (values.go 40-92).       *)
THEOREM RequiredValues == Spec => []RequiredHaveValues
<1>1. SchemaInv => RequiredHaveValues
  <2>. SUFFICES ASSUME SchemaInv, pc = "done", NEW p \in DOMAIN configFile, configFile[p].required
                PROVE  p \in DOMAIN module.values
    BY DEF RequiredHaveValues
  <2>1. p \notin {<<f>> : f \in DefaultFields}
    <3>. SUFFICES ASSUME NEW f \in DefaultFields, p = <<f>> PROVE FALSE
      OBVIOUS
    <3>1. configFile[p] = Node("expr", <<"timoni">>, FALSE)
      BY WrittenModule
    <3>. QED
      BY <3>1 DEF Node
  <2>2. p \in DOMAIN module.config /\ configFile[p] = module.config[p]
    BY <2>1, WrittenModule
  <2>3. HasValues(p)
    BY <2>2, WrittenModule DEF Fit, SlotsFit, SchemaSlot
  <2>. QED
    BY <2>2, <2>3, WrittenModule DEF Fit, Valued
<1>. QED
  BY <1>1, SchemaInvariance, PTL

(* What a schema says of the values of its own kind.                          *)
LEMMA AdmitsBySchema ==
    ASSUME NEW schema, NEW value
    PROVE  /\ schema.kind = "struct" /\ value.kind = "struct" => Admits(schema, value)
           /\ IsExpr(schema, "int & >0") /\ value.kind = "atom" /\ IsNumber(value) => Admits(schema, value)
           /\ IsExpr(schema, "int64") /\ value.kind \in {"atom", "zero"} /\ IsNumber(value)
                 => Admits(schema, value)
           /\ IsExpr(schema, "string") /\ value.kind \in {"atom", "zero"} /\ ~IsNumber(value)
                 => Admits(schema, value)
           /\ IsExpr(schema, "#PullPolicy") /\ value.kind = "atom" /\ ~IsNumber(value) => Admits(schema, value)
           /\ IsExpr(schema, "[...string]") /\ value.kind = "list" => Admits(schema, value)
           /\ schema.kind = "pattern" /\ value.kind = "map" => Admits(schema, value)
           /\ IsExpr(schema, "#SecurityContext") /\ value.kind = "map" /\ Restrained(value.of)
                 => Admits(schema, value)
           /\ IsExpr(schema, "#Image") \/ IsExpr(schema, "#ResourceRequirements") =>
                 (value.kind = "struct" => Admits(schema, value))
<1>1. \A s : IsExpr(schema, s) => schema.kind = "expr" /\ schema.of[1] = s
  BY DEF IsExpr
<1>2. schema.kind = "struct" /\ value.kind = "struct" => Admits(schema, value)
  BY DEF Admits
<1>3. schema.kind = "pattern" /\ value.kind = "map" => Admits(schema, value)
  BY DEF Admits
<1>4. value.kind = "atom" /\ IsNumber(value) => Allows("int & >0", value)
  BY DEF Allows
<1>5. value.kind \in {"atom", "zero"} /\ IsNumber(value) => Allows("int64", value)
  BY DEF Allows
<1>6. value.kind \in {"atom", "zero"} /\ ~IsNumber(value) => Allows("string", value)
  BY DEF Allows
<1>7. value.kind = "atom" /\ ~IsNumber(value) => Allows("#PullPolicy", value)
  BY DEF Allows
<1>8. value.kind = "list" => Allows("[...string]", value)
  BY DEF Allows
<1>9. value.kind = "map" /\ Restrained(value.of) => Allows("#SecurityContext", value)
  BY DEF Allows
<1>10. value.kind = "struct" => Allows("#Image", value) /\ Allows("#ResourceRequirements", value)
  BY DEF Allows
<1>11. \A s : IsExpr(schema, s) /\ Allows(s, value) => Admits(schema, value)
  BY <1>1 DEF Admits
<1>. QED
  BY <1>2, <1>3, <1>4, <1>5, <1>6, <1>7, <1>8, <1>9, <1>10, <1>11

(* The values are of the schema there is for them.                            *)
LEMMA SlotsAdmit ==
    ASSUME NEW Z, NEW p, NEW schema, NEW value, Depth(p) \in Nat, Depth(p) >= 1,
           SchemaSlot(p, schema, Idle), ValueSlot(p, value, Z),
           Depth(p) <= 2 =>
               /\ schema.kind = "struct" => value.kind = "struct"
               /\ value.kind = "struct" => schema.kind = "struct" \/ (Depth(p) = 2 /\ Scaled(p, Z))
    PROVE  \/ Admits(schema, value)
           \/ Depth(p) = 1 /\ ObjectOf(p) = "imagePullSecrets" /\ value.kind = "list"
           \/ Depth(p) = 2 /\ Scaled(p, Z) /\ value.kind = "struct"
           \/ /\ Depth(p) = 2 /\ Scaled(p, Z) /\ value.kind = "zero"
              /\ ContainerOf(p) = "replicas"
           \/ ContextAt(p) /\ value.kind = "map" /\ ~Restrained(value.of)
<1>1. \A part : part # "none" => ~InPart(p, Idle, part)
  BY DEF InPart, PartOf, Idle
<1>2. CASE Depth(p) = 1
  <2>1. CASE schema.kind = "struct" \/ value.kind = "struct"
    <3>1. schema.kind = "struct" /\ value.kind = "struct"
      BY <1>2, <2>1
    <3>. QED
      BY <3>1, AdmitsBySchema
  <2>2. CASE schema.kind # "struct" /\ value.kind # "struct"
    <3>1. ObjectOf(p) = "imagePullSecrets" \/ (ObjectOf(p) = DomainKey /\ IsExpr(schema, "string"))
      BY <1>2, <2>2 DEF SchemaSlot, SchemaAt
    <3>2. \/ ObjectOf(p) = "imagePullSecrets" /\ value.kind = "list"
          \/ ObjectOf(p) = DomainKey /\ value.kind = "atom" /\ ~IsNumber(value)
      BY <1>2, <2>2 DEF ValueSlot
    <3>. QED
      BY <1>2, <3>1, <3>2, AdmitsBySchema DEF DomainKey
  <2>. QED
    BY <2>1, <2>2
<1>3. CASE Depth(p) = 2
  <2>1. CASE schema.kind = "struct" \/ value.kind = "struct"
    <3>1. value.kind = "struct" /\ (schema.kind = "struct" \/ Scaled(p, Z))
      BY <1>3, <2>1
    <3>. QED
      BY <1>3, <3>1, AdmitsBySchema
  <2>2. CASE schema.kind # "struct" /\ value.kind # "struct"
    <3>1. \/ ContainerOf(p) = "replicas" /\ IsExpr(schema, "int & >0")
          \/ ContainerOf(p) = "revisionHistoryLimit" /\ IsExpr(schema, "int64")
          \/ ContainerOf(p) = "nodeSelector" /\ schema.kind = "pattern"
      <4>1. SchemaAt(p, schema, Idle)
        BY <2>2 DEF SchemaSlot
      <4>2. Depth(p) # 1 /\ Depth(p) # 3 /\ Depth(p) # 4 /\ Depth(p) # 5
        BY <1>3
      <4>. QED
        BY <4>1, <4>2, Zenon DEF SchemaAt
    <3>2. \/ /\ ContainerOf(p) = "replicas" /\ IsNumber(value)
             /\ value.kind = "atom" \/ (value.kind = "zero" /\ Scaled(p, Z))
          \/ ContainerOf(p) = "revisionHistoryLimit" /\ value.kind \in {"atom", "zero"} /\ IsNumber(value)
          \/ ContainerOf(p) = "nodeSelector" /\ value.kind = "map"
      BY <1>3, <2>2 DEF ValueSlot
    <3>. QED
      BY <1>3, <3>1, <3>2, AdmitsBySchema
  <2>. QED
    BY <2>1, <2>2
<1>4. CASE Depth(p) = 3
  <2>1. \/ PartOf(p) = "env" /\ schema.kind = "struct"
        \/ PartOf(p) = "image" /\ IsExpr(schema, "#Image")
        \/ PartOf(p) = "resources" /\ IsExpr(schema, "#ResourceRequirements")
        \/ PartOf(p) = "imagePullPolicy" /\ IsExpr(schema, "#PullPolicy")
        \/ PartOf(p) = "args" /\ IsExpr(schema, "[...string]")
        \/ PartOf(p) = "containerSecurityContext" /\ IsExpr(schema, "#SecurityContext")
    BY <1>1, <1>4 DEF SchemaSlot, SchemaAt, SchemaAbove
  <2>2. \/ PartOf(p) \in {"image", "env", "resources"} /\ value.kind = "struct"
        \/ PartOf(p) = "imagePullPolicy" /\ value.kind = "atom" /\ ~IsNumber(value)
        \/ PartOf(p) = "args" /\ value.kind = "list"
        \/ PartOf(p) = "containerSecurityContext" /\ value.kind = "map"
    BY <1>4 DEF ValueSlot, StructAt
  <2>. QED
    BY <1>4, <2>1, <2>2, AdmitsBySchema DEF ContextAt
<1>5. CASE Depth(p) = 4
  <2>1. PartOf(p) = "env" /\ IsExpr(schema, "string")
    BY <1>1, <1>5 DEF SchemaSlot, SchemaAt, SchemaAbove
  <2>2. value.kind \in {"atom", "zero"} /\ ~IsNumber(value)
    BY <1>5, <2>1 DEF ValueSlot, StructAt
  <2>. QED
    BY <2>1, <2>2, AdmitsBySchema
<1>6. Depth(p) <= 4
  <2>1. SchemaAt(p, schema, Idle) => Depth(p) \in {1, 2, 3, 4} \/ InPart(p, Idle, "resources")
    BY Zenon DEF SchemaAt
  <2>2. SchemaAbove(p, Idle) => Depth(p) <= 3 \/ InPart(p, Idle, "resources")
    BY DEF SchemaAbove
  <2>. QED
    BY <1>1, <2>1, <2>2 DEF SchemaSlot
<1>. QED
  BY <1>2, <1>3, <1>4, <1>5, <1>6

(* Where the schema allows the contexts of a path, it allows those that are   *)
(* joined there.                                                              *)
LEMMA AllowedRestrained ==
    ASSUME NEW p, NEW of, NEW lo, NEW hi, ContextsFrom(of, p, lo, hi), SchemaAllows(Contexts(p))
    PROVE  Restrained(of)
<1> DEFINE C == Contexts(p)
           At(o) == ContainersOf(o[1])[o[2]]
           Pair(k) == <<of[k].dep, of[k].container>>
<1>1. /\ \A o \in C : ~At(o).escalates /\ At(o).drops <= 1
      /\ \A o, u \in C : At(o).drops = 1 /\ At(u).drops = 1 => o = u
  BY DEF SchemaAllows
<1>2. /\ \A k \in 1..Len(of) : Pair(k) \in C /\ At(Pair(k)) = OriginContainer(of[k])
      /\ \A k, l \in 1..Len(of) : Pair(k) = Pair(l) => k = l
  BY DEF ContextsFrom, OriginContainer
<1>. HIDE DEF C, At, Pair
<1>3. \A k \in 1..Len(of) : ~OriginContainer(of[k]).escalates /\ OriginContainer(of[k]).drops <= 1
  <2>. TAKE k \in 1..Len(of)
  <2>1. Pair(k) \in C /\ At(Pair(k)) = OriginContainer(of[k])
    BY <1>2
  <2>2. ~At(Pair(k)).escalates /\ At(Pair(k)).drops <= 1
    BY <1>1, <2>1, Zenon
  <2>. QED
    BY <2>1, <2>2, Zenon
<1>4. \A k, l \in 1..Len(of) :
          OriginContainer(of[k]).drops = 1 /\ OriginContainer(of[l]).drops = 1 => k = l
  <2>. SUFFICES ASSUME NEW k \in 1..Len(of), NEW l \in 1..Len(of),
                       OriginContainer(of[k]).drops = 1, OriginContainer(of[l]).drops = 1
                PROVE  k = l
    OBVIOUS
  <2>1. /\ Pair(k) \in C /\ At(Pair(k)).drops = 1
        /\ Pair(l) \in C /\ At(Pair(l)).drops = 1
    BY <1>2, Zenon
  <2>2. Pair(k) = Pair(l)
    BY <1>1, <2>1, Zenon
  <2>. QED
    BY <1>2, <2>2, Zenon
<1>. QED
  BY <1>3, <1>4 DEF Restrained

(* The module's values are of the schema generated for them, with the         *)
(* exceptions that it names (deployment.go 196-219, pod.go 176-264,            *)
(* container_security_context.go 55-61).                                      *)
THEOREM FittingValues == Spec => []ValuesFitSchema
<1>1. SchemaInv /\ SecuredInv => ValuesFitSchema
  <2>. SUFFICES ASSUME SchemaInv, SecuredInv, pc = "done",
                       NEW p \in DOMAIN module.values \intersect DOMAIN configFile,
                       p[1] \notin DefaultFields
                PROVE  \/ Admits(configFile[p], module.values[p])
                       \/ p = <<"imagePullSecrets">> /\ module.values[p].kind = "list"
                       \/ Len(p) = 2 /\ AtUnset(p) /\ module.values[p].kind = "struct"
                       \/ /\ Len(p) = 2 /\ AtUnset(p) /\ module.values[p].kind = "zero"
                          /\ p[2] = "replicas"
                       \/ /\ Len(p) = 3 /\ p[3] = "containerSecurityContext"
                          /\ ~SchemaAllows(Contexts(p))
    BY Zenon DEF ValuesFitSchema
  <2> DEFINE value == module.values[p]
             schema == module.config[p]
  <2>1. p \in Paths(Labels)
    BY WrittenModule, ValuesRecord DEF IsContent, IsTreeOver
  <2>2. Depth(p) \in Nat /\ Depth(p) >= 1 /\ p \in Seq(Labels)
    BY <2>1 DEF Paths, Depth
  <2>3. ValueSlot(p, value, UnsetPaths)
    BY WrittenModule DEF Fit, SlotsFit
  <2>4. p \notin {<<f>> : f \in DefaultFields}
    OBVIOUS
  <2>5. p \in DOMAIN module.config /\ configFile[p] = schema
    BY <2>4, WrittenModule
  <2>6. SchemaSlot(p, schema, Idle)
    BY <2>5, WrittenModule DEF Fit, SlotsFit
  <2>7. Depth(p) <= 2 =>
            /\ schema.kind = "struct" => value.kind = "struct"
            /\ value.kind = "struct" =>
                  schema.kind = "struct" \/ (Depth(p) = 2 /\ Scaled(p, UnsetPaths))
    BY <2>5, WrittenModule DEF Fit, Matched
  <2>8. SecuredBy(module.values, 1, idx - 1)
    BY DEF SecuredInv
  <2>9. ContextAt(p) /\ value.kind = "map" => ContextsFrom(value.of, p, 1, idx - 1)
    BY <2>8 DEF SecuredBy
  <2>. HIDE DEF value, schema
  <2>10. \/ Admits(schema, value)
         \/ Depth(p) = 1 /\ ObjectOf(p) = "imagePullSecrets" /\ value.kind = "list"
         \/ Depth(p) = 2 /\ Scaled(p, UnsetPaths) /\ value.kind = "struct"
         \/ /\ Depth(p) = 2 /\ Scaled(p, UnsetPaths) /\ value.kind = "zero"
            /\ ContainerOf(p) = "replicas"
         \/ ContextAt(p) /\ value.kind = "map" /\ ~Restrained(value.of)
    BY <2>2, <2>3, <2>6, <2>7, SlotsAdmit
  <2>11. Depth(p) = 1 /\ ObjectOf(p) = "imagePullSecrets" => p = <<"imagePullSecrets">>
    BY <2>2, OneOf DEF Depth, ObjectOf
  <2>12. Scaled(p, UnsetPaths) => AtUnset(p)
    BY ScaledAtUnset
  <2>13. ContextAt(p) /\ value.kind = "map" /\ ~Restrained(value.of) => ~SchemaAllows(Contexts(p))
    BY <2>9, AllowedRestrained
  <2>. QED
    BY <2>5, <2>10, <2>11, <2>12, <2>13 DEF value, ContextAt, Depth, PartOf, ContainerOf
<1>. QED
  BY <1>1, SchemaInvariance, SecuredInvariance, PTL

-----------------------------------------------------------------------------
(* Texts                                                                      *)

(* What is written as a string for what was quoted so that it parses to it.   *)
LEMMA EmittedAreTexts ==
    ASSUME NEW texts \in Seq(Strung), NEW in, NEW x \in Emitted(texts, TRUE, in)
    PROVE  x.is = Text(x.was) /\ x.in = in
           /\ x = [was |-> x.was, is |-> Text(x.was), in |-> in]
<1>1. PICK i \in 1..Len(texts) :
          x = [was |-> texts[i].was, is |-> Marshal(texts[i].is, TRUE), in |-> in]
  BY DEF Emitted
<1>2. texts[i] \in Strung
  OBVIOUS
<1>3. Marshal(texts[i].is, TRUE) = Text(texts[i].was)
  BY <1>2 DEF Strung, Marshal
<1>. QED
  BY <1>1, <1>3

Kept(x) ==
    \/ x.is = Text(x.was)
    \/ x.in = "pod" /\ Apostrophe \in ToSet(x.was)
    \/ x.in = "quantity" /\ x.is = Expression(x.was)

(* Quantities are not quoted, and stay what they were or are what they parse  *)
(* to.                                                                        *)
LEMMA QuantitiesKept ==
    ASSUME NEW quantities \in Seq(Quantities),
           NEW x \in Emitted([i \in 1..Len(quantities) |-> InString(quantities[i], quantities[i])],
                             TRUE, "quantity")
    PROVE  Kept(x)
<1> DEFINE texts == [i \in 1..Len(quantities) |-> InString(quantities[i], quantities[i])]
<1>1. Len(quantities) \in Nat /\ \A i \in 1..Len(quantities) : quantities[i] \in Quantities
  OBVIOUS
<1>2. Len(texts) = Len(quantities)
      /\ \A i \in 1..Len(texts) : texts[i].was = quantities[i] /\ texts[i].is = quantities[i]
  BY <1>1 DEF InString
<1>. HIDE DEF texts
<1>3. PICK i \in 1..Len(texts) :
          x = [was |-> texts[i].was, is |-> Marshal(texts[i].is, TRUE), in |-> "quantity"]
  BY DEF Emitted, texts
<1> DEFINE q == quantities[i]
<1>4. ~IsQuoted(q)
  BY <1>1, <1>2 DEF Quantities
<1>5. x.was = q /\ x.in = "quantity" /\ x.is = ParseStringLit(q)
  BY <1>2, <1>3 DEF Marshal
<1>. HIDE DEF q
<1>. QED
  BY <1>4, <1>5 DEF Kept, ParseStringLit

(* What is written with the pod loses apostrophes and nothing else.           *)
LEMMA PodTextsKept ==
    ASSUME DeploymentsAssumption, given \in Seq(DeploymentSpecs), dep \in 1..Len(given),
           NEW x \in PodTexts
    PROVE  Kept(x)
<1> DEFINE texts(i) == Emitted(Quoted(Containers[i].command), TRUE, "pod")
           quantities ==
               Emitted([i \in 1..Len(PodQuantities) |->
                           InString(PodQuantities[i], PodQuantities[i])], TRUE, "quantity")
<1>1. \/ \E y \in UNION {texts(i) : i \in 1..Len(Containers)} :
            x = [y EXCEPT !.is.of = WithoutApostrophes(y.is.of)]
      \/ x \in quantities
  BY Zenon DEF PodTexts
<1>. HIDE DEF texts
<1>2. CASE x \in quantities
  <2>1. PodQuantities \in Seq(Quantities)
    <3>1. Depl.quantities \in Seq(Quantities)
      BY AtDeployment DEF DeploymentSpecs
    <3>2. <<Quantity>> \in Seq(Quantities) /\ << >> \in Seq(Quantities)
      BY DEF DeploymentsAssumption
    <3>. QED
      BY <3>1, <3>2 DEF PodQuantities
  <2>. QED
    BY <1>2, <2>1, QuantitiesKept
<1>3. CASE \E y \in UNION {texts(i) : i \in 1..Len(Containers)} :
              x = [y EXCEPT !.is.of = WithoutApostrophes(y.is.of)]
  <2>1. PICK y \in UNION {texts(i) : i \in 1..Len(Containers)} :
            x = [y EXCEPT !.is.of = WithoutApostrophes(y.is.of)]
    BY <1>3
  <2>2. PICK i \in 1..Len(Containers) : y \in texts(i)
    BY <2>1
  <2>3. Containers[i] \in ContainerSpecs
    BY AtDeployment
  <2>4. Quoted(Containers[i].command) \in Seq(Strung)
    <3>1. Containers[i].command \in Seq(Texts)
      BY <2>3 DEF ContainerSpecs
    <3>. QED
      BY <3>1, QuotedTyped
  <2>5. y.in = "pod" /\ y = [was |-> y.was, is |-> Text(y.was), in |-> "pod"]
    BY <2>2, <2>4, EmittedAreTexts DEF texts
  <2> DEFINE was == y.was
  <2>6. /\ x.was = was /\ x.in = "pod"
        /\ x.is = [Text(was) EXCEPT !.of = WithoutApostrophes(Text(was).of)]
    BY <2>1, <2>5
  <2>7. x.is = Text(WithoutApostrophes(was))
    BY <2>6 DEF Text
  <2>8. Apostrophe \notin ToSet(was) => WithoutApostrophes(was) = was
    BY DEF WithoutApostrophes
  <2>. QED
    BY <2>6, <2>7, <2>8 DEF Kept
<1>. QED
  BY <1>1, <1>2, <1>3

(* Every text that leaves is kept, whenever it leaves.                        *)
KeptInv == \A x \in emitted : Kept(x)

(* Each place that writes texts keeps them.                                   *)
LEMMA KeptByStep ==
    ASSUME DeploymentsAssumption, SchemaInv, KeptInv, [Next]_vars
    PROVE  KeptInv'
<1>1. SUFFICES ASSUME NEW x \in emitted', x \notin emitted
               PROVE  Kept(x)
  BY DEF KeptInv
<1>2. given \in Seq(DeploymentSpecs)
  BY GivenTyped DEF SchemaInv, InRange
<1>3. CASE ProcessObjMeta
  <2> DEFINE texts == [i \in 1..Len(Depl.meta) |-> InString(Depl.meta[i], Depl.meta[i])]
  <2>1. x \in Emitted(texts, FALSE, "meta")
    BY <1>1, <1>3 DEF ProcessObjMeta
  <2>2. dep \in 1..Len(given)
    BY <1>3 DEF ProcessObjMeta, SchemaInv, InRange
  <2>3. Depl \in DeploymentSpecs
    BY <1>2, <2>2 DEF Depl
  <2>4. Len(Depl.meta) \in Nat
    BY <2>3 DEF DeploymentSpecs
  <2>5. Len(texts) = Len(Depl.meta) /\ \A i \in 1..Len(texts) : texts[i].was = texts[i].is
    BY <2>4 DEF InString
  <2>. HIDE DEF texts
  <2>. QED
    BY <2>1, <2>5 DEF Emitted, Marshal, Kept
<1>4. CASE ProcessLabels
  <2>1. x \in Emitted(Quoted(Depl.labels), TRUE, "labels")
    BY <1>1, <1>4 DEF ProcessLabels
  <2>2. Depl \in DeploymentSpecs
    BY <1>4, ProcessingState, AtDeployment DEF ProcessLabels, Processing
  <2>3. Depl.labels \in Seq(Texts)
    BY <2>2 DEF DeploymentSpecs
  <2>. QED
    BY <2>1, <2>3, QuotedTyped, EmittedAreTexts DEF Kept
<1>5. CASE MergePodValues
  <2>1. x \in PodTexts
    BY <1>1, <1>5 DEF MergePodValues
  <2>2. dep \in 1..Len(given)
    BY <1>5, ProcessingState DEF MergePodValues, Processing
  <2>. QED
    BY <1>2, <2>1, <2>2, PodTextsKept
<1>6. CASE Written
  <2>1. PICK o \in UNION {ToSet(module.values[p].of) : p \in DOMAIN module.values} :
            x \in Emitted(o.texts, TRUE, "values")
    BY <1>1, <1>6 DEF Written
  <2>2. PICK p \in DOMAIN module.values : o \in ToSet(module.values[p].of)
    BY <2>1
  <2>3. IsContent(module.values)
    <3>1. module \in Agreed(UnsetPaths)
      BY DEF SchemaInv, InAgreement
    <3>2. IsTyped(module)
      BY <3>1, AgreedValues DEF Agrees
    <3>. QED
      BY <3>2, ValuesRecord
  <2>4. module.values[p].of \in Seq(Origins)
    BY <2>3 DEF IsContent, IsTreeOver, Nodes, Sources
  <2>5. o \in Origins
    BY <2>2, <2>4 DEF ToSet
  <2>6. o.texts \in Seq(Strung)
    BY <2>5 DEF Origins
  <2>. QED
    BY <2>1, <2>6, EmittedAreTexts DEF Kept
<1>7. emitted' = emitted \/ ProcessObjMeta \/ ProcessLabels \/ MergePodValues \/ Written
  BY DEF Next, vars, fileVars, ProcessReplicas, ProcessRevisionHistoryLimit, ProcessPodContainer,
     TemplateNames, ProcessContainer, AddPullSecrets, SecurityContext, NodeSelector,
     BeginCreate, MergeTemplate
<1>. QED
  BY <1>1, <1>3, <1>4, <1>5, <1>6, <1>7

(* Every text of the manifest is that text in the module, wherever it goes,   *)
(* apostrophes and quantities of a pod excepted (deployment.go:107, :170 and   *)
(* :175, cue.go:99).                                                          *)
THEOREM KeptTexts == Spec => []TextsKept
<1>1. Init => KeptInv
  BY DEF Init, KeptInv
<1>2. SchemaInv /\ KeptInv /\ [Next]_vars => KeptInv'
  BY KeptByStep, DeploymentsAssumption
<1>3. KeptInv => TextsKept
  BY DEF KeptInv, Kept, TextsKept
<1>. QED
  BY <1>1, <1>2, <1>3, SchemaInvariance, PTL DEF Spec

-----------------------------------------------------------------------------
(* Images                                                                     *)

(* Paths of images' parts, and only the refs to them.                         *)
IsImagePath(p) == Len(p) = 4 /\ p[3] = "image"

(* The references of processEnv and of imagePullPolicy are to no image.       *)
LEMMA NoImageRef ==
    ASSUME NEW r, r \in EnvRefs \/ r \in PolicyRefs
    PROVE  ~IsImagePath(r.path)
<1>1. CASE r \in EnvRefs
  <2>1. PICK i \in 1..Len(Container.env) :
            r = Ref(CtrRef(<<"env", Label[Container.env[i].name]>>),
                    {<<EnvAdds[i].path, EnvAdds[i].value>>})
    BY <1>1, Zenon DEF EnvRefs
  <2> DEFINE name == Label[Container.env[i].name]
  <2>2. r.path = <<ObjLabel, CtrLabel>> \o <<"env", name>>
    BY <2>1, Zenon DEF CtrRef, Ref
  <2>. HIDE DEF name
  <2>3. r.path[3] = "env"
    BY <2>2
  <2>. QED
    BY <2>3 DEF IsImagePath
<1>2. CASE r \in PolicyRefs
  <2>1. r.path = CtrRef(<<"imagePullPolicy">>)
    BY <1>2 DEF PolicyRefs, Ref
  <2>2. Len(r.path) = 3
    BY <2>1 DEF CtrRef
  <2>. QED
    BY <2>2 DEF IsImagePath
<1>. QED
  BY <1>1, <1>2

(* A reference to the image of a container expects its parts, from there.     *)
ImageFields == {"repository", "tag", "digest"}
OfImage(r, d, c, image) ==
    /\ image \in Texts /\ Splittable(Quote(image))
    /\ image = (given[d].containers \o given[d].initContainers)[c].image
    /\ \A e \in r.expected :
          /\ e[2].of[1].dep = d /\ e[2].of[1].container = c
          /\ Last(e[1]) \in ImageFields
          /\ e[2].of[1].texts[1].was = Split(Quote(image))[Last(e[1])]
    /\ \A field \in ImageFields : \E e \in r.expected : Last(e[1]) = field

(* processPodContainer expects the parts it has cut the image into.           *)
LEMMA ExpectedOfImage ==
    ASSUME DeploymentsAssumption, given \in Seq(DeploymentSpecs), dep \in 1..Len(given),
           idx \in 1..Len(Containers), Splittable(Quote(Container.image)), NEW r,
           r.expected = Expected(ImageAdds(Split(Quote(Container.image))))
    PROVE  OfImage(r, dep, idx, Container.image)
<1> DEFINE image == Container.image
           parts == Split(Quote(image))
           fields == <<"repository", "tag", "digest">>
           path(i) == CtrPath(<<"image", fields[i]>>)
           value(i) == Value("atom", idx, fields[i], "", <<ImagePart(parts[fields[i]])>>)
<1>1. image \in Texts
  BY AtContainer DEF ContainerSpecs
<1>2. image = (given[dep].containers \o given[dep].initContainers)[idx].image
  BY DEF Container, Containers, Depl
<1>3. r.expected = {<<path(i), value(i)>> : i \in 1..3}
  <2> DEFINE add(i) == [schema |-> NoSchema, path |-> path(i), value |-> value(i)]
  <2>1. ImageAdds(parts) = [i \in 1..3 |-> add(i)]
    BY DEF ImageAdds
  <2>2. \A i : add(i).path = path(i) /\ add(i).value = value(i)
    OBVIOUS
  <2>. HIDE DEF add, path, value, parts
  <2>3. Len(ImageAdds(parts)) = 3 /\ \A i \in 1..3 : ImageAdds(parts)[i] = add(i)
    BY <2>1
  <2>4. r.expected = {<<ImageAdds(parts)[i].path, ImageAdds(parts)[i].value>> : i \in 1..3}
    BY <2>3 DEF Expected, parts
  <2>. QED
    BY <2>2, <2>3, <2>4
<1>4. \A i \in 1..3 : fields[i] \in ImageFields
  BY DEF ImageFields
<1>5. \A field \in ImageFields : \E i \in 1..3 : fields[i] = field
  <2>1. fields[1] = "repository" /\ fields[2] = "tag" /\ fields[3] = "digest"
    OBVIOUS
  <2>. HIDE DEF fields
  <2>. QED
    BY <2>1 DEF ImageFields
<1>. HIDE DEF fields
<1>6. ASSUME NEW i \in 1..3 PROVE Last(path(i)) = fields[i]
  <2> DEFINE a == Stored(Depl.name)
             b == Stored(Container.name)
             field == fields[i]
             p == <<a, b, "image", field>>
  <2>1. a \in Labels /\ b \in Labels /\ "image" \in Labels /\ field \in Labels
    BY <1>4, AtDeployment, AtContainer, LabelsNamed DEF Parts, ImageFields
  <2>2. path(i) = <<a, b>> \o <<"image", field>>
    BY DEF CtrPath
  <2>. HIDE DEF a, b, field
  <2>3. path(i) = p
    <3>1. <<a, b>> \o <<"image", field>> = p
      BY <2>1, BelowPair4
    <3>. HIDE DEF path, p
    <3>. QED
      BY <2>2, <3>1, Zenon
  <2>4. Len(p) = 4 /\ p[4] = field
    OBVIOUS
  <2>. QED
    BY <2>3, <2>4 DEF Last, field
<1>7. ASSUME NEW i \in 1..3
      PROVE  /\ value(i).of[1].dep = dep /\ value(i).of[1].container = idx
             /\ value(i).of[1].texts[1].was = parts[fields[i]]
  <2> DEFINE part == parts[fields[i]]
             text == ImagePart(part)
             texts == <<text>>
             origin == [dep |-> dep, container |-> idx, field |-> fields[i], key |-> "",
                        texts |-> texts]
  <2>1. texts[1] = text /\ text.was = part
    BY DEF ImagePart, InString
  <2>2. value(i).of = <<origin>>
    BY DEF Value, Node
  <2>3. origin.dep = dep /\ origin.container = idx /\ origin.texts = texts
    OBVIOUS
  <2>. HIDE DEF origin, texts, text, value
  <2>4. value(i).of[1] = origin
    BY <2>2
  <2>. QED
    BY <2>1, <2>3, <2>4
<1>. HIDE DEF path, value, parts, image
<1>8. ASSUME NEW e \in r.expected
      PROVE  /\ e[2].of[1].dep = dep /\ e[2].of[1].container = idx
             /\ Last(e[1]) \in ImageFields
             /\ e[2].of[1].texts[1].was = parts[Last(e[1])]
  <2>1. PICK i \in 1..3 : e = <<path(i), value(i)>>
    BY <1>3
  <2>2. e[1] = path(i) /\ e[2] = value(i)
    BY <2>1
  <2>. QED
    BY <1>4, <1>6, <1>7, <2>2
<1>9. ASSUME NEW field \in ImageFields PROVE \E e \in r.expected : Last(e[1]) = field
  <2>1. PICK i \in 1..3 : fields[i] = field
    BY <1>5
  <2>2. <<path(i), value(i)>> \in r.expected /\ <<path(i), value(i)>>[1] = path(i)
    BY <1>3
  <2>. QED
    BY <1>6, <2>1, <2>2
<1>. QED
  BY <1>1, <1>2, <1>8, <1>9 DEF OfImage, image, parts

ImagesInv ==
    \A r \in refs : IsImagePath(r.path) => \E d, c, image : OfImage(r, d, c, image)

LEMMA FieldPathLength ==
    ASSUME NEW x
    PROVE  Len(ObjPath(x)) = 2
  BY DEF ObjPath

LEMMA PartPathLength ==
    ASSUME NEW x
    PROVE  Len(CtrRef(<<x>>)) = 3
  BY DEF CtrRef

(* Only processPodContainer refers to images.                                 *)
LEMMA NewRefs ==
    ASSUME DeploymentsAssumption, SchemaInv, [Next]_vars, NEW r \in refs', r \notin refs
    PROVE  /\ given' = given
           /\ IsImagePath(r.path) => \E d, c, image : OfImage(r, d, c, image)
<1>1. CASE ProcessReplicas
  <2>1. given' = given /\ \E expected : r = Ref(ObjPath("replicas"), expected)
    BY <1>1 DEF ProcessReplicas
  <2>2. Len(r.path) = 2
    BY <2>1, FieldPathLength DEF Ref
  <2>. QED
    BY <2>1, <2>2 DEF IsImagePath
<1>2. CASE ProcessRevisionHistoryLimit
  <2> DEFINE path == ObjPath("revisionHistoryLimit")
             ref == Ref(path, {<<path, Value(NumberKind(Depl.revision), 0, "revisionHistoryLimit",
                                       "", << >>)>>})
  <2>1. given' = given /\ r = ref
    <3>1. given' = given /\ refs' \in {refs, refs \union {ref}}
      BY <1>2 DEF ProcessRevisionHistoryLimit
    <3>. HIDE DEF ref
    <3>. QED
      BY <3>1
  <2>2. Len(r.path) = 2
    BY <2>1, FieldPathLength DEF Ref
  <2>. HIDE DEF ref
  <2>. QED
    BY <2>1, <2>2 DEF IsImagePath
<1>3. CASE NodeSelector
  <2> DEFINE ref == Ref(ObjPath("nodeSelector"),
                        {<<PodPath("nodeSelector"),
                           Value("map", 0, "nodeSelector", "", Quoted(Depl.nodeSelector))>>})
  <2>1. given' = given /\ r = ref
    <3>1. given' = given /\ refs' \in {refs, refs \union {ref}}
      BY <1>3 DEF NodeSelector
    <3>. HIDE DEF ref
    <3>. QED
      BY <3>1
  <2>2. Len(r.path) = 2
    BY <2>1, FieldPathLength DEF Ref
  <2>. HIDE DEF ref
  <2>. QED
    BY <2>1, <2>2 DEF IsImagePath
<1>4. CASE ProcessContainer
  <2>1. given' = given /\ (r \in ResourceRefs \/ r.path = CtrRef(<<"args">>))
    BY <1>4 DEF ProcessContainer, Ref
  <2>2. r \in ResourceRefs => r.path = CtrRef(<<"resources">>)
    BY DEF ResourceRefs, Ref
  <2>3. Len(r.path) = 3
    BY <2>1, <2>2, PartPathLength
  <2>. QED
    BY <2>1, <2>3 DEF IsImagePath
<1>5. CASE SecurityContext
  <2>1. given' = given /\ r.path = CtrRef(<<"containerSecurityContext">>)
    BY <1>5 DEF SecurityContext, Ref
  <2>2. Len(r.path) = 3
    BY <2>1, PartPathLength
  <2>. QED
    BY <2>1, <2>2 DEF IsImagePath
<1>6. CASE ProcessPodContainer
  <2> DEFINE parts == Split(Quote(Container.image))
  <2>1. /\ pc = "containers" /\ idx <= Len(Containers) /\ given' = given
        /\ Splittable(Quote(Container.image))
        /\ \/ r \in EnvRefs \/ r \in PolicyRefs
           \/ r = Ref(CtrRef(<<"image", "reference">>), Expected(ImageAdds(parts)))
           \/ r = Ref(<<DomainKey>>, {<<<<DomainKey>>, DomainValue>>})
    BY <1>6 DEF ProcessPodContainer
  <2>2. given \in Seq(DeploymentSpecs) /\ dep \in 1..Len(given) /\ idx \in 1..Len(Containers)
    BY <2>1, ProcessingState DEF Processing
  <2>3. r \in EnvRefs \/ r \in PolicyRefs => ~IsImagePath(r.path)
    BY NoImageRef
  <2>4. r = Ref(CtrRef(<<"image", "reference">>), Expected(ImageAdds(parts)))
           => OfImage(r, dep, idx, Container.image)
    BY <2>1, <2>2, ExpectedOfImage DEF Ref
  <2>5. r = Ref(<<DomainKey>>, {<<<<DomainKey>>, DomainValue>>}) => ~IsImagePath(r.path)
    BY DEF Ref, IsImagePath
  <2>. HIDE DEF parts
  <2>. QED
    BY <2>1, <2>3, <2>4, <2>5
<1>7. refs' = refs \/ ProcessReplicas \/ ProcessRevisionHistoryLimit \/ NodeSelector
      \/ ProcessContainer \/ SecurityContext \/ ProcessPodContainer
  BY DEF Next, vars, ProcessObjMeta, ProcessLabels, TemplateNames, AddPullSecrets,
     MergePodValues, BeginCreate, MergeTemplate, Written
<1>. QED
  BY <1>1, <1>2, <1>3, <1>4, <1>5, <1>6, <1>7

(* The Deployments of a run do not change.                                    *)
LEMMA GivenStays ==
    ASSUME [Next]_vars
    PROVE  given' = given
  BY DEF Next, vars, ProcessObjMeta, ProcessReplicas, ProcessRevisionHistoryLimit, ProcessLabels,
     ProcessPodContainer, TemplateNames, ProcessContainer, AddPullSecrets, SecurityContext,
     NodeSelector, MergePodValues, BeginCreate, MergeTemplate, Written

(* A tag of an image without a digest begins behind its last colon.           *)
LEMMA TagBehindColon ==
    ASSUME NEW image \in Texts, Splittable(Quote(image)), ~HasDigest(image),
           "/" \in ToSet(Split(Quote(image)).tag)
    PROVE  LastIndex(image, ":") < LastIndex(image, "/")
<1> DEFINE k == LastIndex(image, ":")
           s == LastIndex(image, "/")
           tag == SubSeq(image, k + 1, Len(image))
<1>1. image # << >>
  BY DEF Splittable, IsQuoted, Quote
<1>2. Unquote(Quote(image)) = image
  BY <1>1, QuotedAndBack DEF Texts
<1>3. Separator(Quote(image)) = k /\ Split(Quote(image)).tag = tag
  BY <1>2 DEF Separator, Split
<1>4. image \in Seq(STRING)
  BY DEF Texts
<1>5. /\ k \in 0..Len(image) /\ s \in 0..Len(image)
      /\ \A i \in s + 1 .. Len(image) : image[i] # "/"
  BY <1>4, LastIndexIsLast
<1>. HIDE DEF k, s
<1>6. Len(tag) = Len(image) - k /\ \A i \in 1..Len(tag) : tag[i] = image[k + i]
  BY <1>4, <1>5
<1>7. PICK i \in 1..Len(tag) : tag[i] = "/"
  <2>1. DOMAIN tag = 1..Len(tag)
    BY <1>4, <1>5
  <2>. HIDE DEF tag
  <2>. QED
    BY <1>3, <2>1 DEF ToSet
<1>8. k + i \in 1..Len(image) /\ image[k + i] = "/"
  BY <1>4, <1>5, <1>6, <1>7
<1>9. k < s
  BY <1>4, <1>5, <1>8
<1>. QED
  BY <1>9 DEF k, s

(* A container runs the image it ran before, with the exceptions that         *)
(* ImagesKept names (pod.go 179-197).                                         *)
THEOREM KeptImages == Spec => []ImagesKept
<1>1. Init => ImagesInv
  BY DEF Init, ImagesInv
<1>2. SchemaInv /\ ImagesInv /\ [Next]_vars => ImagesInv'
  <2>. SUFFICES ASSUME SchemaInv, ImagesInv, [Next]_vars, NEW r \in refs', IsImagePath(r.path)
                PROVE  \E d, c, image : OfImage(r, d, c, image)'
    BY DEF ImagesInv
  <2>1. given' = given
    BY GivenStays
  <2>2. PICK d, c, image : OfImage(r, d, c, image)
    BY NewRefs, DeploymentsAssumption DEF ImagesInv
  <2>3. OfImage(r, d, c, image)'
    BY <2>1, <2>2 DEF OfImage
  <2>. QED
    BY <2>3
<1>3. ImagesInv => ImagesKept
  <2>. SUFFICES ASSUME ImagesInv, NEW r \in ImageRefs,
                       ~HasDigest(ImageOf(r)), Last(ImageOf(r)) # ":"
                PROVE  /\ Reference(ImageValues(r)) = ImageOf(r)
                       /\ "/" \in ToSet(ImageValues(r)["tag"]) =>
                             LastIndex(ImageOf(r), ":") < LastIndex(ImageOf(r), "/")
    BY DEF ImagesKept
  <2>1. PICK d, c, image : OfImage(r, d, c, image)
    BY DEF ImagesInv, ImageRefs, IsImagePath
  <2> DEFINE parts == Split(Quote(image))
  <2>2. ImageOf(r) = image
    <3> DEFINE e == CHOOSE e \in r.expected : TRUE
    <3>1. e \in r.expected
      BY <2>1 DEF OfImage, ImageFields
    <3>. HIDE DEF e
    <3>2. e[2].of[1].dep = d /\ e[2].of[1].container = c
      BY <2>1, <3>1 DEF OfImage
    <3>. QED
      BY <2>1, <3>2 DEF ImageOf, OriginContainer, ContainersOf, OfImage, e
  <2>3. ASSUME NEW field \in ImageFields
        PROVE  ImageValues(r)[field] = parts[field]
    <3> DEFINE e == CHOOSE e \in r.expected : Last(e[1]) = field
    <3>1. e \in r.expected /\ Last(e[1]) = field
      BY <2>1 DEF OfImage
    <3>2. ImageValues(r)[field] = e[2].of[1].texts[1].was
      BY DEF ImageValues, ImageFields
    <3>. HIDE DEF e
    <3>. QED
      BY <2>1, <3>1, <3>2 DEF OfImage
  <2>4. /\ ImageValues(r).repository = parts.repository
        /\ ImageValues(r).tag = parts.tag /\ ImageValues(r).digest = parts.digest
    BY <2>3 DEF ImageFields
  <2>5. image \in Texts /\ Splittable(Quote(image))
    BY <2>1 DEF OfImage
  <2>6. Reference(parts) = image
    BY <2>2, <2>5, ImageWithoutDigestKept DEF Texts, Last
  <2>7. Reference(ImageValues(r)) = Reference(parts)
    BY <2>4 DEF Reference
  <2>8. "/" \in ToSet(ImageValues(r).tag) => LastIndex(image, ":") < LastIndex(image, "/")
    BY <2>2, <2>4, <2>5, TagBehindColon
  <2>. QED
    BY <2>2, <2>6, <2>7, <2>8
<1>. QED
  BY <1>1, <1>2, <1>3, SchemaInvariance, PTL DEF Spec
=============================================================================
