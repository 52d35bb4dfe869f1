--------------------------- MODULE ReferencesProofs ---------------------------
(***************************************************************************)
(* Proofs about Deployments whose names stay distinct in camel case: every    *)
(* reference of a template finds the very values its own Deployment put       *)
(* there, and nothing but an image without a tag and a Deployment without a   *)
(* selector ends a run early.                                                *)
(***************************************************************************)
EXTENDS DeploymentsProofs

(* An assignment is a path and the value that is put there.  With distinct    *)
(* names every path is assigned once, and none below another: what has been   *)
(* put somewhere is never in the way and never lost.                          *)
Assign(path, kind, of) == <<path, Node(kind, of, FALSE)>>
PathOf(a) == a[1]
ValueOf(a) == a[2]

Ctrs(i) == given[i].containers \o given[i].initContainers
Object(i) == Label[given[i].name]
ObjectIn(i) == Stored(given[i].name)
Objects(i) == {Object(i), ObjectIn(i)}
Ctr(i, j) == Stored(Ctrs(i)[j].name)
From(i, j, field, key, texts) ==
    <<[dep |-> i, container |-> j, field |-> field, key |-> key, texts |-> texts]>>

(* What Deployment i assigns in its own values, and in its pod's.             *)
Scalars(i) ==
    {Assign(<<Object(i), "replicas">>, NumberKind(given[i].replicas),
            From(i, 0, "replicas", "", << >>)),
     Assign(<<Object(i), "revisionHistoryLimit">>, NumberKind(given[i].revision),
            From(i, 0, "revisionHistoryLimit", "", << >>))}
Selectors(i) ==
    {Assign(<<ObjectIn(i), "nodeSelector">>, "map",
            From(i, 0, "nodeSelector", "", Quoted(given[i].nodeSelector)))}

(* What its container j assigns.                                              *)
ImageOfCtr(i, j) ==
    {Assign(<<ObjectIn(i), Ctr(i, j), "image", field>>, "atom",
            From(i, j, field, "", <<ImagePart(Split(Quote(Ctrs(i)[j].image))[field])>>)) :
        field \in {"repository", "tag", "digest"}}
EnvOf(i, j) ==
    {Assign(<<ObjectIn(i), Ctr(i, j), "env", Stored(Ctrs(i)[j].env[n].name)>>,
            TextKind(Ctrs(i)[j].env[n].value),
            From(i, j, "env", Ctrs(i)[j].env[n].name, Quoted(<<Ctrs(i)[j].env[n].value>>))) :
        n \in 1..Len(Ctrs(i)[j].env)}
ResourcesOf(i, j, kind, names) ==
    {Assign(<<ObjectIn(i), Ctr(i, j), "resources", kind, Label[n]>>, "atom",
            From(i, j, kind, n, <<InString(Quantity, StrconvQuote(Quantity))>>)) : n \in names}
Listed(resources) == ToSet(SetToSeq(resources))
Resources(i, j) ==
    ResourcesOf(i, j, "requests", Listed(Ctrs(i)[j].requests))
        \union ResourcesOf(i, j, "limits", Listed(Ctrs(i)[j].limits))
PartsOf(i, j) ==
    {Assign(<<ObjectIn(i), Ctr(i, j), "imagePullPolicy">>, "atom",
            From(i, j, "imagePullPolicy", "", Quoted(<<Ctrs(i)[j].policy>>))),
     Assign(<<ObjectIn(i), Ctr(i, j), "args">>, "list",
            From(i, j, "args", "", Quoted(Ctrs(i)[j].args))),
     Assign(<<ObjectIn(i), Ctr(i, j), "containerSecurityContext">>, "map",
            From(i, j, "securityContext", "", Quoted(Ctrs(i)[j].security)))}
OfCtr(i, j) == ImageOfCtr(i, j) \union EnvOf(i, j) \union Resources(i, j) \union PartsOf(i, j)

Pulls == {<<<<"imagePullSecrets">>, Node("list", << >>, FALSE)>>}
Domain == {<<<<DomainKey>>, DomainValue>>}

(* The first n containers; a Deployment; the first n Deployments; the run.    *)
OfPod(i, n) ==
    Pulls \union Selectors(i) \union UNION {OfCtr(i, j) : j \in {k \in 1..Len(Ctrs(i)) : k <= n}}
OfDeployment(i) == Scalars(i) \union OfPod(i, Len(Ctrs(i)))
OfDeployments(n) ==
    Domain \union Pulls \union UNION {OfDeployment(i) : i \in {k \in 1..Len(given) : k <= n}}
All == OfDeployments(Len(given))

-----------------------------------------------------------------------------
(* A structure that holds assignments of S and the structs above them.        *)
Struct == Node("struct", << >>, FALSE)
Made(tree, S) ==
    \A p \in DOMAIN tree :
        \/ \E a \in S : PathOf(a) = p /\ tree[p] = ValueOf(a)
        \/ tree[p] = Struct /\ \E a \in S : p \in StrictPrefixes(PathOf(a))
Holds(tree, a) == PathOf(a) \in DOMAIN tree /\ tree[PathOf(a)] = ValueOf(a)

(* No assignment of S is at or below another.                                 *)
Apart(S) ==
    \A a, b \in S : PathOf(a) \notin StrictPrefixes(PathOf(b)) /\ (PathOf(a) = PathOf(b) => a = b)
Proper(S) == \A a \in S : ValueOf(a).kind # "struct" /\ ~ValueOf(a).required

-----------------------------------------------------------------------------
(* The invariant                                                              *)

Creating == pc \in {"create", "done"}

(* What the structures are made of.                                           *)
MadeOfTheirs ==
    /\ Made(values.values, Scalars(dep))
    /\ Made(podValues.values, OfPod(dep, IF pc = "containers" THEN idx - 1 ELSE Len(Ctrs(dep))))
    /\ Len(templates) = dep - 1
    /\ \A i \in 1..Len(templates) : Made(templates[i].values, OfDeployment(i))
    /\ Made(module.values, OfDeployments(IF Creating THEN idx - 1 ELSE 0))

(* Where the Values of one Deployment are still those of none.                *)
NoneYet ==
    /\ pc \notin Processing => DOMAIN values.values = {}
    /\ pc \notin {"containers", "nested", "security", "merge"} => DOMAIN podValues.values = {}
    /\ pc \in {"meta", "replicas", "revision", "labels"} => idx = 1
    /\ Creating => dep = Len(given) + 1
    /\ pc = "done" => idx > Len(templates)

(* A reference is to its values or to what is above them, where their schema  *)
(* is, unless Values makes other labels of those of the reference.            *)
Reaches(r) ==
    Settled(r.path) =>
        r.expected # {} /\ \A a \in r.expected : RefersTo(r.path, PathOf(a))
RefsOfAssignments == \A r \in refs : r.expected \subseteq All /\ Reaches(r)

(* What a reference expects is held by one of the structures still to be      *)
(* merged, or by the module.                                                  *)
HeldSomewhere(a) ==
    \/ Holds(values.values, a) \/ Holds(podValues.values, a) \/ Holds(module.values, a)
    \/ \E i \in 1..Len(templates) : (Creating => i >= idx) /\ Holds(templates[i].values, a)
RefsHeld == \A r \in refs : \A a \in r.expected : HeldSomewhere(a)

(* The resources of a container are there before it refers to them.           *)
ResourcesHeld ==
    pc \in {"containers", "nested"} =>
        \A j \in 1..Len(Ctrs(dep)) : (pc = "containers" => j < idx) =>
            \A a \in Resources(dep, j) : Holds(podValues.values, a)

DomainHeld == \A a \in Domain : Holds(module.values, a)

InPlace ==
    MadeOfTheirs /\ NoneYet /\ RefsOfAssignments /\ RefsHeld /\ ResourcesHeld /\ DomainHeld

EndsOnlyFor ==
    /\ pc = "panic" => \E d \in ToSet(given) : ~d.selector
    /\ pc = "error" => \E d \in ToSet(given) : \E c \in ToSet(d.containers \o d.initContainers) :
                           ~Splittable(Quote(c.image))

Goes == EndsOnlyFor /\ (pc \notin {"error", "panic"} => InPlace)
RefsInv == DistinctLabels => Goes

-----------------------------------------------------------------------------
(* Lemmas on structures made of assignments                                   *)

(* An assignment of S that is made somewhere is held there, by the structure  *)
(* that has its path.                                                         *)
LEMMA HeldByPath ==
    ASSUME NEW A, Apart(A), Proper(A), NEW S \in SUBSET A, NEW tree, Made(tree, S),
           NEW a \in A, PathOf(a) \in DOMAIN tree
    PROVE  a \in S /\ Holds(tree, a)
<1>1. CASE \E b \in S : PathOf(b) = PathOf(a) /\ tree[PathOf(a)] = ValueOf(b)
  BY <1>1 DEF Apart, Holds
<1>2. CASE \E b \in S : PathOf(a) \in StrictPrefixes(PathOf(b))
  BY <1>2 DEF Apart
<1>. QED
  BY <1>1, <1>2 DEF Made

(* Nothing is in the way of one.                                              *)
LEMMA NotBlocked ==
    ASSUME NEW A, Apart(A), Proper(A), NEW S \in SUBSET A, NEW tree, Made(tree, S), NEW a \in A
    PROVE  ~Blocked(tree, PathOf(a))
           /\ \A q \in StrictPrefixes(PathOf(a)) : q \in DOMAIN tree => tree[q] = Struct
<1>1. ASSUME NEW q \in StrictPrefixes(PathOf(a)), q \in DOMAIN tree
      PROVE  tree[q] = Struct
  <2>1. ~\E b \in S : PathOf(b) = q
    BY <1>1 DEF Apart
  <2>. QED
    BY <1>1, <2>1 DEF Made
<1>2. Struct.kind = "struct"
  BY DEF Struct, Node
<1>. QED
  BY <1>1, <1>2 DEF Blocked

(* Put makes the assignment and undoes none.                                  *)
LEMMA PutMakes ==
    ASSUME NEW A, Apart(A), Proper(A), NEW S \in SUBSET A, NEW tree, IsContent(tree),
           Made(tree, S), NEW a \in A, PathOf(a) \in Paths(Labels), ValueOf(a) \in Contents
    PROVE  /\ ~Blocked(tree, PathOf(a))
           /\ Made(Put(tree, PathOf(a), ValueOf(a)), S \union {a})
           /\ Holds(Put(tree, PathOf(a), ValueOf(a)), a)
           /\ \A b \in A : Holds(tree, b) => Holds(Put(tree, PathOf(a), ValueOf(a)), b)
<1> DEFINE path == PathOf(a)
           node == ValueOf(a)
           new == Put(tree, path, node)
<1>1. ~Blocked(tree, path)
  BY NotBlocked
<1>2. /\ path \in Seq(Labels) /\ \A q \in DOMAIN tree : q \in Seq(Labels) /\ tree[q] \in Contents
  BY DEF Paths, IsContent, IsTreeOver, Contents
<1>3. ~node.required /\ node.kind # "struct"
  BY DEF Proper
<1>4. new[path] = node
  <2>1. CASE path \in DOMAIN tree
    <3>1. Holds(tree, a)
      BY <2>1, HeldByPath
    <3>2. new[path] = [node EXCEPT !.required = tree[path].required]
      BY <2>1, PutSets
    <3>3. tree[path].required = node.required
      BY <3>1 DEF Holds
    <3>4. [node EXCEPT !.required = node.required] = node
      BY DEF Contents, Nodes
    <3>. HIDE DEF new
    <3>. QED
      BY <3>2, <3>3, <3>4
  <2>2. CASE path \notin DOMAIN tree
    <3>1. new[path] = IF path \in DOMAIN tree
                      THEN [node EXCEPT !.required = tree[path].required] ELSE node
      BY PutSets
    <3>. HIDE DEF new
    <3>. QED
      BY <2>2, <3>1
  <2>. QED
    BY <2>1, <2>2
<1>5. << >> \in Sources /\ IsTreeOver(tree, Labels, Sources) /\ node \in Nodes(Sources)
  BY DEF Sources, IsContent, Contents
<1>6. path \in DOMAIN new
  BY <1>1, <1>5, PutAt
<1>7. ASSUME NEW q \in StrictPrefixes(path)
      PROVE  q \in DOMAIN new /\ new[q] = Struct
  <2>1. q \in PutDomain(tree, path) /\ q # path
    <3>1. q # path
      BY <1>2, PrefixesArePaths
    <3>. QED
      BY <3>1 DEF PutDomain
  <2>2. CASE q \in DOMAIN tree
    <3>1. new[q] = tree[q]
      BY <2>1, <2>2, PutKeeps
    <3>2. tree[q] = Struct
      BY <2>2, NotBlocked
    <3>. QED
      BY <2>1, <3>1, <3>2, PutPaths
  <2>3. CASE q \notin DOMAIN tree
    <3>1. new[q] = Node("struct", << >>, node.required)
      BY <2>1, <2>3, PutCreates
    <3>2. node.required = FALSE
      BY <1>3 DEF Contents, Nodes
    <3>. HIDE DEF new
    <3>3. new[q] = Struct
      BY <3>1, <3>2 DEF Struct
    <3>. QED
      BY <2>1, <3>3, PutPaths DEF new
  <2>. QED
    BY <2>2, <2>3
<1>8. ASSUME NEW q \in DOMAIN new, q # path, q \notin StrictPrefixes(path)
      PROVE  q \in DOMAIN tree /\ new[q] = tree[q]
  BY <1>1, <1>5, <1>8, PutElsewhere
<1>9. ASSUME NEW b \in A, Holds(tree, b)
      PROVE  Holds(new, b)
  <2>1. CASE PathOf(b) = path
    <3>1. b = a
      BY <2>1 DEF Apart
    <3>. HIDE DEF new
    <3>. QED
      BY <1>4, <1>6, <3>1 DEF Holds
  <2>2. CASE PathOf(b) # path
    <3>1. path \notin StrictPrefixes(PathOf(b)) /\ PathOf(b) \notin StrictPrefixes(path)
      BY DEF Apart
    <3>2. PathOf(b) \in DOMAIN tree
      BY <1>9 DEF Holds
    <3>3. PathOf(b) \in DOMAIN new
      BY <1>1, <1>5, <3>1, <3>2, PutStays
    <3>4. new[PathOf(b)] = tree[PathOf(b)]
      BY <1>8, <2>2, <3>1, <3>3
    <3>. HIDE DEF new
    <3>. QED
      BY <1>9, <3>3, <3>4 DEF Holds
  <2>. QED
    BY <2>1, <2>2
<1>10. Made(new, S \union {a})
  <2>. SUFFICES ASSUME NEW q \in DOMAIN new
                PROVE  \/ \E b \in S \union {a} : PathOf(b) = q /\ new[q] = ValueOf(b)
                       \/ new[q] = Struct /\ \E b \in S \union {a} : q \in StrictPrefixes(PathOf(b))
    BY DEF Made
  <2>. HIDE DEF new
  <2>1. CASE q = path
    BY <1>4, <2>1
  <2>2. CASE q \in StrictPrefixes(path)
    BY <1>7, <2>2
  <2>3. CASE q # path /\ q \notin StrictPrefixes(path)
    <3>1. q \in DOMAIN tree /\ new[q] = tree[q]
      BY <1>8, <2>3
    <3>. QED
      BY <3>1 DEF Made
  <2>. QED
    BY <2>1, <2>2, <2>3
<1>. QED
  BY <1>1, <1>4, <1>6, <1>9, <1>10 DEF Holds

(* So does a merge with a structure made of others; only the pull secrets of  *)
(* the flag, the same in each, may be in both.                                *)
LEMMA MergeMakes ==
    ASSUME NEW A, Apart(A), Proper(A), NEW S \in SUBSET A, NEW T \in SUBSET A,
           S \intersect T \subseteq Pulls,
           NEW first, Made(first, S), NEW second, Made(second, T)
    PROVE  /\ ~CannotAppend(first, second)
           /\ Made(MergeTrees(first, second), S \union T)
           /\ \A a \in A : Holds(first, a) \/ Holds(second, a) =>
                               Holds(MergeTrees(first, second), a)
<1> DEFINE merged == MergeTrees(first, second)
           D == DOMAIN first \union {p \in DOMAIN second : Reachable(first, p)}
<1>1. /\ DOMAIN merged = D
      /\ \A q \in D : merged[q] = IF q \notin DOMAIN first THEN second[q]
                                  ELSE IF q \notin DOMAIN second THEN first[q]
                                  ELSE Combine(first[q], second[q])
  BY DEF MergeTrees
<1>. HIDE DEF merged
<1>2. \A x : Struct.kind = "struct" /\ Combine(Struct, x) = Struct
  BY DEF Struct, Node, Combine
<1>3. ASSUME NEW a \in Pulls
      PROVE  Combine(ValueOf(a), ValueOf(a)) = ValueOf(a)
  <2>1. ValueOf(a) = [kind |-> "list", of |-> << >>, required |-> FALSE]
    BY DEF Pulls, ValueOf, Node
  <2>2. << >> \o << >> = << >>
    OBVIOUS
  <2>. QED
    BY <2>1, <2>2 DEF Combine
<1>4. ASSUME NEW q \in DOMAIN first, q \in DOMAIN second
      PROVE  Combine(first[q], second[q]) = first[q] /\ first[q] = second[q]
  <2>1. CASE \E a \in S : PathOf(a) = q /\ first[q] = ValueOf(a)
    <3>1. PICK a \in S : PathOf(a) = q /\ first[q] = ValueOf(a)
      BY <2>1
    <3>2. a \in T /\ Holds(second, a)
      BY <1>4, <3>1, HeldByPath
    <3>3. second[q] = ValueOf(a)
      BY <3>1, <3>2 DEF Holds
    <3>. QED
      BY <1>3, <3>1, <3>2, <3>3
  <2>2. CASE first[q] = Struct /\ \E a \in S : q \in StrictPrefixes(PathOf(a))
    <3>1. second[q] = Struct
      BY <1>4, <2>2, NotBlocked
    <3>. QED
      BY <1>2, <2>2, <3>1
  <2>. QED
    BY <2>1, <2>2 DEF Made
<1>5. ~CannotAppend(first, second)
  BY <1>4 DEF CannotAppend
<1>6. \A q \in D : /\ q \in DOMAIN first => merged[q] = first[q]
                   /\ q \notin DOMAIN first => q \in DOMAIN second /\ merged[q] = second[q]
  BY <1>1, <1>4
<1>7. Made(merged, S \union T)
  <2>. SUFFICES ASSUME NEW q \in D
                PROVE  \/ \E b \in S \union T : PathOf(b) = q /\ merged[q] = ValueOf(b)
                       \/ merged[q] = Struct /\ \E b \in S \union T : q \in StrictPrefixes(PathOf(b))
    BY <1>1 DEF Made
  <2>1. CASE q \in DOMAIN first
    BY <1>6, <2>1 DEF Made
  <2>2. CASE q \notin DOMAIN first
    BY <1>6, <2>2 DEF Made
  <2>. QED
    BY <2>1, <2>2
<1>8. ASSUME NEW a \in A, Holds(first, a) \/ Holds(second, a)
      PROVE  Holds(merged, a)
  <2>1. CASE PathOf(a) \in DOMAIN first
    <3>1. Holds(first, a)
      BY <2>1, HeldByPath
    <3>. QED
      BY <1>1, <1>6, <2>1, <3>1 DEF Holds
  <2>2. CASE PathOf(a) \notin DOMAIN first
    <3>1. Holds(second, a)
      BY <1>8, <2>2 DEF Holds
    <3>2. Reachable(first, PathOf(a))
      <4>1. \A q \in StrictPrefixes(PathOf(a)) : q \in DOMAIN first => first[q] = Struct
        BY NotBlocked
      <4>. QED
        BY <1>2, <4>1 DEF Reachable
    <3>3. PathOf(a) \in D
      BY <3>1, <3>2 DEF Holds
    <3>. QED
      BY <1>1, <1>6, <2>2, <3>1, <3>3 DEF Holds
  <2>. QED
    BY <2>1, <2>2
<1>. QED
  BY <1>5, <1>7, <1>8 DEF merged

-----------------------------------------------------------------------------
(* With distinct names assignments are apart                                  *)

(* What DistinctLabels says of the objects and the containers of a run.       *)
LEMMA NamesDistinct ==
    ASSUME DistinctLabels, given \in Seq(DeploymentSpecs)
    PROVE  /\ \A i, k \in 1..Len(given) : Objects(i) \intersect Objects(k) # {} => i = k
           /\ \A i \in 1..Len(given) : \A o \in Objects(i) :
                 o \notin {DomainKey, "imagePullSecrets"} \union DefaultFields
           /\ \A i \in 1..Len(given) : \A j, k \in 1..Len(Ctrs(i)) : Ctr(i, j) = Ctr(i, k) => j = k
           /\ \A i \in 1..Len(given) : \A j \in 1..Len(Ctrs(i)) :
                 Ctr(i, j) \notin {"replicas", "revisionHistoryLimit", "nodeSelector"}
<1>1. \A i : LabelsOf(given[i]) = Objects(i)
  BY DEF LabelsOf, Objects, Object, ObjectIn
<1>2. /\ \A i, k \in 1..Len(given) : Objects(i) \intersect Objects(k) # {} => i = k
      /\ \A i \in 1..Len(given) : \A o \in Objects(i) :
            o \notin {DomainKey, "imagePullSecrets"} \union DefaultFields
  <2>1. \A i, k \in 1..Len(given) :
            LabelsOf(given[i]) \intersect LabelsOf(given[k]) # {} => i = k
    BY DEF DistinctLabels
  <2>2. \A i \in 1..Len(given) :
            LabelsOf(given[i]) \intersect ({DomainKey, "imagePullSecrets"} \union DefaultFields) = {}
    <3>1. \A i \in 1..Len(given) : given[i] \in ToSet(given)
      BY DEF ToSet
    <3>. QED
      BY <3>1, ZenonT(30) DEF DistinctLabels
  <2>. QED
    BY <1>1, <2>1, <2>2
<1>3. ASSUME NEW i \in 1..Len(given)
      PROVE  /\ \A j, k \in 1..Len(Ctrs(i)) : Ctr(i, j) = Ctr(i, k) => j = k
             /\ \A j \in 1..Len(Ctrs(i)) :
                   Ctr(i, j) \notin {"replicas", "revisionHistoryLimit", "nodeSelector"}
  <2> DEFINE d == given[i]
             containers == d.containers \o d.initContainers
             N == Len(containers)
             label(k) == Stored(containers[k].name)
             seq == [k \in 1..N |-> label(k)]
             reserved == {"replicas", "revisionHistoryLimit", "nodeSelector"}
  <2>1. d \in ToSet(given) /\ d \in DeploymentSpecs
    BY DEF ToSet
  <2>2. DistinctFrom(seq, reserved)
    BY <2>1 DEF DistinctLabels
  <2>3. N \in Nat
    <3>1. d.containers \in Seq(ContainerSpecs) /\ d.initContainers \in Seq(ContainerSpecs)
      BY <2>1 DEF DeploymentSpecs
    <3>. HIDE DEF d
    <3>2. containers \in Seq(ContainerSpecs)
      BY <3>1
    <3>. HIDE DEF containers
    <3>. QED
      BY <3>2
  <2>4. containers = Ctrs(i)
    BY DEF Ctrs
  <2>5. \A j \in 1..N : label(j) = Ctr(i, j)
    BY <2>4 DEF Ctr
  <2>. HIDE DEF label, reserved, N, containers
  <2>6. Len(seq) = N /\ \A k \in 1..N : seq[k] = label(k)
    BY <2>3
  <2>. HIDE DEF seq
  <2>7. /\ \A j, k \in 1..N : seq[j] = seq[k] => j = k
        /\ \A j \in 1..N : seq[j] \notin reserved
    BY <2>2, <2>6 DEF DistinctFrom
  <2>. QED
    BY <2>4, <2>5, <2>6, <2>7 DEF N, reserved
<1>. QED
  BY <1>2, <1>3

(* Of the environment of a container, and its resources.                      *)
LEMMA KeysDistinct ==
    ASSUME DistinctLabels, given \in Seq(DeploymentSpecs),
           NEW i \in 1..Len(given), NEW j \in 1..Len(Ctrs(i))
    PROVE  /\ Ctrs(i)[j] \in ContainerSpecs
           /\ \A m, n \in 1..Len(Ctrs(i)[j].env) :
                 Stored(Ctrs(i)[j].env[m].name) = Stored(Ctrs(i)[j].env[n].name) => m = n
           /\ \A names \in {Ctrs(i)[j].requests, Ctrs(i)[j].limits} : \A m, n \in names :
                 Label[m] = Label[n] => m = n
<1> DEFINE d == given[i]
           containers == d.containers \o d.initContainers
           c == Ctrs(i)[j]
           env == c.env
           N == Len(env)
           label(k) == Stored(env[k].name)
           seq == [k \in 1..N |-> label(k)]
<1>1. d \in ToSet(given) /\ d \in DeploymentSpecs
  BY DEF ToSet
<1>2. containers = Ctrs(i)
  BY DEF Ctrs
<1>3. containers \in Seq(ContainerSpecs)
  <2>1. d.containers \in Seq(ContainerSpecs) /\ d.initContainers \in Seq(ContainerSpecs)
    BY <1>1 DEF DeploymentSpecs
  <2>. HIDE DEF d
  <2>. QED
    BY <2>1
<1>4. c \in ToSet(containers) /\ c \in ContainerSpecs
  <2>. HIDE DEF containers
  <2>. QED
    BY <1>2, <1>3 DEF ToSet
<1>5. /\ DistinctFrom(seq, {})
      /\ \A names \in {c.requests, c.limits} : \A m, n \in names : Label[m] = Label[n] => m = n
  BY <1>1, <1>4 DEF DistinctLabels
<1>. HIDE DEF c
<1>6. N \in Nat
  <2> DEFINE V == [name : DOMAIN Label, value : Texts]
  <2>1. env \in Seq(V)
    BY <1>4 DEF ContainerSpecs
  <2>. HIDE DEF V, env
  <2>. QED
    BY <2>1
<1>. HIDE DEF label, N
<1>7. Len(seq) = N /\ \A k \in 1..N : seq[k] = label(k)
  BY <1>6
<1>. HIDE DEF seq
<1>8. \A m, n \in 1..N : label(m) = label(n) => m = n
  BY <1>5, <1>7 DEF DistinctFrom
<1>9. \A m, n \in 1..N : Stored(env[m].name) = Stored(env[n].name) => m = n
  BY <1>8 DEF label
<1>. QED
  BY <1>4, <1>5, <1>9 DEF c, N

(* Labels are labels.                                                         *)
LEMMA GivenLabels ==
    ASSUME given \in Seq(DeploymentSpecs), NEW i \in 1..Len(given)
    PROVE  /\ Object(i) \in Labels /\ ObjectIn(i) \in Labels /\ Len(Ctrs(i)) \in Nat
           /\ \A j \in 1..Len(Ctrs(i)) : Ctr(i, j) \in Labels /\ Ctrs(i)[j] \in ContainerSpecs
<1>1. given[i] \in DeploymentSpecs
  OBVIOUS
<1>2. Ctrs(i) \in Seq(ContainerSpecs)
  <2>1. given[i].containers \in Seq(ContainerSpecs) /\ given[i].initContainers \in Seq(ContainerSpecs)
    BY <1>1 DEF DeploymentSpecs
  <2>. QED
    BY <2>1 DEF Ctrs
<1>3. given[i].name \in DOMAIN Label
  BY <1>1 DEF DeploymentSpecs
<1>4. \A j \in 1..Len(Ctrs(i)) : Ctrs(i)[j] \in ContainerSpecs
  BY <1>2
<1>5. \A j \in 1..Len(Ctrs(i)) : Ctrs(i)[j].name \in DOMAIN Label
  BY <1>4 DEF ContainerSpecs
<1>. QED
  BY <1>2, <1>3, <1>4, <1>5, LabelsNamed DEF Object, ObjectIn, Ctr

(* Where assignments are.                                                     *)
Own == {"replicas", "revisionHistoryLimit", "nodeSelector"}
TopPath(p) == Len(p) = 1 /\ p[1] \in {DomainKey, "imagePullSecrets"}
OwnPath(p, i) == Len(p) = 2 /\ p[1] \in Objects(i) /\ p[2] \in Own
PathInCtr(p, i, j) ==
    /\ p[1] = ObjectIn(i) /\ p[2] = Ctr(i, j)
    /\ \/ Len(p) = 3 /\ p[3] \in {"imagePullPolicy", "args", "containerSecurityContext"}
       \/ Len(p) = 4 /\ p[3] \in {"image", "env"}
       \/ Len(p) = 5 /\ p[3] = "resources"

LEMMA Tuples ==
    ASSUME NEW L, NEW a \in L, NEW b \in L, NEW c \in L, NEW d \in L, NEW e \in L
    PROVE  /\ <<a>> \in Seq(L) /\ Len(<<a>>) = 1 /\ <<a>>[1] = a
           /\ <<a, b>> \in Seq(L) /\ Len(<<a, b>>) = 2 /\ <<a, b>>[1] = a /\ <<a, b>>[2] = b
           /\ <<a, b, c>> \in Seq(L) /\ Len(<<a, b, c>>) = 3
           /\ <<a, b, c>>[1] = a /\ <<a, b, c>>[2] = b /\ <<a, b, c>>[3] = c
           /\ <<a, b, c, d>> \in Seq(L) /\ Len(<<a, b, c, d>>) = 4
           /\ <<a, b, c, d>>[1] = a /\ <<a, b, c, d>>[2] = b /\ <<a, b, c, d>>[3] = c
           /\ <<a, b, c, d>>[4] = d
           /\ <<a, b, c, d, e>> \in Seq(L) /\ Len(<<a, b, c, d, e>>) = 5
           /\ <<a, b, c, d, e>>[1] = a /\ <<a, b, c, d, e>>[2] = b /\ <<a, b, c, d, e>>[3] = c
           /\ <<a, b, c, d, e>>[4] = d /\ <<a, b, c, d, e>>[5] = e
  OBVIOUS

(* The names that come in some order are names there are.                     *)
LEMMA ListedAre ==
    ASSUME DeploymentsAssumption, NEW resources \in SUBSET DOMAIN Label
    PROVE  Listed(resources) \subseteq resources
<1>1. IsFiniteSet(resources)
  BY FS_Subset DEF DeploymentsAssumption
<1>2. SetToSeq(resources) \in Seq(resources)
  BY <1>1, SequenceOfSet
<1>. QED
  BY <1>2 DEF Listed, ToSet

(* Assignments of a container are at paths of it, and the path says which     *)
(* part they are.                                                             *)
LEMMA PathsOfCtr ==
    ASSUME DeploymentsAssumption, given \in Seq(DeploymentSpecs),
           NEW i \in 1..Len(given), NEW j \in 1..Len(Ctrs(i)), NEW a \in OfCtr(i, j)
    PROVE  /\ PathOf(a) \in Seq(Labels) /\ PathInCtr(PathOf(a), i, j)
           /\ ValueOf(a).kind # "struct" /\ ~ValueOf(a).required
           /\ PathOf(a)[3] = "image" => a \in ImageOfCtr(i, j)
           /\ PathOf(a)[3] = "env" => a \in EnvOf(i, j)
           /\ PathOf(a)[3] = "resources" => a \in Resources(i, j)
           /\ Len(PathOf(a)) = 3 => a \in PartsOf(i, j)
<1> DEFINE o == ObjectIn(i)
           c == Ctr(i, j)
           p == PathOf(a)
<1>1. o \in Labels /\ c \in Labels /\ Ctrs(i)[j] \in ContainerSpecs
  BY GivenLabels
<1>2. \A x \in Parts \union {"repository", "tag", "digest", "requests", "limits"} : x \in Labels
  BY LabelsNamed
<1>. HIDE DEF o, c
<1>3. CASE a \in ImageOfCtr(i, j)
  <2> DEFINE of(f) == From(i, j, f, "", <<ImagePart(Split(Quote(Ctrs(i)[j].image))[f])>>)
  <2>1. PICK field \in {"repository", "tag", "digest"} :
            a = Assign(<<o, c, "image", field>>, "atom", of(field))
    BY <1>3 DEF ImageOfCtr, o, c
  <2>. HIDE DEF of
  <2>2. p = <<o, c, "image", field>> /\ ValueOf(a).kind = "atom" /\ ~ValueOf(a).required
    BY <2>1 DEF Assign, PathOf, ValueOf, Node
  <2>3. field \in Labels /\ "image" \in Labels
    BY <1>2 DEF Parts
  <2>4. p \in Seq(Labels) /\ Len(p) = 4 /\ p[1] = o /\ p[2] = c /\ p[3] = "image"
    BY <1>1, <2>2, <2>3, Tuples
  <2>. HIDE DEF p
  <2>. QED
    BY <1>3, <2>2, <2>4 DEF PathInCtr, p, o, c
<1>4. CASE a \in EnvOf(i, j)
  <2> DEFINE env == Ctrs(i)[j].env
             of(n) == From(i, j, "env", env[n].name, Quoted(<<env[n].value>>))
             kind(n) == TextKind(env[n].value)
  <2>1. PICK n \in 1..Len(env) : a = Assign(<<o, c, "env", Stored(env[n].name)>>, kind(n), of(n))
    BY <1>4 DEF EnvOf, o, c
  <2>1a. kind(n) \in {"zero", "atom"}
    BY DEF TextKind
  <2>. HIDE DEF of, kind
  <2>2. p = <<o, c, "env", Stored(env[n].name)>> /\ ValueOf(a).kind = kind(n) /\ ~ValueOf(a).required
    BY <2>1 DEF Assign, PathOf, ValueOf, Node
  <2>3. env[n].name \in DOMAIN Label
    <3> DEFINE V == [name : DOMAIN Label, value : Texts]
    <3>1. env \in Seq(V)
      BY <1>1 DEF ContainerSpecs
    <3>. HIDE DEF V, env
    <3>2. env[n] \in V
      BY <3>1
    <3>. QED
      BY <3>2 DEF V
  <2>. HIDE DEF env
  <2>4. Stored(env[n].name) \in Labels /\ "env" \in Labels
    BY <1>2, <2>3, LabelsNamed DEF Parts
  <2>5. p \in Seq(Labels) /\ Len(p) = 4 /\ p[1] = o /\ p[2] = c /\ p[3] = "env"
    BY <1>1, <2>2, <2>4, Tuples
  <2>. HIDE DEF p
  <2>. QED
    BY <1>4, <2>1a, <2>2, <2>5 DEF PathInCtr, p, o, c
<1>5. CASE a \in Resources(i, j)
  <2> DEFINE of(kind, n) == From(i, j, kind, n, <<InString(Quantity, StrconvQuote(Quantity))>>)
  <2>1. PICK kind \in {"requests", "limits"}, n \in DOMAIN Label :
            a = Assign(<<o, c, "resources", kind, Label[n]>>, "atom", of(kind, n))
    <3>1. Ctrs(i)[j].requests \subseteq DOMAIN Label /\ Ctrs(i)[j].limits \subseteq DOMAIN Label
      BY <1>1 DEF ContainerSpecs
    <3>2. /\ Listed(Ctrs(i)[j].requests) \subseteq DOMAIN Label
          /\ Listed(Ctrs(i)[j].limits) \subseteq DOMAIN Label
      BY <3>1, ListedAre
    <3>. QED
      BY <1>5, <3>2 DEF Resources, ResourcesOf, o, c
  <2>. HIDE DEF of
  <2>2. p = <<o, c, "resources", kind, Label[n]>> /\ ValueOf(a).kind = "atom"
        /\ ~ValueOf(a).required
    BY <2>1 DEF Assign, PathOf, ValueOf, Node
  <2>3. Label[n] \in Labels /\ "resources" \in Labels /\ kind \in Labels
    BY <1>2, LabelsNamed DEF Parts
  <2>4. p \in Seq(Labels) /\ Len(p) = 5 /\ p[1] = o /\ p[2] = c /\ p[3] = "resources"
    BY <1>1, <2>2, <2>3, Tuples
  <2>. HIDE DEF p
  <2>. QED
    BY <1>5, <2>2, <2>4 DEF PathInCtr, p, o, c
<1>6. CASE a \in PartsOf(i, j)
  <2>1. PICK part \in {"imagePullPolicy", "args", "containerSecurityContext"},
             kind \in {"atom", "list", "map"} :
            p = <<o, c, part>> /\ ValueOf(a).kind = kind /\ ~ValueOf(a).required
    <3> DEFINE policy == From(i, j, "imagePullPolicy", "", Quoted(<<Ctrs(i)[j].policy>>))
               args == From(i, j, "args", "", Quoted(Ctrs(i)[j].args))
               context == From(i, j, "securityContext", "", Quoted(Ctrs(i)[j].security))
    <3>1. a \in {Assign(<<o, c, "imagePullPolicy">>, "atom", policy),
                 Assign(<<o, c, "args">>, "list", args),
                 Assign(<<o, c, "containerSecurityContext">>, "map", context)}
      BY <1>6 DEF PartsOf, o, c
    <3>. HIDE DEF policy, args, context
    <3>. QED
      BY <3>1 DEF Assign, PathOf, ValueOf, Node
  <2>2. part \in Labels
    BY <1>2 DEF Parts
  <2>3. p \in Seq(Labels) /\ Len(p) = 3 /\ p[1] = o /\ p[2] = c /\ p[3] = part
    BY <1>1, <2>1, <2>2, Tuples
  <2>. HIDE DEF p
  <2>. QED
    BY <1>6, <2>1, <2>3 DEF PathInCtr, p, o, c
<1>. QED
  BY <1>3, <1>4, <1>5, <1>6 DEF OfCtr

(* One path, one assignment.                                                  *)
LEMMA OnceInCtr ==
    ASSUME DeploymentsAssumption, DistinctLabels, given \in Seq(DeploymentSpecs),
           NEW i \in 1..Len(given), NEW j \in 1..Len(Ctrs(i)),
           NEW a \in OfCtr(i, j), NEW b \in OfCtr(i, j), PathOf(a) = PathOf(b)
    PROVE  a = b
<1> DEFINE o == ObjectIn(i)
           c == Ctr(i, j)
           p == PathOf(a)
<1>1. o \in Labels /\ c \in Labels /\ Ctrs(i)[j] \in ContainerSpecs
  BY GivenLabels
<1>2. \A x \in Parts \union {"repository", "tag", "digest", "requests", "limits"} : x \in Labels
  BY LabelsNamed
<1>3. /\ \A m, n \in 1..Len(Ctrs(i)[j].env) :
            Stored(Ctrs(i)[j].env[m].name) = Stored(Ctrs(i)[j].env[n].name) => m = n
      /\ \A names \in {Ctrs(i)[j].requests, Ctrs(i)[j].limits} : \A m, n \in names :
            Label[m] = Label[n] => m = n
  BY KeysDistinct
<1>4. PathInCtr(p, i, j)
  BY PathsOfCtr
<1>. HIDE DEF o, c
<1>5. CASE p[3] = "image"
  <2> DEFINE of(f) == From(i, j, f, "", <<ImagePart(Split(Quote(Ctrs(i)[j].image))[f])>>)
             image(f) == Assign(<<o, c, "image", f>>, "atom", of(f))
  <2>1. a \in ImageOfCtr(i, j) /\ b \in ImageOfCtr(i, j)
    BY <1>5, PathsOfCtr
  <2>2. PICK f \in {"repository", "tag", "digest"} : a = image(f)
    BY <2>1 DEF ImageOfCtr, o, c
  <2>3. PICK g \in {"repository", "tag", "digest"} : b = image(g)
    BY <2>1 DEF ImageOfCtr, o, c
  <2>. HIDE DEF of
  <2>4. p = <<o, c, "image", f>> /\ p = <<o, c, "image", g>>
    BY <2>2, <2>3 DEF Assign, PathOf, ValueOf, Node
  <2>5. f \in Labels /\ g \in Labels /\ "image" \in Labels
    BY <1>2 DEF Parts
  <2>6. f = g
    BY <1>1, <2>4, <2>5, Tuples
  <2>. QED
    BY <2>2, <2>3, <2>6
<1>6. CASE p[3] = "env"
  <2> DEFINE env == Ctrs(i)[j].env
             of(n) == From(i, j, "env", env[n].name, Quoted(<<env[n].value>>))
             kind(n) == TextKind(env[n].value)
             var(n) == Assign(<<o, c, "env", Stored(env[n].name)>>, kind(n), of(n))
  <2>1. a \in EnvOf(i, j) /\ b \in EnvOf(i, j)
    BY <1>6, PathsOfCtr
  <2>2. PICK m \in 1..Len(env) : a = var(m)
    BY <2>1 DEF EnvOf, o, c
  <2>3. PICK n \in 1..Len(env) : b = var(n)
    BY <2>1 DEF EnvOf, o, c
  <2>. HIDE DEF of, kind
  <2>4. p = <<o, c, "env", Stored(env[m].name)>> /\ p = <<o, c, "env", Stored(env[n].name)>>
    BY <2>2, <2>3 DEF Assign, PathOf, ValueOf, Node
  <2>5. \A k \in 1..Len(env) : env[k].name \in DOMAIN Label
    <3> DEFINE V == [name : DOMAIN Label, value : Texts]
    <3>1. env \in Seq(V)
      BY <1>1 DEF ContainerSpecs
    <3>. HIDE DEF V, env
    <3>2. \A k \in 1..Len(env) : env[k] \in V
      BY <3>1
    <3>. QED
      BY <3>2 DEF V
  <2>. HIDE DEF env
  <2>6. Stored(env[m].name) \in Labels /\ Stored(env[n].name) \in Labels /\ "env" \in Labels
    BY <1>2, <2>5, LabelsNamed DEF Parts
  <2>7. Stored(env[m].name) = Stored(env[n].name)
    BY <1>1, <2>4, <2>6, Tuples
  <2>8. m = n
    BY <1>3, <2>7 DEF env
  <2>. QED
    BY <2>2, <2>3, <2>8
<1>7. CASE p[3] = "resources"
  <2> DEFINE of(kind, n) == From(i, j, kind, n, <<InString(Quantity, StrconvQuote(Quantity))>>)
             resource(kind, n) == Assign(<<o, c, "resources", kind, Label[n]>>, "atom", of(kind, n))
             names(kind) == IF kind = "requests" THEN Ctrs(i)[j].requests ELSE Ctrs(i)[j].limits
  <2>1. a \in Resources(i, j) /\ b \in Resources(i, j)
    BY <1>7, PathsOfCtr
  <2>2. \A x \in Resources(i, j) : \E kind \in {"requests", "limits"} :
            \E n \in names(kind) : x = resource(kind, n)
    <3>1. \A kind \in {"requests", "limits"} : names(kind) \subseteq DOMAIN Label
      BY <1>1 DEF ContainerSpecs
    <3>2. \A kind \in {"requests", "limits"} : Listed(names(kind)) \subseteq names(kind)
      <4>. HIDE DEF names
      <4>. QED
        BY <3>1, ListedAre
    <3>3. Resources(i, j) = ResourcesOf(i, j, "requests", Listed(names("requests")))
                                \union ResourcesOf(i, j, "limits", Listed(names("limits")))
      BY DEF Resources
    <3>. HIDE DEF names
    <3>. QED
      BY <3>2, <3>3 DEF ResourcesOf, o, c
  <2>. HIDE DEF of
  <2>3. PICK k \in {"requests", "limits"} : \E m \in names(k) : a = resource(k, m)
    BY <2>1, <2>2
  <2>3a. PICK m \in names(k) : a = resource(k, m)
    BY <2>3
  <2>4. PICK l \in {"requests", "limits"} : \E n \in names(l) : b = resource(l, n)
    BY <2>1, <2>2
  <2>4a. PICK n \in names(l) : b = resource(l, n)
    BY <2>4
  <2>5. p = <<o, c, "resources", k, Label[m]>> /\ p = <<o, c, "resources", l, Label[n]>>
    BY <2>3a, <2>4a DEF Assign, PathOf, ValueOf, Node
  <2>6. m \in DOMAIN Label /\ n \in DOMAIN Label
    BY <1>1 DEF ContainerSpecs
  <2>7. /\ Label[m] \in Labels /\ Label[n] \in Labels /\ "resources" \in Labels
        /\ k \in Labels /\ l \in Labels
    BY <1>2, <2>6, LabelsNamed DEF Parts
  <2>8. k = l /\ Label[m] = Label[n]
    BY <1>1, <2>5, <2>7, Tuples
  <2>9. m = n
    BY <1>3, <2>8
  <2>. QED
    BY <2>3a, <2>4a, <2>8, <2>9
<1>8. CASE Len(p) = 3
  <2>1. a \in PartsOf(i, j) /\ b \in PartsOf(i, j)
    BY <1>8, PathsOfCtr
  <2>2. /\ "imagePullPolicy" \in Labels /\ "args" \in Labels
        /\ "containerSecurityContext" \in Labels
    BY <1>2 DEF Parts
  <2> DEFINE of(field, texts) == From(i, j, field, "", texts)
             policy == Assign(<<o, c, "imagePullPolicy">>, "atom",
                              of("imagePullPolicy", Quoted(<<Ctrs(i)[j].policy>>)))
             args == Assign(<<o, c, "args">>, "list", of("args", Quoted(Ctrs(i)[j].args)))
             context == Assign(<<o, c, "containerSecurityContext">>, "map",
                               of("securityContext", Quoted(Ctrs(i)[j].security)))
  <2>3. a \in {policy, args, context} /\ b \in {policy, args, context}
    BY <2>1 DEF PartsOf, o, c
  <2>4. /\ PathOf(policy)[3] = "imagePullPolicy" /\ PathOf(args)[3] = "args"
        /\ PathOf(context)[3] = "containerSecurityContext"
    <3>1. /\ PathOf(policy) = <<o, c, "imagePullPolicy">> /\ PathOf(args) = <<o, c, "args">>
          /\ PathOf(context) = <<o, c, "containerSecurityContext">>
      <4>. HIDE DEF of
      <4>. QED
        BY DEF Assign, PathOf, ValueOf, Node
    <3>. HIDE DEF policy, args, context
    <3>. QED
      BY <1>1, <2>2, <3>1, Tuples
  <2>. HIDE DEF policy, args, context
  <2>. QED
    BY <2>3, <2>4
<1>. QED
  BY <1>4, <1>5, <1>6, <1>7, <1>8 DEF PathInCtr

(* The assignments of a Deployment outside its containers.                    *)
LEMMA PathsOfOwn ==
    ASSUME given \in Seq(DeploymentSpecs), NEW i \in 1..Len(given),
           NEW a \in Scalars(i) \union Selectors(i)
    PROVE  /\ PathOf(a) \in Seq(Labels) /\ OwnPath(PathOf(a), i)
           /\ a \in Scalars(i) <=> PathOf(a)[2] # "nodeSelector"
           /\ ValueOf(a).kind # "struct" /\ ~ValueOf(a).required
           /\ \A b \in Scalars(i) \union Selectors(i) : PathOf(a) = PathOf(b) => a = b
<1> DEFINE o == Object(i)
           in == ObjectIn(i)
           kind == NumberKind(given[i].replicas)
           limit == NumberKind(given[i].revision)
           rof == From(i, 0, "replicas", "", << >>)
           hof == From(i, 0, "revisionHistoryLimit", "", << >>)
           sof == From(i, 0, "nodeSelector", "", Quoted(given[i].nodeSelector))
           replicas == Assign(<<o, "replicas">>, kind, rof)
           revision == Assign(<<o, "revisionHistoryLimit">>, limit, hof)
           selector == Assign(<<in, "nodeSelector">>, "map", sof)
<1>1. o \in Labels /\ in \in Labels /\ \A x \in Own : x \in Labels
  BY GivenLabels, LabelsNamed DEF Own
<1>2. Scalars(i) = {replicas, revision} /\ Selectors(i) = {selector}
  BY DEF Scalars, Selectors
<1>3. kind \in {"zero", "atom"} /\ limit \in {"zero", "atom"}
  BY DEF NumberKind
<1>. HIDE DEF o, in, kind, limit, rof, hof, sof
<1>4. /\ PathOf(replicas) = <<o, "replicas">> /\ PathOf(revision) = <<o, "revisionHistoryLimit">>
      /\ PathOf(selector) = <<in, "nodeSelector">>
      /\ ValueOf(replicas).kind = kind /\ ValueOf(revision).kind = limit
      /\ ValueOf(selector).kind = "map"
      /\ ~ValueOf(replicas).required /\ ~ValueOf(revision).required /\ ~ValueOf(selector).required
  BY DEF Assign, PathOf, ValueOf, Node
<1>. HIDE DEF replicas, revision, selector
<1>5. \A x \in Own : \A l \in {o, in} :
          <<l, x>> \in Seq(Labels) /\ Len(<<l, x>>) = 2 /\ <<l, x>>[1] = l /\ <<l, x>>[2] = x
  BY <1>1, Tuples
<1>. QED
  BY <1>2, <1>3, <1>4, <1>5 DEF OwnPath, Objects, Own, o, in

(* Those of no Deployment.                                                    *)
LEMMA PathsOfNone ==
    ASSUME NEW a \in Domain \union Pulls
    PROVE  /\ PathOf(a) \in Seq(Labels) /\ TopPath(PathOf(a))
           /\ a \in Pulls <=> PathOf(a)[1] = "imagePullSecrets"
           /\ ValueOf(a).kind # "struct" /\ ~ValueOf(a).required
           /\ \A b \in Domain \union Pulls : PathOf(a) = PathOf(b) => a = b
<1> DEFINE pulls == <<<<"imagePullSecrets">>, Node("list", << >>, FALSE)>>
           domain == <<<<DomainKey>>, DomainValue>>
<1>1. Pulls = {pulls} /\ Domain = {domain}
  BY DEF Pulls, Domain
<1>2. DomainValue.kind = "atom" /\ ~DomainValue.required
  BY DEF DomainValue, Node
<1>3. /\ PathOf(pulls) = <<"imagePullSecrets">> /\ PathOf(domain) = <<DomainKey>>
      /\ ValueOf(pulls).kind = "list" /\ ~ValueOf(pulls).required
      /\ ValueOf(domain) = DomainValue
  BY DEF PathOf, ValueOf, Node
<1>. HIDE DEF pulls, domain
<1>4. DomainKey # "imagePullSecrets"
  BY DEF DomainKey
<1>5. \A x \in {DomainKey, "imagePullSecrets"} :
          <<x>> \in Seq(Labels) /\ Len(<<x>>) = 1 /\ <<x>>[1] = x
  BY LabelsNamed, OneOf
<1>6. \A b \in Domain \union Pulls : b = pulls \/ b = domain
  BY <1>1
<1>7. /\ PathOf(pulls) \in Seq(Labels) /\ TopPath(PathOf(pulls))
      /\ PathOf(pulls)[1] = "imagePullSecrets"
      /\ PathOf(domain) \in Seq(Labels) /\ TopPath(PathOf(domain))
      /\ PathOf(domain)[1] = DomainKey
  BY <1>3, <1>5 DEF TopPath
<1>8. /\ ValueOf(pulls).kind # "struct" /\ ~ValueOf(pulls).required
      /\ ValueOf(domain).kind # "struct" /\ ~ValueOf(domain).required
  BY <1>2, <1>3
<1>9. pulls \in Pulls /\ domain \notin Pulls
  BY <1>1, <1>4, <1>7
<1>. QED
  BY <1>4, <1>6, <1>7, <1>8, <1>9

(* What there is in a run, by whose it is.                                    *)
LEMMA WhoseAssignment ==
    ASSUME NEW n, NEW a \in OfDeployments(n)
    PROVE  \/ a \in Domain \union Pulls
           \/ \E i \in 1..Len(given) : i <= n /\ a \in Scalars(i) \union Selectors(i)
           \/ \E i \in 1..Len(given) : i <= n /\ \E j \in 1..Len(Ctrs(i)) : a \in OfCtr(i, j)
<1>1. CASE a \in Domain \union Pulls
  BY <1>1
<1>2. CASE \E i \in {k \in 1..Len(given) : k <= n} : a \in OfDeployment(i)
  <2>1. PICK i \in {k \in 1..Len(given) : k <= n} : a \in OfDeployment(i)
    BY <1>2
  <2>2. CASE a \in Pulls \union Scalars(i) \union Selectors(i)
    BY <2>1, <2>2
  <2>3. CASE \E j \in {k \in 1..Len(Ctrs(i)) : k <= Len(Ctrs(i))} : a \in OfCtr(i, j)
    BY <2>1, <2>3
  <2>. QED
    BY <2>1, <2>2, <2>3 DEF OfDeployment, OfPod
<1>. QED
  BY <1>1, <1>2 DEF OfDeployments

LEMMA PartOfAll ==
    ASSUME given \in Seq(DeploymentSpecs)
    PROVE  /\ \A n \in 0..Len(given) : OfDeployments(n) \subseteq All
           /\ \A i \in 1..Len(given) : OfDeployment(i) \subseteq All /\ Scalars(i) \subseteq All
           /\ \A i \in 1..Len(given) : \A n : OfPod(i, n) \subseteq OfDeployment(i)
           /\ \A i \in 1..Len(given) : \A j \in 1..Len(Ctrs(i)) : OfCtr(i, j) \subseteq OfDeployment(i)
           /\ Domain \subseteq All /\ Pulls \subseteq All
<1>1. Len(given) \in Nat /\ \A i \in 1..Len(given) : Len(Ctrs(i)) \in Nat
  BY GivenLabels
<1>2. \A n \in 0..Len(given) : OfDeployments(n) \subseteq All
  BY <1>1 DEF OfDeployments, All
<1>3. \A i \in 1..Len(given) : OfDeployment(i) \subseteq All
  BY <1>1 DEF OfDeployments, All
<1>4. \A i \in 1..Len(given) : \A n : OfPod(i, n) \subseteq OfDeployment(i)
  <2>. SUFFICES ASSUME NEW i \in 1..Len(given), NEW n, NEW a \in OfPod(i, n)
                PROVE  a \in OfPod(i, Len(Ctrs(i)))
    BY DEF OfDeployment
  <2>1. \A j \in {k \in 1..Len(Ctrs(i)) : k <= n} : j \in {k \in 1..Len(Ctrs(i)) : k <= Len(Ctrs(i))}
    BY <1>1
  <2>. QED
    BY <2>1 DEF OfPod
<1>5. \A i \in 1..Len(given) : \A j \in 1..Len(Ctrs(i)) : OfCtr(i, j) \subseteq OfDeployment(i)
  <2>. SUFFICES ASSUME NEW i \in 1..Len(given), NEW j \in 1..Len(Ctrs(i)), NEW a \in OfCtr(i, j)
                PROVE  a \in OfPod(i, Len(Ctrs(i)))
    BY DEF OfDeployment
  <2>1. j \in {k \in 1..Len(Ctrs(i)) : k <= Len(Ctrs(i))}
    BY <1>1
  <2>. QED
    BY <2>1 DEF OfPod
<1>6. Domain \subseteq All /\ Pulls \subseteq All
  BY DEF All, OfDeployments
<1>7. \A i \in 1..Len(given) : Scalars(i) \subseteq OfDeployment(i)
  BY DEF OfDeployment
<1>. QED
  BY <1>2, <1>3, <1>4, <1>5, <1>6, <1>7

(* No two assignments of a run with distinct names meet.                      *)
LEMMA AssignmentsApart ==
    ASSUME DeploymentsAssumption, DistinctLabels, given \in Seq(DeploymentSpecs)
    PROVE  Apart(All) /\ Proper(All)
<1> DEFINE Shaped(a) ==
        \/ a \in Domain \union Pulls /\ TopPath(PathOf(a))
        \/ \E i \in 1..Len(given) : a \in Scalars(i) \union Selectors(i) /\ OwnPath(PathOf(a), i)
        \/ \E i \in 1..Len(given) : \E j \in 1..Len(Ctrs(i)) :
              a \in OfCtr(i, j) /\ PathInCtr(PathOf(a), i, j)
<1>1. ASSUME NEW a \in All
      PROVE  /\ PathOf(a) \in Seq(Labels) /\ ValueOf(a).kind # "struct" /\ ~ValueOf(a).required
             /\ Shaped(a)
  BY WhoseAssignment, PathsOfNone, PathsOfOwn, PathsOfCtr DEF All
<1>2. /\ \A i, k \in 1..Len(given) : Objects(i) \intersect Objects(k) # {} => i = k
      /\ \A i \in 1..Len(given) : \A o \in Objects(i) : o \notin {DomainKey, "imagePullSecrets"}
      /\ \A i : ObjectIn(i) \in Objects(i)
      /\ \A i \in 1..Len(given) : \A j, k \in 1..Len(Ctrs(i)) : Ctr(i, j) = Ctr(i, k) => j = k
      /\ \A i \in 1..Len(given) : \A j \in 1..Len(Ctrs(i)) : Ctr(i, j) \notin Own
  BY NamesDistinct DEF Own, Objects
<1>3. ASSUME NEW a \in All, NEW b \in All, PathOf(a) = PathOf(b)
      PROVE  a = b
  <2> DEFINE p == PathOf(a)
  <2>1. Shaped(a) /\ Shaped(b)
    BY <1>1
  <2>2. CASE Len(p) = 1
    <3>1. a \in Domain \union Pulls /\ b \in Domain \union Pulls
      BY <1>3, <2>1, <2>2 DEF TopPath, OwnPath, PathInCtr
    <3>. QED
      BY <1>3, <3>1, PathsOfNone
  <2>3. CASE Len(p) = 2
    <3>1. PICK i \in 1..Len(given) : a \in Scalars(i) \union Selectors(i) /\ OwnPath(p, i)
      BY <2>1, <2>3 DEF TopPath, PathInCtr
    <3>2. PICK k \in 1..Len(given) : b \in Scalars(k) \union Selectors(k) /\ OwnPath(p, k)
      BY <1>3, <2>1, <2>3 DEF TopPath, PathInCtr
    <3>3. i = k
      BY <1>2, <3>1, <3>2 DEF OwnPath
    <3>. QED
      BY <1>3, <3>1, <3>2, <3>3, PathsOfOwn
  <2>4. CASE Len(p) \notin {1, 2}
    <3>1. PICK i \in 1..Len(given) : \E j \in 1..Len(Ctrs(i)) : a \in OfCtr(i, j) /\ PathInCtr(p, i, j)
      BY <2>1, <2>4 DEF TopPath, OwnPath
    <3>2. PICK k \in 1..Len(given) : \E l \in 1..Len(Ctrs(k)) : b \in OfCtr(k, l) /\ PathInCtr(p, k, l)
      BY <1>3, <2>1, <2>4 DEF TopPath, OwnPath
    <3>3. i = k
      BY <1>2, <3>1, <3>2 DEF PathInCtr
    <3>4. PICK j \in 1..Len(Ctrs(i)) : a \in OfCtr(i, j) /\ PathInCtr(p, i, j)
      BY <3>1
    <3>5. PICK l \in 1..Len(Ctrs(i)) : b \in OfCtr(i, l) /\ PathInCtr(p, i, l)
      BY <3>2, <3>3
    <3>6. j = l
      BY <1>2, <3>4, <3>5 DEF PathInCtr
    <3>. QED
      BY <1>3, <3>4, <3>5, <3>6, OnceInCtr
  <2>. QED
    BY <2>2, <2>3, <2>4
<1>4. ASSUME NEW a \in All, NEW b \in All, PathOf(a) \in StrictPrefixes(PathOf(b))
      PROVE  FALSE
  <2> DEFINE q == PathOf(a)
             p == PathOf(b)
  <2>1. /\ q \in Paths(Labels) /\ Len(q) < Len(p) /\ \A n \in 1..Len(q) : q[n] = p[n]
    BY <1>1, <1>4, PrefixesArePaths
  <2>2. /\ Len(p) \in Nat /\ Len(q) \in Nat
        /\ \A x \in {p, q} :
              \/ TopPath(x) \/ \E i \in 1..Len(given) : OwnPath(x, i)
              \/ \E i \in 1..Len(given) : \E j \in 1..Len(Ctrs(i)) : PathInCtr(x, i, j)
    BY <1>1
  <2>. HIDE DEF q, p
  <2> DEFINE m == Len(q)
             n == Len(p)
  <2>. HIDE DEF m, n
  <2>2a. m \in Nat /\ n \in Nat /\ m < n
    BY <2>1, <2>2 DEF m, n
  <2>2b. (m = 1 => n # 1) /\ (m = 2 => n \notin {1, 2}) /\ (m >= 3 => n \notin {1, 2, 3})
    BY <2>2a
  <2>3. CASE TopPath(q)
    <3>1. q[1] = p[1] /\ q[1] \in {DomainKey, "imagePullSecrets"} /\ Len(p) # 1
      <4>1. Len(q) = 1 /\ q[1] \in {DomainKey, "imagePullSecrets"} /\ 1 \in 1..Len(q)
        BY <2>3 DEF TopPath
      <4>2. q[1] = p[1]
        BY <2>1, <4>1
      <4>3. Len(p) # 1
        BY <2>2b, <4>1 DEF m, n
      <4>. QED
        BY <4>1, <4>2, <4>3
    <3>2. \E i \in 1..Len(given) : p[1] \in Objects(i)
      BY <1>2, <2>2, <3>1 DEF TopPath, OwnPath, PathInCtr
    <3>. QED
      BY <1>2, <3>1, <3>2
  <2>4. CASE \E i \in 1..Len(given) : OwnPath(q, i)
    <3>1. Len(q) = 2 /\ q[2] \in Own /\ q[2] = p[2]
      BY <2>1, <2>4 DEF OwnPath
    <3>2. Len(p) \notin {1, 2}
      BY <2>2b, <3>1 DEF m, n
    <3>3. \E i \in 1..Len(given) : \E j \in 1..Len(Ctrs(i)) : PathInCtr(p, i, j)
      BY <2>2, <3>2 DEF TopPath, OwnPath
    <3>. QED
      BY <1>2, <3>1, <3>3 DEF PathInCtr
  <2>5. CASE \E i \in 1..Len(given) : \E j \in 1..Len(Ctrs(i)) : PathInCtr(q, i, j)
    <3>1. q[3] = p[3] /\ Len(p) > 3
      BY <2>1, <2>2, <2>5 DEF PathInCtr
    <3>2. \E i \in 1..Len(given) : \E j \in 1..Len(Ctrs(i)) : PathInCtr(p, i, j)
      BY <2>2, <3>1 DEF TopPath, OwnPath
    <3>. QED
      BY <2>1, <2>2, <2>5, <3>1, <3>2 DEF PathInCtr
  <2>. QED
    BY <2>2, <2>3, <2>4, <2>5
<1>. QED
  BY <1>1, <1>3, <1>4 DEF Apart, Proper

-----------------------------------------------------------------------------
(* Adding assignments                                                         *)

LEMMA MadeOfMore ==
    ASSUME NEW S, NEW T, S \subseteq T, NEW tree, Made(tree, S)
    PROVE  Made(tree, T)
  BY DEF Made

Leaves(tree) == {p \in DOMAIN tree : tree[p].kind # "struct"}

(* A schema that is set is one more leaf, if it does not replace some.        *)
LEMMA PutLeaves ==
    ASSUME NEW config, IsSchema(config), NEW path \in Paths(Labels), NEW node \in Schemas,
           \A q \in Leaves(config) : q \notin StrictPrefixes(path)
    PROVE  /\ ~Blocked(config, path)
           /\ Leaves(Put(config, path, node)) \subseteq Leaves(config) \union {path}
<1> DEFINE new == Put(config, path, node)
<1>1. ~Blocked(config, path)
  BY DEF Blocked, Leaves
<1>2. << >> \in Definitions /\ IsTreeOver(config, Labels, Definitions) /\ node \in Nodes(Definitions)
  BY EmptyOrigins DEF IsSchema, Schemas
<1>3. ASSUME NEW p \in Leaves(new), p # path
      PROVE  p \in Leaves(config)
  <2>1. p \in DOMAIN new /\ new[p].kind # "struct"
    BY <1>3 DEF Leaves
  <2>2. p \notin StrictPrefixes(path)
    BY <1>1, <1>2, <2>1, PutAbove
  <2>3. p \in DOMAIN config /\ new[p] = config[p]
    BY <1>1, <1>2, <1>3, <2>1, <2>2, PutElsewhere
  <2>. QED
    BY <2>1, <2>3 DEF Leaves
<1>. QED
  BY <1>1, <1>3

(* An assignment that is added with no schema, or one that nothing is in the  *)
(* way of, ends well and is there afterwards, with all others.                *)
LEMMA AddMakes ==
    ASSUME NEW A, Apart(A), Proper(A), NEW S \in SUBSET A,
           NEW v, IsTyped(v), v.outcome = "ok", Made(v.values, S),
           NEW path \in Paths(Labels), NEW value \in Contents, <<path, value>> \in S,
           NEW schema \in Schemas \union {NoSchema},
           schema # NoSchema => \A q \in Leaves(v.config) : q \notin StrictPrefixes(path)
    PROVE  LET u == Add(v, schema, value, path)
           IN  /\ IsTyped(u) /\ u.outcome = "ok" /\ Made(u.values, S)
               /\ Holds(u.values, <<path, value>>)
               /\ \A b \in A : Holds(v.values, b) => Holds(u.values, b)
               /\ Leaves(u.config) \subseteq Leaves(v.config) \union {path}
<1> DEFINE t == IF schema = NoSchema THEN v ELSE AddConfig(v, schema, FALSE, path)
           u == Add(v, schema, value, path)
           a == <<path, value>>
<1>1. u = SetValue(t, value, path)
  BY DEF Add
<1>2. IsTyped(t) /\ t.outcome = "ok" /\ t.values = v.values
      /\ Leaves(t.config) \subseteq Leaves(v.config) \union {path}
  <2>1. CASE schema = NoSchema
    BY <2>1
  <2>2. CASE schema # NoSchema
    <3> DEFINE node == [schema EXCEPT !.required = FALSE]
    <3>1. schema \in Nodes(Definitions) /\ node \in Schemas
      BY <2>2 DEF Schemas, Nodes
    <3>2. IsTyped(AddConfig(v, schema, FALSE, path))
      BY <3>1, EmptyOrigins, AddConfigKeepsValues DEF IsTyped
    <3>. HIDE DEF node
    <3>3. /\ ~Blocked(v.config, path)
          /\ Leaves(Put(v.config, path, node)) \subseteq Leaves(v.config) \union {path}
      BY <2>2, <3>1, ValuesRecord, PutLeaves
    <3>4. AddConfig(v, schema, FALSE, path) = [v EXCEPT !.config = Put(v.config, path, node)]
      BY <3>3 DEF AddConfig, node
    <3>5. v = [config |-> v.config, values |-> v.values, outcome |-> v.outcome]
      BY ValuesRecord
    <3> DEFINE w == AddConfig(v, schema, FALSE, path)
    <3>6. t = w
      BY <2>2
    <3>7. w.outcome = v.outcome /\ w.values = v.values /\ w.config = Put(v.config, path, node)
      BY <3>4, <3>5
    <3>. HIDE DEF t, w
    <3>. QED
      BY <3>2, <3>3, <3>6, <3>7 DEF w
  <2>. QED
    BY <2>1, <2>2
<1>. HIDE DEF t
<1>3. PathOf(a) = path /\ ValueOf(a) = value
  BY DEF PathOf, ValueOf
<1>. HIDE DEF a
<1>4. a \in A /\ a \in S /\ S \union {a} = S
  BY DEF a
<1>5. t = [config |-> t.config, values |-> t.values, outcome |-> t.outcome]
      /\ IsContent(t.values)
  BY <1>2, ValuesRecord
<1> DEFINE new == Put(t.values, path, value)
<1>6. ~Blocked(t.values, path) /\ Made(new, S) /\ Holds(new, a)
      /\ \A b \in A : Holds(t.values, b) => Holds(new, b)
  <2>1. /\ ~Blocked(t.values, PathOf(a))
        /\ Made(Put(t.values, PathOf(a), ValueOf(a)), S \union {a})
        /\ Holds(Put(t.values, PathOf(a), ValueOf(a)), a)
        /\ \A b \in A : Holds(t.values, b) => Holds(Put(t.values, PathOf(a), ValueOf(a)), b)
    <3>1. Made(t.values, S) /\ PathOf(a) \in Paths(Labels) /\ ValueOf(a) \in Contents
      BY <1>2, <1>3
    <3>. QED
      BY <1>4, <1>5, <3>1, PutMakes
  <2>. QED
    BY <1>3, <1>4, <2>1
<1>7. u = [t EXCEPT !.values = new]
  BY <1>1, <1>2, <1>6 DEF SetValue
<1>. HIDE DEF new
<1>8. u.values = new /\ u.outcome = "ok" /\ u.config = t.config
  BY <1>2, <1>5, <1>7
<1>9. IsTyped(u)
  <2>1. schema \in Nodes(Definitions) \union {NoSchema} /\ value \in Nodes(Sources)
    BY DEF Schemas, Contents
  <2>. QED
    BY <2>1, EmptyOrigins, AddKeepsValues DEF IsTyped
<1>. HIDE DEF u
<1>10. /\ IsTyped(u) /\ u.outcome = "ok" /\ Made(u.values, S) /\ Holds(u.values, a)
       /\ \A b \in A : Holds(v.values, b) => Holds(u.values, b)
       /\ Leaves(u.config) \subseteq Leaves(v.config) \union {path}
  BY <1>2, <1>6, <1>8, <1>9
<1>. QED
  BY <1>10 DEF u, a

(* One after another.                                                         *)
Suits(add, S, config) ==
    /\ add.path \in Paths(Labels) /\ add.value \in Contents /\ <<add.path, add.value>> \in S
    /\ add.schema \in Schemas \union {NoSchema}
    /\ add.schema # NoSchema => \A q \in Leaves(config) : q \notin StrictPrefixes(add.path)

HasMade(u, v, adds, S, A) ==
    /\ IsTyped(u) /\ u.outcome = "ok" /\ Made(u.values, S)
    /\ \A b \in A : Holds(v.values, b) \/ b \in Expected(adds) => Holds(u.values, b)
    /\ \A q \in Leaves(u.config) :
          q \in Leaves(v.config) \/ \E n \in 1..Len(adds) : q = adds[n].path

LEMMA AddAllMakes ==
    ASSUME NEW A, Apart(A), Proper(A), NEW S \in SUBSET A,
           NEW v, IsTyped(v), v.outcome = "ok", Made(v.values, S),
           NEW adds, Len(adds) \in Nat,
           \A n \in 1..Len(adds) : Suits(adds[n], S, v.config)
    PROVE  HasMade(AddAll(v, adds), v, adds, S, A)
<1>1. PICK after :
          /\ after[0] = v
          /\ \A n \in 1..Len(adds) :
                after[n] = Add(after[n - 1], adds[n].schema, adds[n].value, adds[n].path)
          /\ AddAll(v, adds) = after[Len(adds)]
  <2>1. Len(adds) \in Nat
    OBVIOUS
  <2>. QED
    BY ONLY <2>1, AddAllStages
<1> DEFINE N == Len(adds)
           a(n) == <<adds[n].path, adds[n].value>>
           Stage(n) ==
               /\ IsTyped(after[n]) /\ after[n].outcome = "ok" /\ Made(after[n].values, S)
               /\ \A b \in A : Holds(v.values, b) => Holds(after[n].values, b)
               /\ \A m \in 1..n : Holds(after[n].values, a(m))
               /\ Leaves(after[n].config) \subseteq
                     Leaves(v.config) \union {adds[m].path : m \in 1..n}
           G == {n \in 0..N : Stage(n)}
<1>2. 0 \in G
  <2>1. Stage(0)
    BY <1>1
  <2>. HIDE DEF Stage
  <2>. QED
    BY <2>1
<1>3. ASSUME NEW n \in 0..N, n \in G, n < N
      PROVE  n + 1 \in G
  <2>1. n + 1 \in 1..N /\ n + 1 - 1 = n /\ n + 1 \in 0..N /\ 1..n + 1 = 1..n \union {n + 1}
    BY <1>3
  <2> DEFINE add == adds[n + 1]
             u == after[n + 1]
             w == after[n]
  <2>2. Stage(n)
    BY <1>3
  <2>3. u = Add(w, add.schema, add.value, add.path)
    BY <1>1, <2>1
  <2>4. Suits(add, S, v.config)
    BY <2>1
  <2>5. \A m \in 1..N : a(m) \in S /\ PathOf(a(m)) = adds[m].path
    BY DEF Suits, PathOf
  <2>6. \A q \in Leaves(w.config) : add.schema # NoSchema => q \notin StrictPrefixes(add.path)
    <3>1. ASSUME NEW m \in 1..n
          PROVE  adds[m].path \notin StrictPrefixes(add.path)
      <4>1. m \in 1..N
        BY <1>3
      <4>2. a(m) \in A /\ a(n + 1) \in A
        BY <2>1, <2>5, <4>1
      <4>3. PathOf(a(m)) \notin StrictPrefixes(PathOf(a(n + 1)))
        <5>. HIDE DEF a
        <5>. QED
          BY <4>2 DEF Apart
      <4>. QED
        BY <2>1, <2>5, <4>1, <4>3
    <3>2. Leaves(w.config) \subseteq Leaves(v.config) \union {adds[m].path : m \in 1..n}
      BY <2>2
    <3>. QED
      BY <2>4, <3>1, <3>2 DEF Suits
  <2>. HIDE DEF add, w, a
  <2>7. /\ IsTyped(u) /\ u.outcome = "ok" /\ Made(u.values, S)
        /\ Holds(u.values, <<add.path, add.value>>)
        /\ \A b \in A : Holds(w.values, b) => Holds(u.values, b)
        /\ Leaves(u.config) \subseteq Leaves(w.config) \union {add.path}
    <3>1. IsTyped(w) /\ w.outcome = "ok" /\ Made(w.values, S)
      BY <2>2 DEF w
    <3>2. /\ add.path \in Paths(Labels) /\ add.value \in Contents /\ <<add.path, add.value>> \in S
          /\ add.schema \in Schemas \union {NoSchema}
          /\ add.schema # NoSchema =>
                \A q \in Leaves(w.config) : q \notin StrictPrefixes(add.path)
      BY <2>4, <2>6 DEF Suits
    <3> DEFINE path == add.path
               value == add.value
               schema == add.schema
    <3>. HIDE DEF path, value, schema
    <3>3. LET x == Add(w, schema, value, path)
          IN  /\ IsTyped(x) /\ x.outcome = "ok" /\ Made(x.values, S)
              /\ Holds(x.values, <<path, value>>)
              /\ \A b \in A : Holds(w.values, b) => Holds(x.values, b)
              /\ Leaves(x.config) \subseteq Leaves(w.config) \union {path}
      <4>1. /\ path \in Paths(Labels) /\ value \in Contents /\ <<path, value>> \in S
            /\ schema \in Schemas \union {NoSchema}
            /\ schema # NoSchema => \A q \in Leaves(w.config) : q \notin StrictPrefixes(path)
        BY <3>2 DEF path, value, schema
      <4>. QED
        BY <3>1, <4>1, AddMakes
    <3>. QED
      BY <2>3, <3>3 DEF path, value, schema
  <2>. HIDE DEF u
  <2>8. /\ \A b \in A : Holds(v.values, b) => Holds(u.values, b)
        /\ \A m \in 1..n : Holds(u.values, a(m))
        /\ Leaves(u.config) \subseteq Leaves(v.config) \union {adds[m].path : m \in 1..n + 1}
    <3>1. /\ \A b \in A : Holds(v.values, b) => Holds(w.values, b)
          /\ \A m \in 1..n : Holds(w.values, a(m))
          /\ Leaves(w.config) \subseteq Leaves(v.config) \union {adds[m].path : m \in 1..n}
      BY <2>2 DEF w
    <3>2. \A m \in 1..n : a(m) \in A
      BY <1>3, <2>5
    <3>3. add.path = adds[n + 1].path
      BY DEF add
    <3>. QED
      BY <2>1, <2>7, <3>1, <3>2, <3>3
  <2>9. Holds(u.values, a(n + 1))
    BY <2>7 DEF a, add
  <2>10. \A m \in 1..n + 1 : Holds(u.values, a(m))
    BY <2>1, <2>8, <2>9
  <2>11. Stage(n + 1)
    BY <2>7, <2>8, <2>10 DEF u
  <2>. HIDE DEF Stage
  <2>. QED
    BY <2>1, <2>11
<1>4. N \in G
  <2>. HIDE DEF G
  <2>1. \A n \in 0..N : n \in G /\ n < N => n + 1 \in G
    BY <1>3
  <2>2. N \in 0..N
    OBVIOUS
  <2>. HIDE DEF N
  <2>3. N \in Nat
    BY DEF N
  <2>. QED
    BY <1>2, <2>1, <2>2, <2>3, UpTo
<1>5. Stage(N)
  <2>. HIDE DEF Stage
  <2>. QED
    BY <1>4
<1>6. \A b \in Expected(adds) : \E m \in 1..N : b = a(m)
  BY DEF Expected
<1>7. \A q \in Leaves(after[N].config) :
          q \in Leaves(v.config) \/ \E n \in 1..N : q = adds[n].path
  BY <1>5
<1>. QED
  BY <1>1, <1>5, <1>6, <1>7 DEF HasMade

-----------------------------------------------------------------------------
(* What a container adds is what it assigns                                   *)

LEMMA AtOf ==
    /\ Depl = given[dep] /\ Containers = Ctrs(dep) /\ Container = Ctrs(dep)[idx]
    /\ ObjLabel = Object(dep)
    /\ Stored(Depl.name) = ObjectIn(dep) /\ Stored(Container.name) = Ctr(dep, idx)
  BY DEF Depl, Containers, Container, Ctrs, ObjLabel, Object, ObjectIn, Ctr

LEMMA ValueAssigned ==
    ASSUME NEW path, NEW kind, NEW c, NEW field, NEW key, NEW texts
    PROVE  <<path, Value(kind, c, field, key, texts)>>
               = Assign(path, kind, From(dep, c, field, key, texts))
  BY DEF Value, Assign, From

LEMMA PathsHere ==
    ASSUME DeploymentsAssumption, given \in Seq(DeploymentSpecs), dep \in 1..Len(given),
           idx \in 1..Len(Containers)
    PROVE  /\ \A x \in Labels : CtrPath(<<x>>) = <<ObjectIn(dep), Ctr(dep, idx), x>>
           /\ \A x, y \in Labels : CtrPath(<<x, y>>) = <<ObjectIn(dep), Ctr(dep, idx), x, y>>
           /\ \A x, y, z \in Labels :
                 CtrPath(<<x, y, z>>) = <<ObjectIn(dep), Ctr(dep, idx), x, y, z>>
<1>1. Stored(Depl.name) \in Labels /\ Stored(Container.name) \in Labels
  BY AtDeployment, AtContainer
<1> DEFINE a == Stored(Depl.name)
           b == Stored(Container.name)
<1>. HIDE DEF a, b
<1>2. ASSUME NEW x \in Labels PROVE <<a, b>> \o <<x>> = <<a, b, x>>
  <2>1. a \in Labels /\ b \in Labels
    BY <1>1 DEF a, b
  <2>. QED
    BY <2>1, BelowPair3
<1>3. ASSUME NEW x \in Labels, NEW y \in Labels PROVE <<a, b>> \o <<x, y>> = <<a, b, x, y>>
  <2>1. a \in Labels /\ b \in Labels
    BY <1>1 DEF a, b
  <2>. QED
    BY <2>1, BelowPair4
<1>4. ASSUME NEW x \in Labels, NEW y \in Labels, NEW z \in Labels
      PROVE  <<a, b>> \o <<x, y, z>> = <<a, b, x, y, z>>
  <2>1. a \in Labels /\ b \in Labels
    BY <1>1 DEF a, b
  <2>. QED
    BY <2>1, BelowPair5
<1>5. a = ObjectIn(dep) /\ b = Ctr(dep, idx)
  BY AtOf DEF a, b
<1>6. \A fields : CtrPath(fields) = <<a, b>> \o fields
  BY DEF CtrPath, a, b
<1>. QED
  BY <1>2, <1>3, <1>4, <1>5, <1>6

LEMMA ImageAddsAre ==
    ASSUME DeploymentsAssumption, given \in Seq(DeploymentSpecs), dep \in 1..Len(given),
           idx \in 1..Len(Containers)
    PROVE  Expected(ImageAdds(Split(Quote(Container.image)))) = ImageOfCtr(dep, idx)
<1> DEFINE parts == Split(Quote(Container.image))
           fields == <<"repository", "tag", "digest">>
           part(f) == <<ImagePart(parts[f])>>
           image(f) == Assign(<<ObjectIn(dep), Ctr(dep, idx), "image", f>>, "atom",
                              From(dep, idx, f, "", part(f)))
           add(n) == [schema |-> NoSchema, path |-> CtrPath(<<"image", fields[n]>>),
                      value |-> Value("atom", idx, fields[n], "", part(fields[n]))]
           adds == ImageAdds(parts)
<1>1. adds = [n \in 1..3 |-> add(n)]
  BY DEF ImageAdds
<1>2. \A n \in 1..3 : fields[n] \in {"repository", "tag", "digest"} /\ fields[n] \in Labels
  BY LabelsNamed
<1>3. \A f \in {"repository", "tag", "digest"} : \E n \in 1..3 : fields[n] = f
  <2>1. fields[1] = "repository" /\ fields[2] = "tag" /\ fields[3] = "digest"
    OBVIOUS
  <2>. HIDE DEF fields
  <2>. QED
    BY <2>1
<1>4. "image" \in Labels
  BY LabelsNamed DEF Parts
<1>5. ImageOfCtr(dep, idx) = {image(f) : f \in {"repository", "tag", "digest"}}
  BY AtOf DEF ImageOfCtr
<1>. HIDE DEF fields, part, parts
<1>6. ASSUME NEW n \in 1..3
      PROVE  <<add(n).path, add(n).value>> = image(fields[n])
  <2>1. add(n).path = <<ObjectIn(dep), Ctr(dep, idx), "image", fields[n]>>
    BY <1>2, <1>4, PathsHere
  <2>2. add(n).value = Value("atom", idx, fields[n], "", part(fields[n]))
    OBVIOUS
  <2>3. <<<<ObjectIn(dep), Ctr(dep, idx), "image", fields[n]>>,
          Value("atom", idx, fields[n], "", part(fields[n]))>> = image(fields[n])
    BY DEF Value, Assign, From
  <2>. HIDE DEF add, image
  <2>. QED
    BY <2>1, <2>2, <2>3
<1>7. Len(adds) = 3 /\ \A n \in 1..3 : adds[n] = add(n)
  <2>. HIDE DEF add, adds
  <2>. QED
    BY <1>1
<1>. HIDE DEF add, adds, image
<1>8. Expected(adds) = {image(fields[n]) : n \in 1..3}
  BY <1>6, <1>7 DEF Expected
<1>9. {image(fields[n]) : n \in 1..3} = {image(f) : f \in {"repository", "tag", "digest"}}
  BY <1>2, <1>3
<1>. QED
  BY <1>5, <1>8, <1>9 DEF adds, parts

LEMMA EnvAddsAre ==
    ASSUME DeploymentsAssumption, given \in Seq(DeploymentSpecs), dep \in 1..Len(given),
           idx \in 1..Len(Containers)
    PROVE  Expected(EnvAdds) = EnvOf(dep, idx)
<1> DEFINE env == Container.env
           texts(n) == Quoted(<<env[n].value>>)
           kind(n) == TextKind(env[n].value)
           var(n) == Assign(<<ObjectIn(dep), Ctr(dep, idx), "env", Stored(env[n].name)>>, kind(n),
                            From(dep, idx, "env", env[n].name, texts(n)))
           add(n) == [schema |-> Expr("string"), path |-> CtrPath(<<"env", Stored(env[n].name)>>),
                      value |-> Value(kind(n), idx, "env", env[n].name, texts(n))]
           V == [name : DOMAIN Label, value : Texts]
<1>1. EnvAdds = [n \in 1..Len(env) |-> add(n)]
  BY DEF EnvAdds
<1>2. env \in Seq(V)
  BY AtContainer DEF ContainerSpecs
<1>3. EnvOf(dep, idx) = {var(n) : n \in 1..Len(env)}
  BY AtOf DEF EnvOf
<1>. HIDE DEF texts, kind, env
<1>4. \A n \in 1..Len(env) : env[n].name \in DOMAIN Label
  <2>1. \A x \in V : x.name \in DOMAIN Label
    OBVIOUS
  <2>. HIDE DEF V
  <2>. QED
    BY <1>2, <2>1
<1>5. \A n \in 1..Len(env) : Stored(env[n].name) \in Labels /\ "env" \in Labels
  BY <1>4, LabelsNamed DEF Parts
<1>6. ASSUME NEW n \in 1..Len(env)
      PROVE  <<add(n).path, add(n).value>> = var(n)
  <2>1. add(n).path = <<ObjectIn(dep), Ctr(dep, idx), "env", Stored(env[n].name)>>
    BY <1>5, PathsHere
  <2>2. add(n).value = Value(kind(n), idx, "env", env[n].name, texts(n))
    OBVIOUS
  <2>. HIDE DEF add
  <2>. QED
    BY <2>1, <2>2, ValueAssigned
<1>7. Len(env) \in Nat
  <2>. HIDE DEF V
  <2>. QED
    BY <1>2
<1>. HIDE DEF add, var
<1>8. Len(EnvAdds) = Len(env) /\ \A n \in 1..Len(env) : EnvAdds[n] = add(n)
  BY <1>1, <1>7
<1>9. Expected(EnvAdds) = {var(n) : n \in 1..Len(env)}
  BY <1>6, <1>8 DEF Expected
<1>. QED
  BY <1>3, <1>9

LEMMA ResourceAddsAre ==
    ASSUME DeploymentsAssumption, given \in Seq(DeploymentSpecs), dep \in 1..Len(given),
           idx \in 1..Len(Containers), NEW kind \in {"requests", "limits"},
           NEW resources \in SUBSET DOMAIN Label
    PROVE  Expected(ResourceAdds(kind, resources)) = ResourcesOf(dep, idx, kind, Listed(resources))
<1> DEFINE names == SetToSeq(resources)
           texts == <<InString(Quantity, StrconvQuote(Quantity))>>
           resource(x) == Assign(<<ObjectIn(dep), Ctr(dep, idx), "resources", kind, Label[x]>>, "atom",
                                 From(dep, idx, kind, x, texts))
           add(n) == [schema |-> Expr("#ResourceList"),
                      path |-> CtrPath(<<"resources", kind, Label[names[n]]>>),
                      value |-> Value("atom", idx, kind, names[n], texts)]
           adds == ResourceAdds(kind, resources)
<1>1. adds = [n \in 1..Len(names) |-> add(n)]
  BY DEF ResourceAdds
<1>2. names \in Seq(resources) /\ Len(names) \in Nat
  <2>1. IsFiniteSet(resources)
    BY FS_Subset DEF DeploymentsAssumption
  <2>. QED
    BY <2>1, SequenceOfSet
<1>3. ResourcesOf(dep, idx, kind, Listed(resources)) = {resource(x) : x \in ToSet(names)}
  BY DEF ResourcesOf, Listed
<1>. HIDE DEF names, texts
<1>4. \A n \in 1..Len(names) : names[n] \in DOMAIN Label
  BY <1>2
<1>5. /\ \A n \in 1..Len(names) : Label[names[n]] \in Labels
      /\ "resources" \in Labels /\ kind \in Labels
  BY <1>4, LabelsNamed DEF Parts
<1>6. ASSUME NEW n \in 1..Len(names)
      PROVE  <<add(n).path, add(n).value>> = resource(names[n])
  <2>1. add(n).path = <<ObjectIn(dep), Ctr(dep, idx), "resources", kind, Label[names[n]]>>
    BY <1>5, PathsHere
  <2>2. add(n).value = Value("atom", idx, kind, names[n], texts)
    OBVIOUS
  <2>. HIDE DEF add
  <2>. QED
    BY <2>1, <2>2, ValueAssigned
<1>. HIDE DEF add, resource, adds
<1>7. Len(adds) = Len(names) /\ \A n \in 1..Len(names) : adds[n] = add(n)
  BY <1>1, <1>2
<1>8. Expected(adds) = {resource(names[n]) : n \in 1..Len(names)}
  BY <1>6, <1>7 DEF Expected
<1>9. ToSet(names) = {names[n] : n \in 1..Len(names)}
  BY <1>2 DEF ToSet
<1>10. {resource(names[n]) : n \in 1..Len(names)} = {resource(x) : x \in ToSet(names)}
  BY <1>9
<1>. QED
  BY <1>3, <1>8, <1>10 DEF adds

LEMMA ExpectedJoin ==
    ASSUME NEW T, NEW x \in Seq(T), NEW y \in Seq(T)
    PROVE  Expected(x \o y) = Expected(x) \union Expected(y)
<1> DEFINE m == Len(x)
           n == Len(y)
           z == x \o y
<1>1. /\ m \in Nat /\ n \in Nat /\ Len(z) = m + n
      /\ \A i \in 1..m : z[i] = x[i]
      /\ \A i \in 1..n : z[m + i] = y[i]
  OBVIOUS
<1>2. Expected(x) = {<<x[i].path, x[i].value>> : i \in 1..m}
      /\ Expected(y) = {<<y[i].path, y[i].value>> : i \in 1..n}
      /\ Expected(z) = {<<z[i].path, z[i].value>> : i \in 1..Len(z)}
  BY DEF Expected
<1>. HIDE DEF m, n, z
<1>3. \A i \in 1..Len(z) : i \in 1..m \/ (i - m \in 1..n /\ i = m + (i - m))
  BY <1>1
<1>4. \A i \in 1..m : i \in 1..Len(z)
  BY <1>1
<1>5. \A i \in 1..n : m + i \in 1..Len(z)
  BY <1>1
<1>6. ASSUME NEW e \in Expected(z) PROVE e \in Expected(x) \union Expected(y)
  <2>1. PICK i \in 1..Len(z) : e = <<z[i].path, z[i].value>>
    BY <1>2
  <2>2. CASE i \in 1..m
    BY <1>1, <1>2, <2>1, <2>2
  <2>3. CASE i - m \in 1..n /\ i = m + (i - m)
    <3> DEFINE j == i - m
    <3>. HIDE DEF j
    <3>1. j \in 1..n /\ i = m + j
      BY <2>3 DEF j
    <3>2. z[i] = y[j]
      BY <1>1, <3>1
    <3>. QED
      BY <1>2, <2>1, <3>1, <3>2
  <2>. QED
    BY <1>3, <2>2, <2>3
<1>7. \A e \in Expected(x) : e \in Expected(z)
  BY <1>1, <1>2, <1>4
<1>8. ASSUME NEW e \in Expected(y) PROVE e \in Expected(z)
  <2>1. PICK i \in 1..n : e = <<y[i].path, y[i].value>>
    BY <1>2
  <2>2. m + i \in 1..Len(z) /\ z[m + i] = y[i]
    BY <1>1, <1>5
  <2>. QED
    BY <1>2, <2>1, <2>2
<1>. QED
  BY <1>6, <1>7, <1>8 DEF z

(* What may be added, where it is typed.                                      *)
TypedAdds == [schema : Schemas \union {NoSchema}, path : Paths(Labels), value : Contents]

LEMMA AddsTyped ==
    ASSUME DeploymentsAssumption, given \in Seq(DeploymentSpecs), dep \in 1..Len(given),
           idx \in 1..Len(Containers)
    PROVE  /\ EnvAdds \in Seq(TypedAdds) /\ PolicyAdds \in Seq(TypedAdds)
           /\ ResourceAdds("requests", Container.requests) \in Seq(TypedAdds)
           /\ ResourceAdds("limits", Container.limits) \in Seq(TypedAdds)
           /\ AllResourceAdds \in Seq(TypedAdds)
<1>1. \A Z, w, root : \A adds \in Seq(Adds(Z, w, root)) : adds \in Seq(TypedAdds)
  <2>. SUFFICES ASSUME NEW Z, NEW w, NEW root, NEW adds \in Seq(Adds(Z, w, root))
                PROVE  adds \in Seq(TypedAdds)
    OBVIOUS
  <2>1. Adds(Z, w, root) \subseteq TypedAdds
    BY DEF Adds, TypedAdds
  <2> DEFINE A == Adds(Z, w, root)
  <2>. HIDE DEF A, TypedAdds
  <2>2. adds \in Seq(A) /\ A \subseteq TypedAdds
    BY <2>1 DEF A
  <2>. QED
    BY <2>2
<1>2. EnvAdds \in Seq(Adds({}, Idle, <<Stored(Depl.name), Stored(Container.name)>>))
      /\ PolicyAdds \in Seq(Adds({}, Idle, <<Stored(Depl.name), Stored(Container.name)>>))
  BY EnvAddsFit, PolicyAddsFit
<1>3. Container.requests \in SUBSET DOMAIN Label /\ Container.limits \in SUBSET DOMAIN Label
  BY AtContainer DEF ContainerSpecs
<1>4. \A kind \in {"requests", "limits"}, resources \in SUBSET DOMAIN Label :
          ResourceAdds(kind, resources)
              \in Seq(Adds({}, <<Stored(Depl.name), Stored(Container.name), "resources">>, <<Stored(Depl.name), Stored(Container.name)>>))
  BY ResourceAddsFit
<1>5. \A kind \in {"requests", "limits"}, resources \in SUBSET DOMAIN Label :
          ResourceAdds(kind, resources) \in Seq(TypedAdds)
  BY <1>1, <1>4
<1>6. /\ ResourceAdds("requests", Container.requests) \in Seq(TypedAdds)
      /\ ResourceAdds("limits", Container.limits) \in Seq(TypedAdds)
  BY <1>3, <1>5
<1>7. AllResourceAdds \in Seq(TypedAdds)
  BY <1>6, Concatenation DEF AllResourceAdds
<1>. QED
  BY <1>1, <1>2, <1>6, <1>7

LEMMA AllResourceAddsAre ==
    ASSUME DeploymentsAssumption, given \in Seq(DeploymentSpecs), dep \in 1..Len(given),
           idx \in 1..Len(Containers)
    PROVE  Expected(AllResourceAdds) = Resources(dep, idx)
<1>1. Container.requests \in SUBSET DOMAIN Label /\ Container.limits \in SUBSET DOMAIN Label
  BY AtContainer DEF ContainerSpecs
<1>2. /\ Expected(ResourceAdds("requests", Container.requests))
             = ResourcesOf(dep, idx, "requests", Listed(Container.requests))
      /\ Expected(ResourceAdds("limits", Container.limits))
             = ResourcesOf(dep, idx, "limits", Listed(Container.limits))
  BY <1>1, ResourceAddsAre
<1>3. Expected(AllResourceAdds) = Expected(ResourceAdds("requests", Container.requests))
                                      \union Expected(ResourceAdds("limits", Container.limits))
  BY AddsTyped, ExpectedJoin DEF AllResourceAdds
<1>. QED
  BY <1>2, <1>3, AtOf DEF Resources

LEMMA PolicyAddsAre ==
    ASSUME DeploymentsAssumption, given \in Seq(DeploymentSpecs), dep \in 1..Len(given),
           idx \in 1..Len(Containers)
    PROVE  \A a \in Expected(PolicyAdds) :
              a \in PartsOf(dep, idx) /\ PathOf(a)[3] = "imagePullPolicy" /\ Len(PathOf(a)) = 3
<1> DEFINE texts == Quoted(<<Container.policy>>)
           path == <<ObjectIn(dep), Ctr(dep, idx), "imagePullPolicy">>
           value == Value("atom", idx, "imagePullPolicy", "", texts)
           add == [schema |-> Expr("#PullPolicy"), path |-> path, value |-> value]
<1>1. "imagePullPolicy" \in Labels
  BY LabelsNamed DEF Parts
<1>2. PolicyAdds = << >> \/ PolicyAdds = <<add>>
  <2>1. CtrPath(<<"imagePullPolicy">>) = path
    BY <1>1, PathsHere
  <2>. QED
    BY <2>1 DEF PolicyAdds, CtrValue
<1>3. <<path, value>> = Assign(path, "atom", From(dep, idx, "imagePullPolicy", "", texts))
  BY DEF Value, Assign, From
<1>4. <<path, value>> \in PartsOf(dep, idx)
  BY <1>3, AtOf DEF PartsOf
<1>5. path[3] = "imagePullPolicy" /\ Len(path) = 3
  OBVIOUS
<1>6. add.path = path /\ add.value = value
  OBVIOUS
<1>. HIDE DEF add, path, value
<1>7. Expected(PolicyAdds) \subseteq {<<path, value>>}
  <2>1. CASE PolicyAdds = << >>
    <3>1. Len(PolicyAdds) = 0
      BY <2>1
    <3>. QED
      BY <3>1 DEF Expected
  <2>2. CASE PolicyAdds = <<add>>
    <3>1. Len(PolicyAdds) = 1 /\ PolicyAdds[1] = add
      BY <2>2
    <3>. QED
      BY <1>6, <3>1 DEF Expected
  <2>. QED
    BY <1>2, <2>1, <2>2
<1>. QED
  BY <1>4, <1>5, <1>7 DEF PathOf

(* A reference that Values would leave as it is points to the container.      *)
LEMMA SettledRef ==
    ASSUME DeploymentsAssumption, given \in Seq(DeploymentSpecs), dep \in 1..Len(given),
           idx \in 1..Len(Containers), NEW x, NEW y
    PROVE  /\ CtrRef(<<x>>) = <<ObjLabel, CtrLabel, x>>
           /\ CtrRef(<<x, y>>) = <<ObjLabel, CtrLabel, x, y>>
           /\ Settled(CtrRef(<<x>>)) => CtrRef(<<x>>) = <<ObjectIn(dep), Ctr(dep, idx), x>>
           /\ Settled(CtrRef(<<x, y>>)) =>
                 /\ CtrRef(<<x, y>>) = <<ObjectIn(dep), Ctr(dep, idx), x, y>>
                 /\ y \in DOMAIN Again => Again[y] = y
<1> DEFINE o == ObjLabel
           c == CtrLabel
           L == {o, c, x, y}
<1>1. /\ o \in DOMAIN Again /\ Again[o] = ObjectIn(dep)
      /\ c \in DOMAIN Again /\ Again[c] = Ctr(dep, idx)
  <2>1. Depl.name \in DOMAIN Label /\ Container.name \in DOMAIN Label
    BY AtDeployment, AtContainer DEF ContainerSpecs
  <2>2. /\ Label[Depl.name] \in DOMAIN Again /\ Label[Container.name] \in DOMAIN Again
    BY <2>1 DEF DeploymentsAssumption
  <2>. QED
    BY <2>2, AtOf DEF ObjLabel, CtrLabel, Stored
<1>2. CtrRef(<<x>>) = <<o, c>> \o <<x>> /\ CtrRef(<<x, y>>) = <<o, c>> \o <<x, y>>
  BY DEF CtrRef
<1>3. o \in L /\ c \in L /\ x \in L /\ y \in L
  OBVIOUS
<1>. HIDE DEF o, c, L
<1>4. CtrRef(<<x>>) = <<o, c, x>> /\ CtrRef(<<x, y>>) = <<o, c, x, y>>
  <2>1. <<o, c>> \o <<x>> = <<o, c, x>>
    BY <1>3, BelowPair3
  <2>2. <<o, c>> \o <<x, y>> = <<o, c, x, y>>
    BY <1>3, BelowPair4
  <2>. QED
    BY <1>2, <2>1, <2>2
<1>5. ASSUME NEW p, p = <<o, c, x>> \/ p = <<o, c, x, y>>, Settled(p)
      PROVE  o = ObjectIn(dep) /\ c = Ctr(dep, idx)
  <2>1. 1 \in 1..Len(p) /\ 2 \in 1..Len(p) /\ p[1] = o /\ p[2] = c
    <3>1. /\ Len(<<o, c, x>>) = 3 /\ <<o, c, x>>[1] = o /\ <<o, c, x>>[2] = c
          /\ Len(<<o, c, x, y>>) = 4 /\ <<o, c, x, y>>[1] = o /\ <<o, c, x, y>>[2] = c
      OBVIOUS
    <3>2. Len(p) \in {3, 4} /\ p[1] = o /\ p[2] = c
      BY <1>5, <3>1
    <3>. QED
      BY <3>2
  <2>. QED
    BY <1>1, <1>5, <2>1 DEF Settled
<1>6. ASSUME Settled(<<o, c, x, y>>) PROVE y \in DOMAIN Again => Again[y] = y
  <2> DEFINE p == <<o, c, x, y>>
  <2>1. 4 \in 1..Len(p) /\ p[4] = y
    OBVIOUS
  <2>. QED
    BY <1>6, <2>1 DEF Settled
<1>7. Settled(<<o, c, x>>) => o = ObjectIn(dep) /\ c = Ctr(dep, idx)
  BY <1>5
<1>8. Settled(<<o, c, x, y>>) => o = ObjectIn(dep) /\ c = Ctr(dep, idx)
  BY <1>5
<1>9. CtrRef(<<x>>) = <<ObjLabel, CtrLabel, x>> /\ CtrRef(<<x, y>>) = <<ObjLabel, CtrLabel, x, y>>
  BY <1>4 DEF o, c
<1>10. Settled(CtrRef(<<x>>)) => CtrRef(<<x>>) = <<ObjectIn(dep), Ctr(dep, idx), x>>
  BY <1>4, <1>7
<1>11. Settled(CtrRef(<<x, y>>)) =>
          /\ CtrRef(<<x, y>>) = <<ObjectIn(dep), Ctr(dep, idx), x, y>>
          /\ y \in DOMAIN Again => Again[y] = y
  BY <1>4, <1>6, <1>8
<1>. QED
  BY <1>9, <1>10, <1>11

LEMMA SettledObject ==
    ASSUME DeploymentsAssumption, given \in Seq(DeploymentSpecs), dep \in 1..Len(given), NEW x,
           Settled(ObjPath(x))
    PROVE  ObjPath(x) = PodPath(x)
<1> DEFINE p == ObjPath(x)
<1>1. p = <<ObjLabel, x>> /\ PodPath(x) = <<Stored(Depl.name), x>>
  BY DEF ObjPath, PodPath
<1>2. ObjLabel \in DOMAIN Again /\ Again[ObjLabel] = Stored(Depl.name)
  BY AtDeployment DEF DeploymentsAssumption, ObjLabel, Stored
<1>3. 1 \in 1..Len(p) /\ p[1] = ObjLabel
  BY <1>1
<1>. HIDE DEF p
<1>4. Again[ObjLabel] = ObjLabel
  <2>1. \A k \in 1..Len(p) : p[k] \in DOMAIN Again => Again[p[k]] = p[k]
    BY DEF Settled, p
  <2>. QED
    BY <1>2, <1>3, <2>1
<1>. QED
  BY <1>1, <1>2, <1>4 DEF p

LEMMA EnvAddsAt ==
    ASSUME DeploymentsAssumption, given \in Seq(DeploymentSpecs), dep \in 1..Len(given),
           idx \in 1..Len(Containers)
    PROVE  /\ Len(EnvAdds) = Len(Container.env)
           /\ \A n \in 1..Len(Container.env) :
                 /\ Container.env[n].name \in DOMAIN Label
                 /\ EnvAdds[n].path =
                       <<ObjectIn(dep), Ctr(dep, idx), "env", Stored(Container.env[n].name)>>
<1> DEFINE env == Container.env
           path(n) == CtrPath(<<"env", Stored(env[n].name)>>)
           add(n) == [schema |-> Expr("string"), path |-> path(n),
                      value |-> Value(TextKind(env[n].value), idx, "env", env[n].name,
                                      Quoted(<<env[n].value>>))]
           V == [name : DOMAIN Label, value : Texts]
<1>1. EnvAdds = [n \in 1..Len(env) |-> add(n)]
  BY DEF EnvAdds
<1>2. env \in Seq(V)
  BY AtContainer DEF ContainerSpecs
<1>3. \A x \in V : x.name \in DOMAIN Label
  OBVIOUS
<1>4. \A n : add(n).path = path(n)
  OBVIOUS
<1>. HIDE DEF env, add, V, path
<1>5. Len(env) \in Nat /\ \A n \in 1..Len(env) : env[n].name \in DOMAIN Label
  BY <1>2, <1>3
<1>6. Len(EnvAdds) = Len(env) /\ \A n \in 1..Len(env) : EnvAdds[n] = add(n)
  BY <1>1, <1>5
<1>7. \A n \in 1..Len(env) :
          path(n) = <<ObjectIn(dep), Ctr(dep, idx), "env", Stored(env[n].name)>>
  BY <1>5, LabelsNamed, PathsHere DEF Parts, path
<1>. QED
  BY <1>4, <1>5, <1>6, <1>7 DEF env

(* What a template refers to when they are added: paths of the labels of its  *)
(* own conversion, at the values if it is the only one.                       *)
LEMMA RefsOfAdds ==
    ASSUME DeploymentsAssumption, given \in Seq(DeploymentSpecs), dep \in 1..Len(given),
           idx \in 1..Len(Containers), NEW r \in EnvRefs \union PolicyRefs
    PROVE  /\ r.expected \subseteq Expected(EnvAdds) \union Expected(PolicyAdds)
           /\ Reaches(r)
<1>1. CASE r \in EnvRefs
  <2>1. PICK n \in 1..Len(Container.env) :
            r = Ref(CtrRef(<<"env", Label[Container.env[n].name]>>),
                    {<<EnvAdds[n].path, EnvAdds[n].value>>})
    BY <1>1 DEF EnvRefs
  <2> DEFINE label == Label[Container.env[n].name]
             a == <<EnvAdds[n].path, EnvAdds[n].value>>
             there == <<ObjectIn(dep), Ctr(dep, idx), "env", Stored(Container.env[n].name)>>
  <2>2. Len(EnvAdds) = Len(Container.env) /\ PathOf(a) = there
    BY EnvAddsAt DEF PathOf
  <2>3. a \in Expected(EnvAdds)
    BY <2>2 DEF Expected
  <2>4. label \in DOMAIN Again /\ Again[label] = Stored(Container.env[n].name)
    BY EnvAddsAt DEF Stored, DeploymentsAssumption
  <2>5. r.path = CtrRef(<<"env", label>>) /\ r.expected = {a}
    BY <2>1 DEF Ref
  <2>. HIDE DEF a, label
  <2>6. Settled(r.path) => r.path = there
    <3>1. Settled(CtrRef(<<"env", label>>)) =>
              /\ CtrRef(<<"env", label>>) = <<ObjectIn(dep), Ctr(dep, idx), "env", label>>
              /\ label \in DOMAIN Again => Again[label] = label
      BY SettledRef
    <3>. QED
      BY <2>4, <2>5, <3>1
  <2>. QED
    BY <2>2, <2>3, <2>5, <2>6 DEF Reaches, RefersTo
<1>2. CASE r \in PolicyRefs
  <2>1. Container.policy # << >>
        /\ r = Ref(CtrRef(<<"imagePullPolicy">>), Expected(PolicyAdds))
    BY <1>2 DEF PolicyRefs
  <2> DEFINE path == CtrPath(<<"imagePullPolicy">>)
             a == <<path, CtrValue("atom", "imagePullPolicy", <<Container.policy>>)>>
  <2>2. Expected(PolicyAdds) = {a}
    <3> DEFINE add == [schema |-> Expr("#PullPolicy"), path |-> path,
                       value |-> CtrValue("atom", "imagePullPolicy", <<Container.policy>>)]
    <3>1. PolicyAdds = <<add>> /\ <<add.path, add.value>> = a
      BY <2>1 DEF PolicyAdds
    <3>. HIDE DEF add, a
    <3>2. Len(PolicyAdds) = 1 /\ PolicyAdds[1] = add
      BY <3>1
    <3>. QED
      BY <3>1, <3>2 DEF Expected
  <2>3. PathOf(a) = <<ObjectIn(dep), Ctr(dep, idx), "imagePullPolicy">>
    BY LabelsNamed, PathsHere DEF PathOf, Parts
  <2>4. r.path = CtrRef(<<"imagePullPolicy">>) /\ r.expected = {a}
    BY <2>1, <2>2 DEF Ref
  <2>. HIDE DEF a
  <2>5. Settled(r.path) => r.path = PathOf(a)
    BY <2>3, <2>4, SettledRef
  <2>. QED
    BY <2>2, <2>4, <2>5 DEF Reaches, RefersTo
<1>. QED
  BY <1>1, <1>2

-----------------------------------------------------------------------------
(* Nothing in the schema is in the way of a container                         *)

(* What is set in the schema above or in the container c of o is in a part of *)
(* it among X.                                                                *)
OpenFor(config, o, c, X) ==
    \A q \in Leaves(config) :
        q[1] = o => Len(q) >= 2 /\ (q[2] = c => Len(q) >= 3 /\ q[3] \in X)

LEMMA Clears ==
    ASSUME NEW config, IsSchema(config), NEW o, NEW c, NEW X, OpenFor(config, o, c, X),
           NEW path \in Paths(Labels), path[1] = o, path[2] = c, Len(path) >= 3,
           Len(path) = 3 \/ path[3] \notin X
    PROVE  \A q \in Leaves(config) : q \notin StrictPrefixes(path)
<1>. SUFFICES ASSUME NEW q \in Leaves(config), q \in StrictPrefixes(path)
              PROVE  FALSE
  OBVIOUS
<1>1. path \in Seq(Labels) /\ Len(path) \in Nat
  BY DEF Paths
<1>2. q \in Paths(Labels) /\ Len(q) < Len(path) /\ \A n \in 1..Len(q) : q[n] = path[n]
  BY <1>1, PrefixesArePaths
<1>3. Len(q) \in Nat /\ Len(q) >= 1
  BY <1>2, LenOfPath
<1>4. q[1] = o
  BY <1>2, <1>3
<1>5. Len(q) >= 2 /\ (q[2] = c => Len(q) >= 3 /\ q[3] \in X)
  BY <1>4 DEF OpenFor
<1>6. q[2] = c
  BY <1>2, <1>3, <1>5
<1>7. Len(q) >= 3 /\ q[3] \in X /\ q[3] = path[3]
  BY <1>2, <1>3, <1>5, <1>6
<1>8. Len(path) # 3
  <2> DEFINE m == Len(q)
             n == Len(path)
  <2>1. m \in Nat /\ n \in Nat /\ m >= 3 /\ m < n
    BY <1>1, <1>2, <1>3, <1>7
  <2>. HIDE DEF m, n
  <2>2. n # 3
    BY <2>1
  <2>. QED
    BY <2>2 DEF n
<1>. QED
  BY <1>7, <1>8

LEMMA StaysOpen ==
    ASSUME NEW config, NEW o, NEW c, NEW X, OpenFor(config, o, c, X), NEW new, NEW P, NEW Y,
           Leaves(new) \subseteq Leaves(config) \union P,
           \A p \in P : Len(p) \in Nat /\ Len(p) >= 3 /\ p[3] \in Y
    PROVE  OpenFor(new, o, c, X \union Y)
<1>. SUFFICES ASSUME NEW q \in Leaves(new), q[1] = o
              PROVE  Len(q) >= 2 /\ (q[2] = c => Len(q) >= 3 /\ q[3] \in X \union Y)
  BY DEF OpenFor
<1>1. CASE q \in Leaves(config)
  BY <1>1 DEF OpenFor
<1>2. CASE q \in P
  BY <1>2
<1>. QED
  BY <1>1, <1>2

(* Leaves of Values that agree are where their slots are: in the schema       *)
(* nothing is in the way of a container with a distinct label.                *)
LEMMA AgreedOpen ==
    ASSUME DeploymentsAssumption, DistinctLabels, given \in Seq(DeploymentSpecs),
           NEW i \in 1..Len(given), NEW j \in 1..Len(Ctrs(i)),
           NEW Z, NEW v, Agrees(v, Z, Idle), v.outcome = "ok"
    PROVE  /\ OpenFor(v.config, ObjectIn(i), Ctr(i, j), Labels)
           /\ \A q \in Leaves(v.config) : q[1] \in Objects(i) => Len(q) # 1
<1>1. Fit(v.config, v.values, Z, Idle) /\ IsSchema(v.config)
  BY ValuesRecord DEF Agrees
<1>2. /\ \A o \in Objects(i) : o \notin {DomainKey, "imagePullSecrets"}
      /\ ObjectIn(i) \in Objects(i)
      /\ Ctr(i, j) \notin {"replicas", "revisionHistoryLimit", "nodeSelector"}
  BY NamesDistinct DEF Objects
<1>. SUFFICES ASSUME NEW q \in Leaves(v.config), q[1] \in Objects(i)
              PROVE  /\ Len(q) >= 2 /\ (q[2] = Ctr(i, j) => Len(q) >= 3 /\ q[3] \in Labels)
                     /\ Len(q) # 1
  BY <1>2 DEF OpenFor
<1>3. q \in DOMAIN v.config /\ v.config[q].kind # "struct"
  BY DEF Leaves
<1>4. SchemaAt(q, v.config[q], Idle)
  BY <1>1, <1>3 DEF Fit, SlotsFit, SchemaSlot
<1>5. q \in Paths(Labels)
  BY <1>1, <1>3 DEF IsSchema, IsTreeOver
<1>6. Len(q) \in Nat /\ q \in Seq(Labels)
  BY <1>5, LenOfPath
<1> DEFINE m == Len(q)
<1>10. m \in Nat /\ (m >= 3 => q[3] \in Labels)
  BY <1>6
<1>. HIDE DEF m
<1>7. \/ m = 1 /\ q[1] \in {DomainKey, "imagePullSecrets"}
      \/ m = 2 /\ q[2] \in {"replicas", "revisionHistoryLimit", "nodeSelector"}
      \/ m \in {3, 4, 5}
  BY <1>4, Zenon DEF SchemaAt, Depth, ObjectOf, ContainerOf, m
<1>8. m >= 2 /\ (m = 2 => q[2] # Ctr(i, j)) /\ m # 1
  BY <1>2, <1>7, <1>10
<1>9. m >= 3 \/ m = 2
  BY <1>7, <1>8, <1>10
<1>. QED
  BY <1>8, <1>9, <1>10 DEF m

(* Where the assignments of the first containers are.                         *)
LEMMA PathsOfPod ==
    ASSUME DeploymentsAssumption, given \in Seq(DeploymentSpecs),
           NEW i \in 1..Len(given), NEW n, NEW a \in OfPod(i, n)
    PROVE  \/ a \in Pulls /\ Len(PathOf(a)) = 1
           \/ a \in Selectors(i) /\ OwnPath(PathOf(a), i)
           \/ \E j \in 1..Len(Ctrs(i)) : j <= n /\ a \in OfCtr(i, j) /\ PathInCtr(PathOf(a), i, j)
<1>1. CASE a \in Pulls
  BY <1>1, PathsOfNone DEF TopPath
<1>2. CASE a \in Selectors(i)
  BY <1>2, PathsOfOwn
<1>3. CASE \E j \in {k \in 1..Len(Ctrs(i)) : k <= n} : a \in OfCtr(i, j)
  BY <1>3, PathsOfCtr
<1>. QED
  BY <1>1, <1>2, <1>3 DEF OfPod

(* Nor is there anything of a container before it is added: the schema has    *)
(* nothing where there are no values.                                         *)
LEMMA FreshOpen ==
    ASSUME DeploymentsAssumption, DistinctLabels, given \in Seq(DeploymentSpecs),
           NEW i \in 1..Len(given), NEW j \in 1..Len(Ctrs(i)),
           NEW Z, NEW v, Agrees(v, Z, Idle), v.outcome = "ok", Made(v.values, OfPod(i, j - 1))
    PROVE  OpenFor(v.config, ObjectIn(i), Ctr(i, j), {})
<1> DEFINE o == ObjectIn(i)
           c == Ctr(i, j)
           root == <<o, c>>
<1>1. OpenFor(v.config, o, c, Labels) /\ Fit(v.config, v.values, Z, Idle) /\ IsSchema(v.config)
  BY AgreedOpen, ValuesRecord DEF Agrees
<1>2. o \in Labels /\ c \in Labels
  BY GivenLabels
<1>3. /\ \A k \in 1..Len(Ctrs(i)) : Ctr(i, k) = c => k = j
      /\ c \notin Own
  BY NamesDistinct DEF Own
<1>4. root \in Paths(Labels) /\ Depth(root) = 2 /\ root[1] = o /\ root[2] = c /\ Len(root) = 2
  BY <1>2, Path2 DEF Depth, ObjectOf, ContainerOf
<1>. HIDE DEF o, c, root
<1>5. root \notin DOMAIN v.values
  <2>. SUFFICES ASSUME root \in DOMAIN v.values PROVE FALSE
    OBVIOUS
  <2>1. PICK a \in OfPod(i, j - 1) : PathOf(a) = root \/ root \in StrictPrefixes(PathOf(a))
    BY DEF Made
  <2>2. PathOf(a) \in Seq(Labels)
    BY PathsOfNone, PathsOfOwn, PathsOfCtr DEF OfPod
  <2>3. Len(PathOf(a)) \in Nat /\ Len(PathOf(a)) >= 2 /\ PathOf(a)[2] = c
    <3>1. CASE PathOf(a) = root
      <4>1. Len(PathOf(a)) = 2 /\ PathOf(a)[2] = c
        BY ONLY <1>4, <3>1, Zenon
      <4>. QED
        BY <4>1
    <3>2. CASE root \in StrictPrefixes(PathOf(a))
      <4>1. Len(root) < Len(PathOf(a)) /\ \A n \in 1..Len(root) : root[n] = PathOf(a)[n]
        BY <2>2, <3>2, PrefixesArePaths
      <4> DEFINE m == Len(PathOf(a))
      <4>2. m \in Nat /\ 2 < m
        BY <1>4, <2>2, <4>1 DEF Depth
      <4>3. root[2] = PathOf(a)[2]
        BY <1>4, <4>1
      <4>. HIDE DEF m
      <4>4. m \in Nat /\ m >= 2
        BY <4>2
      <4>. QED
        BY <1>4, <4>3, <4>4 DEF m
    <3>. QED
      BY <2>1, <3>1, <3>2
  <2>4. PICK k \in 1..Len(Ctrs(i)) : k <= j - 1 /\ PathInCtr(PathOf(a), i, k)
    BY <1>3, <2>3, PathsOfPod DEF OwnPath
  <2>5. k = j
    BY <1>3, <2>3, <2>4 DEF PathInCtr
  <2>. QED
    BY <2>4, <2>5
<1>6. root \notin DOMAIN v.config
  BY <1>1, <1>4, <1>5 DEF Fit, Valued, HasValues
<1>. SUFFICES ASSUME NEW q \in Leaves(v.config), q[1] = o, q[2] = c, Len(q) >= 3
              PROVE  FALSE
  BY <1>1 DEF OpenFor, o, c
<1>7. q \in DOMAIN v.config /\ q \in Seq(Labels)
  BY <1>1 DEF Leaves, IsSchema, IsTreeOver, Paths
<1>8. root \in StrictPrefixes(q)
  <2>1. Len(root) < Len(q) /\ \A n \in 1..Len(root) : root[n] = q[n]
    BY <1>4, <1>7
  <2>. QED
    BY <1>4, <1>7, <2>1, PrefixByLabels
<1>9. root \in DOMAIN v.config
  BY <1>1, <1>7, <1>8 DEF IsSchema, IsTreeOver
<1>. QED
  BY <1>6, <1>9

(* What there is after assignments of container j of Deployment i, and where  *)
(* the schema of the container then is.                                       *)
CtrMade(u, v, i, j, assigned) ==
    /\ IsTyped(u) /\ u.outcome = "ok" /\ Made(u.values, OfPod(i, j))
    /\ \A b \in All : Holds(v.values, b) \/ b \in assigned => Holds(u.values, b)
CtrAdded(u, v, i, j, assigned, X) ==
    CtrMade(u, v, i, j, assigned) /\ OpenFor(u.config, ObjectIn(i), Ctr(i, j), X)

(* The additions of a container are made.                                     *)
LEMMA AddsMake ==
    ASSUME DeploymentsAssumption, DistinctLabels, given \in Seq(DeploymentSpecs),
           NEW i \in 1..Len(given), NEW j \in 1..Len(Ctrs(i)),
           NEW v, IsTyped(v), v.outcome = "ok", Made(v.values, OfPod(i, j)),
           NEW adds \in Seq(TypedAdds), Expected(adds) \subseteq OfCtr(i, j),
           NEW X, OpenFor(v.config, ObjectIn(i), Ctr(i, j), X),
           \A a \in Expected(adds) : Len(PathOf(a)) = 3 \/ PathOf(a)[3] \notin X,
           NEW Y, \A a \in Expected(adds) : PathOf(a)[3] \in Y
    PROVE  CtrAdded(AddAll(v, adds), v, i, j, Expected(adds), X \union Y)
<1> DEFINE S == OfPod(i, j)
           u == AddAll(v, adds)
           P == {adds[n].path : n \in 1..Len(adds)}
<1>1. OfCtr(i, j) \subseteq S /\ S \in SUBSET All
  <2>1. OfPod(i, j) \subseteq OfDeployment(i) /\ OfDeployment(i) \subseteq All
    BY PartOfAll
  <2>2. j \in {k \in 1..Len(Ctrs(i)) : k <= j}
    OBVIOUS
  <2>. QED
    BY <2>1, <2>2 DEF OfPod
<1>2. Apart(All) /\ Proper(All)
  BY AssignmentsApart
<1>3. Len(adds) \in Nat /\ \A n \in 1..Len(adds) : adds[n] \in TypedAdds
  <2>. HIDE DEF TypedAdds
  <2>. QED
    OBVIOUS
<1>4. \A n \in 1..Len(adds) : <<adds[n].path, adds[n].value>> \in Expected(adds)
  BY DEF Expected
<1>5. IsSchema(v.config)
  BY ValuesRecord
<1>6. ASSUME NEW n \in 1..Len(adds)
      PROVE  /\ Suits(adds[n], S, v.config)
             /\ Len(adds[n].path) \in Nat /\ Len(adds[n].path) >= 3 /\ adds[n].path[3] \in Y
  <2> DEFINE path == adds[n].path
             a == <<path, adds[n].value>>
  <2>1. a \in Expected(adds) /\ a \in OfCtr(i, j) /\ PathOf(a) = path
    BY <1>4 DEF PathOf
  <2>2. path \in Paths(Labels) /\ adds[n].value \in Contents
        /\ adds[n].schema \in Schemas \union {NoSchema}
    BY <1>3 DEF TypedAdds
  <2>. HIDE DEF a, path
  <2>3. PathInCtr(path, i, j)
    BY <2>1, PathsOfCtr
  <2>4. path[1] = ObjectIn(i) /\ path[2] = Ctr(i, j) /\ Len(path) \in Nat /\ Len(path) >= 3
    BY <2>2, <2>3, LenOfPath DEF PathInCtr
  <2>5. \A q \in Leaves(v.config) : q \notin StrictPrefixes(path)
    <3>1. Len(path) = 3 \/ path[3] \notin X
      BY <2>1
    <3> DEFINE o == ObjectIn(i)
               c == Ctr(i, j)
    <3>. HIDE DEF o, c
    <3>2. OpenFor(v.config, o, c, X) /\ path[1] = o /\ path[2] = c
      BY <2>4 DEF o, c
    <3>. QED
      BY <1>5, <2>2, <2>4, <3>1, <3>2, Clears
  <2>6. a \in S /\ path[3] \in Y
    BY <1>1, <2>1
  <2>. QED
    BY <2>2, <2>4, <2>5, <2>6 DEF Suits, path, a
<1>. HIDE DEF S
<1>7. /\ IsTyped(u) /\ u.outcome = "ok" /\ Made(u.values, S)
      /\ \A b \in All : Holds(v.values, b) \/ b \in Expected(adds) => Holds(u.values, b)
      /\ Leaves(u.config) \subseteq Leaves(v.config) \union P
  <2> DEFINE A == All
  <2>1. Apart(A) /\ Proper(A) /\ S \in SUBSET A
    BY <1>1, <1>2
  <2>. HIDE DEF A
  <2>2. Made(v.values, S)
    BY DEF S
  <2>3. \A n \in 1..Len(adds) : Suits(adds[n], S, v.config)
    BY <1>6
  <2>4. IsTyped(v) /\ v.outcome = "ok" /\ Len(adds) \in Nat
    BY <1>3
  <2> DEFINE w == AddAll(v, adds)
  <2>. HIDE DEF P
  <2>5. HasMade(w, v, adds, S, A)
    BY ONLY <2>1, <2>2, <2>3, <2>4, AddAllMakes
  <2>. HIDE DEF w
  <2>. QED
    BY <2>5 DEF A, P, HasMade, w
<1>. HIDE DEF u
<1>8. OpenFor(u.config, ObjectIn(i), Ctr(i, j), X \union Y)
  <2>1. \A p \in P : Len(p) \in Nat /\ Len(p) >= 3 /\ p[3] \in Y
    BY <1>6
  <2>. HIDE DEF P
  <2> DEFINE o == ObjectIn(i)
             c == Ctr(i, j)
  <2>. HIDE DEF o, c
  <2>2. OpenFor(v.config, o, c, X)
    BY DEF o, c
  <2>3. OpenFor(u.config, o, c, X \union Y)
    BY <1>7, <2>1, <2>2, StaysOpen
  <2>. QED
    BY <2>3 DEF o, c
<1>. QED
  BY <1>7, <1>8 DEF S, u, CtrAdded, CtrMade

(* A common schema of a container's part leaves the values as they are.       *)
LEMMA PartSchemaAdded ==
    ASSUME NEW o \in Labels, NEW c \in Labels, NEW x \in Labels,
           NEW v, IsTyped(v), v.outcome = "ok", NEW X, OpenFor(v.config, o, c, X),
           NEW schema \in Schemas, NEW required \in BOOLEAN
    PROVE  LET u == AddConfig(v, schema, required, <<o, c, x>>)
           IN  /\ IsTyped(u) /\ u.outcome = "ok" /\ u.values = v.values
               /\ OpenFor(u.config, o, c, X \union {x})
<1> DEFINE path == <<o, c, x>>
           node == [schema EXCEPT !.required = required]
           u == AddConfig(v, schema, required, path)
           new == Put(v.config, path, node)
<1>1. /\ path \in Paths(Labels) /\ Len(path) = 3
      /\ path[1] = o /\ path[2] = c /\ path[3] = x
  BY Path3 DEF Depth, ObjectOf, ContainerOf, PartOf
<1>. HIDE DEF path
<1>2. v = [config |-> v.config, values |-> v.values, outcome |-> v.outcome]
      /\ IsSchema(v.config)
  BY ValuesRecord
<1>3. \A q \in Leaves(v.config) : q \notin StrictPrefixes(path)
  BY <1>1, <1>2, Clears
<1>4. node \in Schemas
  BY DEF Schemas, Nodes
<1>. HIDE DEF node
<1>5. ~Blocked(v.config, path) /\ Leaves(new) \subseteq Leaves(v.config) \union {path}
  BY <1>1, <1>2, <1>3, <1>4, PutLeaves
<1>6. IsTyped(u)
  <2>1. schema \in Nodes(Definitions)
    BY DEF Schemas
  <2>. QED
    BY <1>1, <2>1, EmptyOrigins, AddConfigKeepsValues DEF IsTyped
<1>7. u = [v EXCEPT !.config = new]
  BY <1>5 DEF AddConfig, node
<1>. HIDE DEF new
<1>8. u.outcome = "ok" /\ u.values = v.values /\ u.config = new
  BY <1>2, <1>7
<1>. HIDE DEF u
<1>9. OpenFor(u.config, o, c, X \union {x})
  <2>1. Leaves(u.config) \subseteq Leaves(v.config) \union {path}
    BY <1>5, <1>8
  <2>2. ASSUME NEW p \in {path} PROVE Len(p) \in Nat /\ Len(p) >= 3 /\ p[3] \in {x}
    <3>1. 3 \in Nat /\ 3 >= 3
      OBVIOUS
    <3>. QED
      BY <1>1, <3>1, Zenon
  <2>. QED
    BY <2>1, <2>2, StaysOpen
<1>10. /\ IsTyped(u) /\ u.outcome = "ok" /\ u.values = v.values
       /\ OpenFor(u.config, o, c, X \union {x})
  BY <1>6, <1>8, <1>9
<1>. QED
  BY <1>10 DEF u, path

(* The part of a container an assignment is in.                               *)
LEMMA PartOfAssignment ==
    ASSUME DeploymentsAssumption, given \in Seq(DeploymentSpecs),
           NEW i \in 1..Len(given), NEW j \in 1..Len(Ctrs(i))
    PROVE  /\ \A a \in ImageOfCtr(i, j) : PathOf(a)[3] = "image"
           /\ \A a \in EnvOf(i, j) : PathOf(a)[3] = "env"
           /\ \A a \in Resources(i, j) : PathOf(a)[3] = "resources"
<1> DEFINE o == ObjectIn(i)
           c == Ctr(i, j)
<1>1. \A x : <<o, c, "image", x>>[3] = "image" /\ <<o, c, "env", x>>[3] = "env"
  OBVIOUS
<1>2. \A x, y : <<o, c, "resources", x, y>>[3] = "resources"
  OBVIOUS
<1>3. ASSUME NEW a \in ImageOfCtr(i, j) PROVE \E x : PathOf(a) = <<o, c, "image", x>>
  <2> DEFINE of(f) == From(i, j, f, "", <<ImagePart(Split(Quote(Ctrs(i)[j].image))[f])>>)
  <2>1. PICK f \in {"repository", "tag", "digest"} : a = Assign(<<o, c, "image", f>>, "atom", of(f))
    BY DEF ImageOfCtr
  <2>. HIDE DEF of
  <2>. QED
    BY <2>1 DEF Assign, PathOf
<1>4. ASSUME NEW a \in EnvOf(i, j) PROVE \E x : PathOf(a) = <<o, c, "env", x>>
  <2> DEFINE env == Ctrs(i)[j].env
             of(n) == From(i, j, "env", env[n].name, Quoted(<<env[n].value>>))
             kind(n) == TextKind(env[n].value)
  <2>1. PICK n \in 1..Len(env) : a = Assign(<<o, c, "env", Stored(env[n].name)>>, kind(n), of(n))
    BY DEF EnvOf
  <2>. HIDE DEF of, kind, env
  <2>. QED
    BY <2>1 DEF Assign, PathOf
<1>5. ASSUME NEW a \in Resources(i, j) PROVE \E x, y : PathOf(a) = <<o, c, "resources", x, y>>
  <2> DEFINE of(kind, n) == From(i, j, kind, n, <<InString(Quantity, StrconvQuote(Quantity))>>)
  <2>1. PICK kind \in {"requests", "limits"} :
            \E n : a = Assign(<<o, c, "resources", kind, Label[n]>>, "atom", of(kind, n))
    BY DEF Resources, ResourcesOf
  <2>2. PICK n : a = Assign(<<o, c, "resources", kind, Label[n]>>, "atom", of(kind, n))
    BY <2>1
  <2>. HIDE DEF of
  <2>. QED
    BY <2>2 DEF Assign, PathOf
<1>. HIDE DEF o, c
<1>6. ASSUME NEW a \in ImageOfCtr(i, j) PROVE PathOf(a)[3] = "image"
  BY <1>1, <1>3
<1>7. ASSUME NEW a \in EnvOf(i, j) PROVE PathOf(a)[3] = "env"
  BY <1>1, <1>4
<1>8. ASSUME NEW a \in Resources(i, j) PROVE PathOf(a)[3] = "resources"
  BY <1>2, <1>5
<1>. QED
  BY <1>6, <1>7, <1>8

LEMMA PodContainerMakes ==
    ASSUME DeploymentsAssumption, DistinctLabels, given \in Seq(DeploymentSpecs),
           dep \in 1..Len(given), idx \in 1..Len(Containers), Splittable(Quote(Container.image)),
           NEW Z, NEW v, Agrees(v, Z, Idle), v.outcome = "ok", Made(v.values, OfPod(dep, idx - 1))
    PROVE  CtrMade(PodContainerValues(v, Split(Quote(Container.image))), v, dep, idx,
                   ImageOfCtr(dep, idx) \union EnvOf(dep, idx) \union Resources(dep, idx)
                       \union Expected(PolicyAdds))
<1> DEFINE parts == Split(Quote(Container.image))
           images == ImageAdds(parts)
           others == EnvAdds \o AllResourceAdds
           v1 == AddAll(v, images)
           v2 == ImageSchema(v1)
           v3 == AddAll(v2, others)
           v4 == ResourcesSchema(v3)
           v5 == AddAll(v4, PolicyAdds)
           o == ObjectIn(dep)
           c == Ctr(dep, idx)
           S == OfPod(dep, idx)
<1>1. idx \in 1..Len(Ctrs(dep)) /\ Len(Ctrs(dep)) \in Nat
  BY AtOf, AtDeployment
<1>2. o \in Labels /\ c \in Labels
  BY <1>1, GivenLabels
<1>3. Expected(images) = ImageOfCtr(dep, idx)
  BY ImageAddsAre
<1>4. Expected(others) = EnvOf(dep, idx) \union Resources(dep, idx)
  BY AddsTyped, ExpectedJoin, EnvAddsAre, AllResourceAddsAre
<1>5. images \in Seq(TypedAdds) /\ others \in Seq(TypedAdds) /\ PolicyAdds \in Seq(TypedAdds)
  <2>1. others \in Seq(TypedAdds) /\ PolicyAdds \in Seq(TypedAdds)
    BY AddsTyped, Concatenation
  <2>2. \A field \in {"repository", "tag", "digest"} : parts[field] \in Seq(Chars)
    <3>1. Container.image \in Texts
      BY AtContainer DEF ContainerSpecs
    <3>. QED
      BY <3>1, SplitTyped, TextsAreChars
  <2>3. Len(images) = 3 /\ \A n \in 1..3 : FitsAdd(images[n], Z, <<Stored(Depl.name), Stored(Container.name), "image">>)
    BY <2>2, ImageAddsFit
  <2> DEFINE field(n) == <<"repository", "tag", "digest">>[n]
             path(n) == CtrPath(<<"image", field(n)>>)
             value(n) == Value("atom", idx, field(n), "", <<ImagePart(parts[field(n)])>>)
             add(n) == [schema |-> NoSchema, path |-> path(n), value |-> value(n)]
  <2>4. images = [n \in 1..3 |-> add(n)]
    BY DEF ImageAdds
  <2>. HIDE DEF path, value
  <2>5. \A n \in 1..3 : images[n] = add(n)
    <3>. HIDE DEF add, images
    <3>. QED
      BY <2>4
  <2>6. ASSUME NEW n \in 1..3 PROVE images[n] \in TypedAdds
    <3>1. images[n] = [schema |-> images[n].schema, path |-> images[n].path, value |-> images[n].value]
          /\ images[n].schema = NoSchema
      <4>. HIDE DEF images
      <4>. QED
        BY <2>5
    <3>2. images[n].path \in Paths(Labels) /\ images[n].value \in Contents
      BY <2>3 DEF FitsAdd
    <3>. HIDE DEF images
    <3>. QED
      BY <3>1, <3>2 DEF TypedAdds
  <2>. HIDE DEF images, add
  <2>7. images \in Seq(TypedAdds)
    BY <2>4, <2>5, <2>6
  <2>. QED
    BY <2>1, <2>7
<1>6. /\ \A a \in ImageOfCtr(dep, idx) : a \in OfCtr(dep, idx) /\ PathOf(a)[3] = "image"
      /\ \A a \in EnvOf(dep, idx) : a \in OfCtr(dep, idx) /\ PathOf(a)[3] = "env"
      /\ \A a \in Resources(dep, idx) : a \in OfCtr(dep, idx) /\ PathOf(a)[3] = "resources"
  BY <1>1, PartOfAssignment DEF OfCtr
<1>7. OpenFor(v.config, o, c, {}) /\ IsTyped(v) /\ Made(v.values, S)
  <2>1. OfPod(dep, idx - 1) \subseteq OfPod(dep, idx)
    BY <1>1 DEF OfPod
  <2>. QED
    BY <1>1, <2>1, FreshOpen, MadeOfMore DEF Agrees
<1>. HIDE DEF images, others, o, c
<1> DEFINE X1 == {}
           X2 == X1 \union {"image"}
           X3 == X2 \union {"image"}
           X4 == X3 \union {"env", "resources"}
           X5 == X4 \union {"resources"}
           X6 == X5 \union {"imagePullPolicy"}
<1>8. CtrAdded(v1, v, dep, idx, ImageOfCtr(dep, idx), X2)
  <2> DEFINE Y == {"image"}
  <2>1. /\ Expected(images) \subseteq OfCtr(dep, idx)
        /\ \A a \in Expected(images) : Len(PathOf(a)) = 3 \/ PathOf(a)[3] \notin X1
        /\ \A a \in Expected(images) : PathOf(a)[3] \in Y
    BY <1>3, <1>6
  <2>2. OpenFor(v.config, ObjectIn(dep), Ctr(dep, idx), X1)
    BY <1>7 DEF o, c
  <2>. HIDE DEF X1, Y
  <2>3. CtrAdded(v1, v, dep, idx, Expected(images), X1 \union Y)
    BY <1>1, <1>5, <1>7, <2>1, <2>2, AddsMake
  <2>. QED
    BY <1>3, <2>3 DEF Y
<1>. HIDE DEF v1
<1>9. IsTyped(v2) /\ v2.outcome = "ok" /\ v2.values = v1.values /\ OpenFor(v2.config, o, c, X3)
  <2>1. CtrPath(<<"image">>) = <<o, c, "image">> /\ "image" \in Labels
    BY LabelsNamed, PathsHere DEF Parts, o, c
  <2>2. Expr("#Image") \in Schemas /\ TRUE \in BOOLEAN
    BY DefinitionsNamed, ExprTyped
  <2>3. IsTyped(v1) /\ v1.outcome = "ok" /\ OpenFor(v1.config, o, c, X2)
    BY <1>8 DEF CtrAdded, CtrMade, o, c
  <2>. HIDE DEF X1, X2
  <2> DEFINE schema == Expr("#Image")
             u == AddConfig(v1, schema, TRUE, <<o, c, "image">>)
  <2>. HIDE DEF schema
  <2>4. IsTyped(u) /\ u.outcome = "ok" /\ u.values = v1.values
        /\ OpenFor(u.config, o, c, X2 \union {"image"})
    <3>1. schema \in Schemas
      BY <2>2 DEF schema
    <3>. QED
      BY <1>2, <2>1, <2>2, <2>3, <3>1, PartSchemaAdded
  <2>. QED
    BY <2>1, <2>4 DEF ImageSchema, schema
<1>. HIDE DEF v2
<1>10. CtrAdded(v3, v2, dep, idx, EnvOf(dep, idx) \union Resources(dep, idx), X4)
  <2> DEFINE Y == {"env", "resources"}
  <2>1. /\ Expected(others) \subseteq OfCtr(dep, idx)
        /\ \A a \in Expected(others) : Len(PathOf(a)) = 3 \/ PathOf(a)[3] \notin X3
        /\ \A a \in Expected(others) : PathOf(a)[3] \in Y
    BY <1>4, <1>6
  <2>2. OpenFor(v2.config, ObjectIn(dep), Ctr(dep, idx), X3)
    BY <1>9 DEF o, c
  <2>3. Made(v2.values, OfPod(dep, idx))
    BY <1>8, <1>9 DEF CtrAdded, CtrMade
  <2>. HIDE DEF X1, X2, X3, Y
  <2>4. CtrAdded(v3, v2, dep, idx, Expected(others), X3 \union Y)
    BY <1>1, <1>5, <1>9, <2>1, <2>2, <2>3, AddsMake
  <2>. QED
    BY <1>4, <2>4 DEF Y
<1>. HIDE DEF v3
<1>11. IsTyped(v4) /\ v4.outcome = "ok" /\ v4.values = v3.values /\ OpenFor(v4.config, o, c, X5)
  <2>1. CtrPath(<<"resources">>) = <<o, c, "resources">> /\ "resources" \in Labels
    BY LabelsNamed, PathsHere DEF Parts, o, c
  <2>2. Expr("#ResourceRequirements") \in Schemas /\ FALSE \in BOOLEAN
    BY DefinitionsNamed, ExprTyped
  <2>3. IsTyped(v3) /\ v3.outcome = "ok" /\ OpenFor(v3.config, o, c, X4)
    BY <1>10 DEF CtrAdded, CtrMade, o, c
  <2>. HIDE DEF X1, X2, X3, X4
  <2> DEFINE schema == Expr("#ResourceRequirements")
             u == AddConfig(v3, schema, FALSE, <<o, c, "resources">>)
  <2>. HIDE DEF schema
  <2>4. IsTyped(u) /\ u.outcome = "ok" /\ u.values = v3.values
        /\ OpenFor(u.config, o, c, X4 \union {"resources"})
    <3>1. schema \in Schemas
      BY <2>2 DEF schema
    <3>. QED
      BY <1>2, <2>1, <2>2, <2>3, <3>1, PartSchemaAdded
  <2>. QED
    BY <2>1, <2>4 DEF ResourcesSchema, schema
<1>. HIDE DEF v4
<1>12. CtrAdded(v5, v4, dep, idx, Expected(PolicyAdds), X6)
  <2> DEFINE Y == {"imagePullPolicy"}
  <2>1. \A a \in Expected(PolicyAdds) :
            a \in PartsOf(dep, idx) /\ PathOf(a)[3] = "imagePullPolicy" /\ Len(PathOf(a)) = 3
    BY PolicyAddsAre
  <2>2. /\ Expected(PolicyAdds) \subseteq OfCtr(dep, idx)
        /\ \A a \in Expected(PolicyAdds) : Len(PathOf(a)) = 3 \/ PathOf(a)[3] \notin X5
        /\ \A a \in Expected(PolicyAdds) : PathOf(a)[3] \in Y
    BY <2>1 DEF OfCtr
  <2>3. OpenFor(v4.config, ObjectIn(dep), Ctr(dep, idx), X5)
    BY <1>11 DEF o, c
  <2>4. Made(v4.values, OfPod(dep, idx))
    BY <1>10, <1>11 DEF CtrAdded, CtrMade
  <2>. HIDE DEF X1, X2, X3, X4, X5, Y
  <2>5. CtrAdded(v5, v4, dep, idx, Expected(PolicyAdds), X5 \union Y)
    BY <1>1, <1>5, <1>11, <2>2, <2>3, <2>4, AddsMake
  <2>. QED
    BY <2>5 DEF Y
<1>. HIDE DEF v5, S, X1, X2, X3, X4, X5, X6
<1>13. IsTyped(v5) /\ v5.outcome = "ok" /\ Made(v5.values, OfPod(dep, idx))
  BY <1>12 DEF CtrAdded, CtrMade
<1>14. ASSUME NEW b \in All,
              Holds(v.values, b) \/ b \in ImageOfCtr(dep, idx) \union EnvOf(dep, idx)
                  \union Resources(dep, idx) \union Expected(PolicyAdds)
       PROVE  Holds(v5.values, b)
  <2>1. Holds(v.values, b) \/ b \in ImageOfCtr(dep, idx) => Holds(v2.values, b)
    BY <1>8, <1>9 DEF CtrAdded, CtrMade
  <2>2. Holds(v2.values, b) \/ b \in EnvOf(dep, idx) \union Resources(dep, idx) => Holds(v4.values, b)
    BY <1>10, <1>11 DEF CtrAdded, CtrMade
  <2>3. Holds(v4.values, b) \/ b \in Expected(PolicyAdds) => Holds(v5.values, b)
    BY <1>12 DEF CtrAdded, CtrMade
  <2>. QED
    BY <1>14, <2>1, <2>2, <2>3
<1>15. PodContainerValues(v, parts) = v5
  BY DEF PodContainerValues, v1, v2, v3, v4, v5, images, others
<1>. QED
  BY <1>13, <1>14, <1>15 DEF CtrMade

-----------------------------------------------------------------------------
(* Steps                                                                      *)

(* What is assigned does not change: the Deployments are those of the run.    *)
LEMMA AssignmentsStay ==
    ASSUME given' = given
    PROVE  /\ \A i : Ctrs(i)' = Ctrs(i)
           /\ \A i : Scalars(i)' = Scalars(i) /\ OfDeployment(i)' = OfDeployment(i)
           /\ \A i, n : OfPod(i, n)' = OfPod(i, n)
           /\ \A i, j : Resources(i, j)' = Resources(i, j)
           /\ \A n : OfDeployments(n)' = OfDeployments(n)
           /\ All' = All
<1>1. \A i : Ctrs(i)' = Ctrs(i) /\ Object(i)' = Object(i) /\ ObjectIn(i)' = ObjectIn(i)
  BY DEF Ctrs, Object, ObjectIn
<1>2. \A i, j : Ctr(i, j)' = Ctr(i, j)
  BY <1>1 DEF Ctr
<1>3. \A i : Scalars(i)' = Scalars(i)
  BY <1>1 DEF Scalars
<1>4. \A i : Selectors(i)' = Selectors(i)
  BY <1>1 DEF Selectors
<1>5. \A i, j : ImageOfCtr(i, j)' = ImageOfCtr(i, j)
  BY <1>1, <1>2 DEF ImageOfCtr
<1>6. ASSUME NEW i, NEW j
      PROVE  EnvOf(i, j)' = EnvOf(i, j)
  <2> DEFINE object == ObjectIn(i)
             ctr == Ctr(i, j)
             env == Ctrs(i)[j].env
  <2>1. object' = object /\ ctr' = ctr /\ env' = env
    BY <1>1, <1>2
  <2>2. EnvOf(i, j) =
          {Assign(<<object, ctr, "env", Stored(env[n].name)>>, TextKind(env[n].value),
                  From(i, j, "env", env[n].name, Quoted(<<env[n].value>>))) : n \in 1..Len(env)}
    BY DEF EnvOf
  <2>3. EnvOf(i, j)' =
          {Assign(<<object', ctr', "env", Stored(env'[n].name)>>, TextKind(env'[n].value),
                  From(i, j, "env", env'[n].name, Quoted(<<env'[n].value>>))) :
              n \in 1..Len(env')}
    BY DEF EnvOf
  <2>. HIDE DEF object, ctr, env
  <2>. QED
    BY <2>1, <2>2, <2>3
<1>7. \A i, j, kind, names : ResourcesOf(i, j, kind, names)' = ResourcesOf(i, j, kind, names)
  BY <1>1, <1>2 DEF ResourcesOf
<1>8. \A i, j : Resources(i, j)' = Resources(i, j)
  BY <1>1, <1>7 DEF Resources
<1>9. \A i, j : PartsOf(i, j)' = PartsOf(i, j)
  BY <1>1, <1>2 DEF PartsOf
<1>10. \A i, j : OfCtr(i, j)' = OfCtr(i, j)
  BY <1>5, <1>6, <1>8, <1>9 DEF OfCtr
<1>11. \A i, n : OfPod(i, n)' = OfPod(i, n)
  BY <1>1, <1>4, <1>10 DEF OfPod
<1>12. \A i : OfDeployment(i)' = OfDeployment(i)
  BY <1>1, <1>3, <1>11 DEF OfDeployment
<1>13. \A n : OfDeployments(n)' = OfDeployments(n)
  BY <1>12 DEF OfDeployments
<1>14. All' = All
  BY <1>13 DEF All
<1>. QED
  BY <1>1, <1>3, <1>8, <1>11, <1>12, <1>13, <1>14

LEMMA DistinctLabelsStay ==
    ASSUME given' = given
    PROVE  DistinctLabels' <=> DistinctLabels
  BY DEF DistinctLabels

(* References that a step of the current Deployment adds are to values that   *)
(* are then there.                                                            *)
Means(r, S) == r.expected \subseteq S /\ Reaches(r)
HeldHere(a) == Holds(values.values, a) \/ Holds(podValues.values, a) \/ Holds(module.values, a)

(* The structures of the Deployment that is processed, and the resources of   *)
(* its containers.                                                            *)
PodDone == IF pc = "containers" THEN idx - 1 ELSE Len(Ctrs(dep))
OwnMade ==
    /\ Made(values.values, Scalars(dep)) /\ Made(podValues.values, OfPod(dep, PodDone))
    /\ pc \notin {"containers", "nested", "security", "merge"} => DOMAIN podValues.values = {}
    /\ pc \in {"replicas", "revision", "labels"} => idx = 1
    /\ ResourcesHeld

(* While a Deployment is processed its own Values change, and they only grow. *)
LEMMA KeepsInPlace ==
    ASSUME InPlace, given' = given, dep' = dep, templates' = templates, module' = module,
           pc \in Processing, pc' \in Processing, OwnMade',
           \A b \in All : Holds(values.values, b) => Holds(values'.values, b),
           \A b \in All : Holds(podValues.values, b) => Holds(podValues'.values, b),
           \A r \in refs' : r \in refs \/ (Means(r, All) /\ \A a \in r.expected : HeldHere(a)')
    PROVE  InPlace'
<1>1. pc \notin {"create", "done", "meta"} /\ pc' \notin {"create", "done", "meta"}
  BY DEF Processing
<1>2. MadeOfTheirs'
  <2>1. Made(values.values, Scalars(dep))' /\ Made(podValues.values, OfPod(dep, PodDone))'
    BY DEF OwnMade
  <2>2. /\ Len(templates)' = dep' - 1
        /\ \A i \in 1..Len(templates') : Made(templates'[i].values, OfDeployment(i))
        /\ Made(module'.values, OfDeployments(0))
    BY <1>1 DEF InPlace, MadeOfTheirs, Creating
  <2>. QED
    BY <1>1, <2>1, <2>2, AssignmentsStay DEF MadeOfTheirs, Creating, PodDone
<1>3. NoneYet'
  BY <1>1 DEF NoneYet, OwnMade, Creating
<1>4. RefsOfAssignments'
  <2>1. \A r \in refs' : Means(r, All)
    BY DEF InPlace, RefsOfAssignments, Means
  <2>. QED
    BY <2>1, AssignmentsStay DEF RefsOfAssignments, Means
<1>5. RefsHeld'
  <2>. SUFFICES ASSUME NEW r \in refs', NEW a \in r.expected
                PROVE  HeldSomewhere(a)'
    BY DEF RefsHeld
  <2>1. CASE r \in refs
    <3>1. HeldSomewhere(a) /\ a \in All
      BY <2>1 DEF InPlace, RefsHeld, RefsOfAssignments
    <3>2. Holds(values.values, a) => Holds(values'.values, a)
      BY <3>1
    <3>3. Holds(podValues.values, a) => Holds(podValues'.values, a)
      BY <3>1
    <3>. QED
      BY <1>1, <3>1, <3>2, <3>3 DEF HeldSomewhere, Creating
  <2>2. CASE r \notin refs
    BY <2>2 DEF HeldSomewhere, HeldHere
  <2>. QED
    BY <2>1, <2>2
<1>6. ResourcesHeld' /\ DomainHeld'
  BY DEF OwnMade, InPlace, DomainHeld, Domain
<1>. QED
  BY <1>2, <1>3, <1>4, <1>5, <1>6 DEF InPlace

-----------------------------------------------------------------------------
(* One assignment                                                             *)

(* In the schema nothing is in the way of what a Deployment has of its own,   *)
LEMMA OwnClear ==
    ASSUME DeploymentsAssumption, DistinctLabels, given \in Seq(DeploymentSpecs),
           NEW i \in 1..Len(given), NEW o \in Objects(i), NEW x \in Labels,
           NEW Z, NEW v, Agrees(v, Z, Idle), v.outcome = "ok"
    PROVE  \A q \in Leaves(v.config) : q \notin StrictPrefixes(<<o, x>>)
<1> DEFINE path == <<o, x>>
<1>1. Fit(v.config, v.values, Z, Idle) /\ IsSchema(v.config)
  BY ValuesRecord DEF Agrees
<1>2. o \notin {DomainKey, "imagePullSecrets"} /\ o \in Labels
  BY NamesDistinct, GivenLabels DEF Objects
<1>3. path \in Paths(Labels) /\ Depth(path) = 2 /\ ObjectOf(path) = o
  BY <1>2, Path2
<1>. HIDE DEF path
<1>. SUFFICES ASSUME NEW q \in Leaves(v.config), q \in StrictPrefixes(path)
              PROVE  FALSE
  BY DEF path
<1>4. q \in DOMAIN v.config /\ v.config[q].kind # "struct"
  BY DEF Leaves
<1>5. SchemaAt(q, v.config[q], Idle)
  BY <1>1, <1>4 DEF Fit, SlotsFit, SchemaSlot
<1>6. q \in Paths(Labels) /\ Depth(q) < Depth(path) /\ ObjectOf(q) = ObjectOf(path)
  BY <1>3, PrefixShape
<1>7. Depth(q) = 1
  BY <1>3, <1>6, Depths
<1>8. ObjectOf(q) \in {DomainKey, "imagePullSecrets"}
  BY <1>5, <1>7 DEF SchemaAt
<1>. QED
  BY <1>2, <1>3, <1>6, <1>8

(* nor of a part of a container.                                              *)
LEMMA PartClear ==
    ASSUME DeploymentsAssumption, DistinctLabels, given \in Seq(DeploymentSpecs),
           NEW i \in 1..Len(given), NEW j \in 1..Len(Ctrs(i)), NEW x \in Labels,
           NEW Z, NEW v, Agrees(v, Z, Idle), v.outcome = "ok"
    PROVE  \A q \in Leaves(v.config) : q \notin StrictPrefixes(<<ObjectIn(i), Ctr(i, j), x>>)
<1> DEFINE o == ObjectIn(i)
           c == Ctr(i, j)
           path == <<o, c, x>>
<1>1. OpenFor(v.config, o, c, Labels) /\ IsSchema(v.config)
  BY AgreedOpen, ValuesRecord DEF Agrees
<1>2. o \in Labels /\ c \in Labels
  BY GivenLabels
<1>. HIDE DEF o, c
<1>3. path \in Paths(Labels) /\ path[1] = o /\ path[2] = c /\ Len(path) = 3 /\ Len(path) >= 3
  BY <1>2, Path3 DEF ObjectOf, ContainerOf, Depth
<1>. HIDE DEF path
<1>4. \A q \in Leaves(v.config) : q \notin StrictPrefixes(path)
  BY <1>1, <1>3, Clears
<1>. QED
  BY <1>4 DEF path, o, c

(* An assignment that is made, where it is one of S.                          *)
OneMade(u, v, path, value, S) ==
    /\ u.outcome = "ok" /\ Made(u.values, S) /\ Holds(u.values, <<path, value>>)
    /\ \A b \in All : Holds(v.values, b) => Holds(u.values, b)

LEMMA OneAdded ==
    ASSUME DeploymentsAssumption, DistinctLabels, given \in Seq(DeploymentSpecs),
           NEW S \in SUBSET All, NEW v, IsTyped(v), v.outcome = "ok", Made(v.values, S),
           NEW path \in Paths(Labels), NEW value \in Contents, <<path, value>> \in S,
           NEW schema \in Schemas, \A q \in Leaves(v.config) : q \notin StrictPrefixes(path)
    PROVE  OneMade(Add(v, schema, value, path), v, path, value, S)
<1> DEFINE A == All
<1>1. Apart(A) /\ Proper(A) /\ S \in SUBSET A
  BY AssignmentsApart
<1>. HIDE DEF A
<1>2. LET u == Add(v, schema, value, path)
      IN  /\ IsTyped(u) /\ u.outcome = "ok" /\ Made(u.values, S)
          /\ Holds(u.values, <<path, value>>)
          /\ \A b \in A : Holds(v.values, b) => Holds(u.values, b)
          /\ Leaves(u.config) \subseteq Leaves(v.config) \union {path}
  <2>1. schema \in Schemas \union {NoSchema}
    OBVIOUS
  <2>2. schema # NoSchema => \A q \in Leaves(v.config) : q \notin StrictPrefixes(path)
    OBVIOUS
  <2>3. /\ IsTyped(v) /\ v.outcome = "ok" /\ Made(v.values, S)
        /\ path \in Paths(Labels) /\ value \in Contents /\ <<path, value>> \in S
    OBVIOUS
  <2>. QED
    BY ONLY <1>1, <2>1, <2>2, <2>3, AddMakes
<1>. QED
  BY <1>2 DEF OneMade, A

(* Of the Deployment that is processed.                                       *)
LEMMA OwnAdded ==
    ASSUME DeploymentsAssumption, DistinctLabels, given \in Seq(DeploymentSpecs),
           dep \in 1..Len(given), NEW x \in Own, NEW path \in {ObjPath(x), PodPath(x)},
           NEW Z, NEW v, Agrees(v, Z, Idle), v.outcome = "ok",
           NEW S \in SUBSET All, Made(v.values, S),
           NEW value \in Contents, <<path, value>> \in S, NEW schema \in Schemas
    PROVE  OneMade(Add(v, schema, value, path), v, path, value, S)
<1>1. x \in Labels /\ Objects(dep) \subseteq Labels
  BY LabelsNamed, GivenLabels DEF Own, Objects
<1>2. PICK o \in Objects(dep) : path = <<o, x>>
  BY AtOf DEF ObjPath, PodPath, Objects
<1>3. path \in Paths(Labels)
  BY <1>1, <1>2, Path2
<1>4. \A q \in Leaves(v.config) : q \notin StrictPrefixes(path)
  BY <1>1, <1>2, OwnClear
<1>5. IsTyped(v)
  BY DEF Agrees
<1>. QED
  BY <1>3, <1>4, <1>5, OneAdded

(* Of the container that is.                                                  *)
LEMMA PartAdded ==
    ASSUME DeploymentsAssumption, DistinctLabels, given \in Seq(DeploymentSpecs),
           dep \in 1..Len(given), idx \in 1..Len(Containers), NEW x \in Parts,
           NEW Z, NEW v, Agrees(v, Z, Idle), v.outcome = "ok",
           NEW S \in SUBSET All, Made(v.values, S),
           NEW value \in Contents, <<CtrPath(<<x>>), value>> \in S, NEW schema \in Schemas
    PROVE  OneMade(Add(v, schema, value, CtrPath(<<x>>)), v, CtrPath(<<x>>), value, S)
<1> DEFINE path == CtrPath(<<x>>)
<1>1. /\ x \in Labels /\ ObjectIn(dep) \in Labels /\ Ctr(dep, idx) \in Labels
      /\ idx \in 1..Len(Ctrs(dep))
  BY LabelsNamed, GivenLabels, AtOf
<1>2. path = <<ObjectIn(dep), Ctr(dep, idx), x>>
  BY <1>1, PathsHere
<1>3. path \in Paths(Labels)
  BY <1>1, <1>2, Path3
<1>4. \A q \in Leaves(v.config) : q \notin StrictPrefixes(path)
  BY <1>1, <1>2, PartClear
<1>. HIDE DEF path
<1>5. IsTyped(v) /\ <<path, value>> \in S
  BY DEF Agrees, path
<1>6. OneMade(Add(v, schema, value, path), v, path, value, S)
  BY <1>3, <1>4, <1>5, OneAdded
<1>. QED
  BY <1>6 DEF path

(* The flag's pull secrets are above nothing.                                 *)
LEMMA PullsAdded ==
    ASSUME DeploymentsAssumption, DistinctLabels, given \in Seq(DeploymentSpecs),
           NEW v, IsTyped(v), v.outcome = "ok",
           NEW S \in SUBSET All, Made(v.values, S), Pulls \subseteq S
    PROVE  OneMade(Add(v, Expr("#LocalObjectReference"), Node("list", << >>, FALSE),
                       <<"imagePullSecrets">>),
                   v, <<"imagePullSecrets">>, Node("list", << >>, FALSE), S)
<1> DEFINE path == <<"imagePullSecrets">>
           schema == Expr("#LocalObjectReference")
           value == Node("list", << >>, FALSE)
<1>1. path \in Paths(Labels) /\ Depth(path) = 1
  BY LabelsNamed, Path1
<1>2. value \in Contents
  BY EmptyOrigins DEF Node, Contents, Nodes, Kinds
<1>3. schema \in Schemas
  BY DefinitionsNamed, ExprTyped
<1>4. <<path, value>> \in S
  BY DEF Pulls
<1>. HIDE DEF path, schema, value
<1>5. \A q \in Leaves(v.config) : q \notin StrictPrefixes(path)
  <2>. SUFFICES ASSUME NEW q \in StrictPrefixes(path) PROVE FALSE
    OBVIOUS
  <2>1. q \in Paths(Labels) /\ Depth(q) < Depth(path)
    BY <1>1, PrefixShape
  <2>. QED
    BY <1>1, <2>1, Depths
<1>6. OneMade(Add(v, schema, value, path), v, path, value, S)
  BY <1>1, <1>2, <1>3, <1>4, <1>5, OneAdded
<1>. QED
  BY <1>6 DEF path, schema, value

(* What the steps add is what they assign.                                    *)
LEMMA OwnAssigned ==
    ASSUME DeploymentsAssumption, given \in Seq(DeploymentSpecs), dep \in 1..Len(given)
    PROVE  /\ LET value == Value(NumberKind(Depl.replicas), 0, "replicas", "", << >>)
              IN  value \in Contents /\ <<ObjPath("replicas"), value>> \in Scalars(dep)
           /\ LET value == Value(NumberKind(Depl.revision), 0, "revisionHistoryLimit", "", << >>)
              IN  value \in Contents /\ <<ObjPath("revisionHistoryLimit"), value>> \in Scalars(dep)
           /\ LET value == Value("map", 0, "nodeSelector", "", Quoted(Depl.nodeSelector))
              IN  value \in Contents /\ <<PodPath("nodeSelector"), value>> \in Selectors(dep)
<1>1. dep \in Nat /\ 0 \in Nat /\ "" \in DOMAIN Label \union {""} /\ << >> \in Seq(Strung)
      /\ {"zero", "atom", "map"} \subseteq Kinds /\ Own \subseteq Fields
  BY AtDeployment, KindsNamed DEF Own, Fields
<1>2. Quoted(Depl.nodeSelector) \in Seq(Strung)
  <2>1. Depl \in DeploymentSpecs
    BY AtDeployment
  <2>2. Depl.nodeSelector \in Seq(Texts)
    <3>. HIDE DEF Depl
    <3>. QED
      BY <2>1 DEF DeploymentSpecs
  <2>. QED
    BY <2>2, QuotedTyped
<1>3. ASSUME NEW setting, NEW field \in {"replicas", "revisionHistoryLimit"}
      PROVE  Value(NumberKind(setting), 0, field, "", << >>) \in Contents
  <2>1. NumberKind(setting) \in Kinds /\ field \in Fields
    BY <1>1 DEF Own, NumberKind
  <2>. QED
    BY <1>1, <2>1, ValueTyped
<1>5. Value("map", 0, "nodeSelector", "", Quoted(Depl.nodeSelector)) \in Contents
  <2>1. "map" \in Kinds /\ "nodeSelector" \in Fields
    BY <1>1 DEF Own
  <2>. QED
    BY <1>1, <1>2, <2>1, ValueTyped
<1>6. /\ \A x : ObjPath(x) = <<Object(dep), x>> /\ PodPath(x) = <<ObjectIn(dep), x>>
      /\ Depl = given[dep]
  BY AtOf DEF ObjPath, PodPath
<1>7. /\ <<ObjPath("replicas"), Value(NumberKind(Depl.replicas), 0, "replicas", "", << >>)>>
            \in Scalars(dep)
      /\ <<ObjPath("revisionHistoryLimit"),
           Value(NumberKind(Depl.revision), 0, "revisionHistoryLimit", "", << >>)>>
            \in Scalars(dep)
  <2> DEFINE kind == NumberKind(given[dep].replicas)
             limit == NumberKind(given[dep].revision)
  <2>1. NumberKind(Depl.replicas) = kind /\ NumberKind(Depl.revision) = limit
    BY <1>6
  <2>2. Scalars(dep) =
            {Assign(<<Object(dep), "replicas">>, kind, From(dep, 0, "replicas", "", << >>)),
             Assign(<<Object(dep), "revisionHistoryLimit">>, limit,
                    From(dep, 0, "revisionHistoryLimit", "", << >>))}
    BY DEF Scalars
  <2>. HIDE DEF kind, limit
  <2>3. /\ <<ObjPath("replicas"), Value(kind, 0, "replicas", "", << >>)>>
              = Assign(<<Object(dep), "replicas">>, kind, From(dep, 0, "replicas", "", << >>))
        /\ <<ObjPath("revisionHistoryLimit"), Value(limit, 0, "revisionHistoryLimit", "", << >>)>>
              = Assign(<<Object(dep), "revisionHistoryLimit">>, limit,
                       From(dep, 0, "revisionHistoryLimit", "", << >>))
    BY <1>6 DEF Value, Assign, From
  <2>. QED
    BY <2>1, <2>2, <2>3, Zenon
<1>9. <<PodPath("nodeSelector"), Value("map", 0, "nodeSelector", "", Quoted(Depl.nodeSelector))>>
          \in Selectors(dep)
  <2> DEFINE texts == Quoted(Depl.nodeSelector)
  <2>1. texts = Quoted(given[dep].nodeSelector)
    BY AtOf
  <2>. HIDE DEF texts
  <2>2. <<PodPath("nodeSelector"), Value("map", 0, "nodeSelector", "", texts)>> \in Selectors(dep)
    BY <1>6, <2>1 DEF Selectors, Value, Assign, From
  <2>. QED
    BY <2>2 DEF texts
<1>. QED
  BY <1>3, <1>5, <1>7, <1>9

LEMMA PartsAssigned ==
    ASSUME DeploymentsAssumption, given \in Seq(DeploymentSpecs), dep \in 1..Len(given),
           idx \in 1..Len(Containers)
    PROVE  /\ LET value == CtrValue("list", "args", Container.args)
              IN  value \in Contents /\ <<CtrPath(<<"args">>), value>> \in PartsOf(dep, idx)
           /\ LET value == CtrValue("map", "securityContext", Container.security)
              IN  /\ value \in Contents
                  /\ <<CtrPath(<<"containerSecurityContext">>), value>> \in PartsOf(dep, idx)
<1>1. dep \in Nat /\ idx \in Nat /\ "" \in DOMAIN Label \union {""}
      /\ "list" \in Kinds /\ "map" \in Kinds /\ "args" \in Fields /\ "securityContext" \in Fields
      /\ "args" \in Labels /\ "containerSecurityContext" \in Labels
  BY AtDeployment, AtContainer, KindsNamed, LabelsNamed DEF Parts, Fields
<1> DEFINE args == Quoted(Container.args)
           security == Quoted(Container.security)
<1>2. args \in Seq(Strung) /\ security \in Seq(Strung)
  <2>1. Container.args \in Seq(Texts) /\ Container.security \in Seq(Texts)
    BY AtContainer DEF ContainerSpecs
  <2>. QED
    BY <2>1, QuotedTyped
<1>3. /\ CtrPath(<<"args">>) = <<ObjectIn(dep), Ctr(dep, idx), "args">>
      /\ CtrPath(<<"containerSecurityContext">>)
             = <<ObjectIn(dep), Ctr(dep, idx), "containerSecurityContext">>
  BY <1>1, PathsHere
<1>4. /\ <<CtrPath(<<"args">>), Value("list", idx, "args", "", args)>> \in PartsOf(dep, idx)
      /\ <<CtrPath(<<"containerSecurityContext">>), Value("map", idx, "securityContext", "", security)>>
             \in PartsOf(dep, idx)
  <2>1. args = Quoted(Ctrs(dep)[idx].args) /\ security = Quoted(Ctrs(dep)[idx].security)
    BY AtOf
  <2>. HIDE DEF args, security
  <2>. QED
    BY <1>3, <2>1 DEF PartsOf, Value, Assign, From
<1>. HIDE DEF args, security
<1>5. Value("list", idx, "args", "", args) \in Contents
  BY <1>1, <1>2, ValueTyped
<1>6. Value("map", idx, "securityContext", "", security) \in Contents
  BY <1>1, <1>2, ValueTyped
<1>. QED
  BY <1>4, <1>5, <1>6 DEF CtrValue, args, security

-----------------------------------------------------------------------------
(* Steps of a Deployment                                                      *)

LEMMA ProcessedState ==
    ASSUME DeploymentsAssumption, SchemaInv, pc \in Processing
    PROVE  /\ given \in Seq(DeploymentSpecs) /\ dep \in 1..Len(given) /\ idx \in Nat /\ idx >= 1
           /\ Agrees(values, UnsetPaths, Idle) /\ values.outcome = "ok"
           /\ Agrees(podValues, UnsetPaths, Idle) /\ podValues.outcome = "ok"
           /\ Len(Ctrs(dep)) \in Nat /\ Containers = Ctrs(dep)
           /\ Scalars(dep) \subseteq All /\ Selectors(dep) \subseteq All
           /\ \A n : OfPod(dep, n) \subseteq All
<1>1. given \in Seq(DeploymentSpecs) /\ dep \in 1..Len(given)
  BY ProcessingState
<1>2. Agrees(values, UnsetPaths, Idle) /\ Agrees(podValues, UnsetPaths, Idle)
  BY ProcessingState, AgreedValues
<1>3. /\ Scalars(dep) \subseteq All /\ OfDeployment(dep) \subseteq All
      /\ \A n : OfPod(dep, n) \subseteq OfDeployment(dep)
  BY <1>1, PartOfAll
<1>4. Selectors(dep) \subseteq OfPod(dep, 0)
  BY DEF OfPod
<1>5. Len(Ctrs(dep)) \in Nat
  BY <1>1, GivenLabels
<1>. QED
  BY <1>1, <1>2, <1>3, <1>4, <1>5, ProcessingState, AtOf

LEMMA RefToOne ==
    ASSUME NEW ref, NEW path, NEW value, <<path, value>> \in All, Settled(ref) => ref = path,
           NEW r, r = Ref(ref, {<<path, value>>})
    PROVE  Means(r, All) /\ r.expected = {<<path, value>>}
<1>1. r.path = ref /\ r.expected = {<<path, value>>} /\ PathOf(<<path, value>>) = path
  BY DEF Ref, PathOf
<1>. QED
  BY <1>1 DEF Means, Reaches, RefersTo

(* A Deployment's own values, one more of them.                               *)
LEMMA OwnValueStep ==
    ASSUME InPlace, UNCHANGED <<given, dep, idx, podValues, templates, module>>,
           pc \in {"replicas", "revision"}, pc' \in {"revision", "labels"},
           NEW path, NEW value, <<path, value>> \in All,
           \/ values' = values /\ refs' = refs
           \/ /\ OneMade(values', values, path, value, Scalars(dep))
              /\ refs' = refs \union {Ref(path, {<<path, value>>})}
    PROVE  InPlace'
<1>1. pc \in Processing /\ pc' \in Processing
  BY DEF Processing
<1>2. /\ Made(values.values, Scalars(dep)) /\ DOMAIN podValues.values = {} /\ idx = 1
  BY DEF InPlace, MadeOfTheirs, NoneYet
<1>3. Made(values'.values, Scalars(dep))
      /\ \A b \in All : Holds(values.values, b) => Holds(values'.values, b)
  BY <1>2 DEF OneMade
<1>4. OwnMade'
  <2>1. Made(podValues.values, OfPod(dep, PodDone))'
    BY <1>2 DEF Made
  <2>2. ResourcesHeld'
    BY DEF ResourcesHeld
  <2>3. Made(values.values, Scalars(dep))'
    BY <1>3, AssignmentsStay
  <2>. QED
    BY <1>2, <2>1, <2>2, <2>3 DEF OwnMade
<1>5. ASSUME NEW r \in refs', r \notin refs
      PROVE  Means(r, All) /\ \A a \in r.expected : HeldHere(a)'
  <2>1. /\ r = Ref(path, {<<path, value>>}) /\ OneMade(values', values, path, value, Scalars(dep))
    BY <1>5
  <2>2. Means(r, All) /\ r.expected = {<<path, value>>}
    BY <2>1, RefToOne
  <2>3. Holds(values'.values, <<path, value>>)
    BY <2>1 DEF OneMade
  <2>. QED
    BY <2>2, <2>3 DEF HeldHere
<1>. QED
  BY <1>1, <1>3, <1>4, <1>5, KeepsInPlace

LEMMA ReplicasPlaced ==
    ASSUME DeploymentsAssumption, SchemaInv, DistinctLabels, InPlace, ProcessReplicas
    PROVE  Goes'
<1> DEFINE value == Value(NumberKind(Depl.replicas), 0, "replicas", "", << >>)
           path  == ObjPath("replicas")
           new   == Add(values, Expr("int & >0"), value, path)
<1>1. /\ pc = "replicas" /\ UNCHANGED <<given, dep, idx, podValues, templates, module>>
      /\ \/ values' = values /\ refs' = refs
         \/ values' = new /\ refs' = refs \union {Ref(path, {<<path, value>>})}
      /\ pc' = IF values'.outcome = "ok" THEN "revision" ELSE values'.outcome
  BY DEF ProcessReplicas, Proceed, fileVars
<1>2. pc \in Processing
  BY <1>1 DEF Processing
<1>3. value \in Contents /\ <<path, value>> \in Scalars(dep)
  BY <1>2, ProcessedState, OwnAssigned
<1>4. Made(values.values, Scalars(dep))
  BY DEF InPlace, MadeOfTheirs
<1>. HIDE DEF value
<1>5. OneMade(new, values, path, value, Scalars(dep))
  <2>1. Expr("int & >0") \in Schemas /\ "replicas" \in Own
    BY DefinitionsNamed, ExprTyped DEF Own
  <2>. QED
    BY <1>2, <1>3, <1>4, <2>1, ProcessedState, OwnAdded
<1>6. values'.outcome = "ok" /\ <<path, value>> \in All
  BY <1>1, <1>2, <1>3, <1>5, ProcessedState DEF OneMade
<1>. HIDE DEF path, new
<1>7. InPlace'
  BY <1>1, <1>5, <1>6, OwnValueStep
<1>. QED
  BY <1>1, <1>6, <1>7 DEF Goes, EndsOnlyFor

LEMMA RevisionPlaced ==
    ASSUME DeploymentsAssumption, SchemaInv, DistinctLabels, InPlace, ProcessRevisionHistoryLimit
    PROVE  Goes'
<1> DEFINE value == Value(NumberKind(Depl.revision), 0, "revisionHistoryLimit", "", << >>)
           path  == ObjPath("revisionHistoryLimit")
           new   == Add(values, Expr("int64"), value, path)
<1>1. /\ pc = "revision" /\ UNCHANGED <<given, dep, idx, podValues, templates, module>>
      /\ \/ values' = values /\ refs' = refs
         \/ values' = new /\ refs' = refs \union {Ref(path, {<<path, value>>})}
      /\ pc' = IF values'.outcome = "ok" THEN "labels" ELSE values'.outcome
  BY DEF ProcessRevisionHistoryLimit, Proceed, fileVars
<1>2. pc \in Processing
  BY <1>1 DEF Processing
<1>3. value \in Contents /\ <<path, value>> \in Scalars(dep)
  BY <1>2, ProcessedState, OwnAssigned
<1>4. Made(values.values, Scalars(dep))
  BY DEF InPlace, MadeOfTheirs
<1>. HIDE DEF value
<1>5. OneMade(new, values, path, value, Scalars(dep))
  <2>1. Expr("int64") \in Schemas /\ "revisionHistoryLimit" \in Own
    BY DefinitionsNamed, ExprTyped DEF Own
  <2>. QED
    BY <1>2, <1>3, <1>4, <2>1, ProcessedState, OwnAdded
<1>6. values'.outcome = "ok" /\ <<path, value>> \in All
  BY <1>1, <1>2, <1>3, <1>5, ProcessedState DEF OneMade
<1>. HIDE DEF path, new
<1>7. InPlace'
  BY <1>1, <1>5, <1>6, OwnValueStep
<1>. QED
  BY <1>1, <1>6, <1>7 DEF Goes, EndsOnlyFor

LEMMA LabelsPlaced ==
    ASSUME DeploymentsAssumption, SchemaInv, DistinctLabels, InPlace, ProcessLabels
    PROVE  Goes'
<1>1. /\ pc = "labels" /\ UNCHANGED <<given, dep, idx, values, podValues, templates, module, refs>>
      /\ \/ ~Depl.selector /\ pc' = "panic"
         \/ pc' = "containers"
  BY DEF ProcessLabels
<1>2. pc \in Processing
  BY <1>1 DEF Processing
<1>3. CASE ~Depl.selector /\ pc' = "panic"
  <2>1. Depl \in ToSet(given)
    BY <1>2, ProcessedState DEF Depl, ToSet
  <2>. QED
    BY <1>1, <1>3, <2>1 DEF Goes, EndsOnlyFor
<1>4. CASE pc' = "containers"
  <2>1. pc' \in Processing
    BY <1>4 DEF Processing
  <2>2. Made(values.values, Scalars(dep)) /\ DOMAIN podValues.values = {} /\ idx = 1
    BY <1>1 DEF InPlace, MadeOfTheirs, NoneYet
  <2>3. OwnMade'
    <3>1. Made(podValues.values, OfPod(dep, PodDone))'
      BY <1>1, <2>2 DEF Made
    <3>2. ResourcesHeld'
      <4>1. \A j \in 1..Len(Ctrs(dep)) : ~(j < 1)
        BY <1>2, ProcessedState
      <4>. QED
        BY <1>1, <1>4, <2>2, <4>1, AssignmentsStay DEF ResourcesHeld
    <3>3. Made(values.values, Scalars(dep))'
      BY <1>1, <2>2, AssignmentsStay
    <3>. QED
      BY <1>4, <2>2, <3>1, <3>2, <3>3 DEF OwnMade
  <2>4. InPlace'
    BY <1>1, <1>2, <2>1, <2>3, KeepsInPlace
  <2>. QED
    BY <1>4, <2>4 DEF Goes, EndsOnlyFor
<1>. QED
  BY <1>1, <1>3, <1>4

LEMMA ImageRefAbove ==
    ASSUME DeploymentsAssumption, given \in Seq(DeploymentSpecs), dep \in 1..Len(given),
           idx \in 1..Len(Containers), NEW a \in ImageOfCtr(dep, idx),
           Settled(CtrRef(<<"image", "reference">>))
    PROVE  RefersTo(CtrRef(<<"image", "reference">>), PathOf(a))
<1> DEFINE o == ObjectIn(dep)
           c == Ctr(dep, idx)
           of(f) == From(dep, idx, f, "", <<ImagePart(Split(Quote(Ctrs(dep)[idx].image))[f])>>)
<1>1. idx \in 1..Len(Ctrs(dep))
  BY AtOf
<1>2. o \in Labels /\ c \in Labels
  BY <1>1, GivenLabels
<1>3. CtrRef(<<"image", "reference">>) = <<o, c, "image", "reference">>
  BY SettledRef
<1>4. PICK f \in {"repository", "tag", "digest"} : a = Assign(<<o, c, "image", f>>, "atom", of(f))
  BY DEF ImageOfCtr
<1>. HIDE DEF of, o, c
<1>6. PathOf(a) = <<o, c, "image", f>>
  BY <1>4 DEF Assign, PathOf
<1>7. f \in Labels /\ "image" \in Labels
  BY LabelsNamed DEF Parts
<1>8. Len(PathOf(a)) = 4 /\ PathOf(a)[1] = o /\ PathOf(a)[2] = c /\ PathOf(a)[3] = "image"
  BY <1>2, <1>6, <1>7, Tuples
<1>. QED
  BY <1>3, <1>8 DEF RefersTo

LEMMA PodContainerPlaced ==
    ASSUME DeploymentsAssumption, SchemaInv, DistinctLabels, InPlace, ProcessPodContainer
    PROVE  Goes'
<1> DEFINE parts == Split(Quote(Container.image))
           new == PodContainerValues(podValues, parts)
           image == Ref(CtrRef(<<"image", "reference">>), Expected(ImageAdds(parts)))
           domain == Ref(<<DomainKey>>, {<<<<DomainKey>>, DomainValue>>})
           assigned == ImageOfCtr(dep, idx) \union EnvOf(dep, idx) \union Resources(dep, idx)
                           \union Expected(PolicyAdds)
<1>1. /\ pc = "containers" /\ idx <= Len(Containers)
      /\ UNCHANGED <<given, dep, values, templates, module>>
  BY DEF ProcessPodContainer, fileVars
<1>2. pc \in Processing
  BY <1>1 DEF Processing
<1>3. idx \in 1..Len(Containers) /\ idx \in 1..Len(Ctrs(dep)) /\ idx \in Nat
  BY <1>1, <1>2, ProcessedState
<1>4. CASE ~Splittable(Quote(Container.image))
  <2>1. pc' = "error"
    BY <1>4 DEF ProcessPodContainer
  <2>2. Depl \in ToSet(given) /\ Container \in ToSet(Depl.containers \o Depl.initContainers)
    <3>1. Depl \in ToSet(given)
      BY <1>2, ProcessedState DEF Depl, ToSet
    <3>2. Container \in ToSet(Containers)
      BY <1>3 DEF Container, ToSet
    <3>. QED
      BY <3>1, <3>2 DEF Containers
  <2>3. \E d \in ToSet(given) : \E c \in ToSet(d.containers \o d.initContainers) :
            ~Splittable(Quote(c.image))
    BY <1>4, <2>2
  <2>. QED
    BY <1>1, <2>1, <2>3 DEF Goes, EndsOnlyFor
<1>5. CASE Splittable(Quote(Container.image))
  <2>1. /\ podValues' = new /\ idx' = idx + 1
        /\ refs' = refs \union EnvRefs \union PolicyRefs \union {image, domain}
        /\ pc' = IF podValues'.outcome = "ok" THEN "containers" ELSE podValues'.outcome
    BY <1>5 DEF ProcessPodContainer, Proceed
  <2>2. CtrMade(new, podValues, dep, idx, assigned)
    <3>1. Made(podValues.values, OfPod(dep, idx - 1))
      BY <1>1 DEF InPlace, MadeOfTheirs
    <3>. QED
      BY <1>2, <1>3, <1>5, <3>1, ProcessedState, PodContainerMakes
  <2>3. assigned \subseteq All
    <3>1. assigned \subseteq OfCtr(dep, idx)
      BY <1>2, <1>3, ProcessedState, PolicyAddsAre DEF OfCtr
    <3>2. OfCtr(dep, idx) \subseteq OfDeployment(dep) /\ OfDeployment(dep) \subseteq All
      BY <1>2, <1>3, ProcessedState, PartOfAll
    <3>. HIDE DEF assigned
    <3>. QED
      BY <3>1, <3>2
  <2>4. /\ Expected(ImageAdds(parts)) = ImageOfCtr(dep, idx)
        /\ Expected(EnvAdds) \union Expected(PolicyAdds) \subseteq assigned
    BY <1>2, <1>3, ProcessedState, EnvAddsAre, ImageAddsAre
  <2>5. ImageOfCtr(dep, idx) \subseteq assigned /\ Resources(dep, idx) \subseteq assigned
        /\ ImageOfCtr(dep, idx) # {}
    BY DEF ImageOfCtr
  <2>. HIDE DEF new, assigned, parts
  <2>6. /\ podValues'.outcome = "ok" /\ Made(podValues'.values, OfPod(dep, idx))
        /\ \A b \in All : Holds(podValues.values, b) \/ b \in assigned => Holds(podValues'.values, b)
    BY <2>1, <2>2 DEF CtrMade
  <2>7. pc' = "containers" /\ pc' \in Processing
    BY <2>1, <2>6 DEF Processing
  <2>8. OwnMade'
    <3>1. Made(values.values, Scalars(dep))'
      BY <1>1, AssignmentsStay DEF InPlace, MadeOfTheirs
    <3>2. Made(podValues.values, OfPod(dep, PodDone))'
      <4>1. PodDone' = idx
        BY <1>3, <2>1, <2>7 DEF PodDone
      <4>2. OfPod(dep, PodDone)' = OfPod(dep, idx)
        BY <1>1, <4>1, AssignmentsStay
      <4>. QED
        BY <2>6, <4>2
    <3>3. ResourcesHeld'
      <4>. SUFFICES ASSUME NEW j \in 1..Len(Ctrs(dep)), j < idx + 1, NEW a \in Resources(dep, j)
                    PROVE  Holds(podValues'.values, a)
        BY <1>1, <2>1, <2>7, AssignmentsStay DEF ResourcesHeld
      <4>1. CASE j < idx
        <5>1. Holds(podValues.values, a)
          BY <1>1, <4>1 DEF InPlace, ResourcesHeld
        <5>2. a \in All
          <6>1. OfCtr(dep, j) \subseteq OfDeployment(dep) /\ OfDeployment(dep) \subseteq All
            BY <1>2, ProcessedState, PartOfAll
          <6>. QED
            BY <6>1 DEF OfCtr
        <5>. QED
          BY <2>6, <5>1, <5>2
      <4>2. CASE j = idx
        BY <2>3, <2>5, <2>6, <4>2
      <4>3. j \in Nat
        BY <1>2, ProcessedState
      <4>. QED
        BY <1>3, <4>1, <4>2, <4>3
    <3>. QED
      BY <2>7, <3>1, <3>2, <3>3 DEF OwnMade
  <2>9. ASSUME NEW r \in refs', r \notin refs
        PROVE  Means(r, All) /\ \A a \in r.expected : HeldHere(a)'
    <3>1. CASE r \in EnvRefs \union PolicyRefs
      <4>1. /\ r.expected \subseteq Expected(EnvAdds) \union Expected(PolicyAdds)
            /\ Reaches(r)
        BY <1>2, <1>3, <3>1, ProcessedState, RefsOfAdds
      <4>2. \A a \in r.expected : a \in All /\ a \in assigned
        BY <2>3, <2>4, <4>1
      <4>3. \A a \in r.expected : Holds(podValues'.values, a)
        BY <2>6, <4>2
      <4>. QED
        BY <4>1, <4>2, <4>3 DEF Means, HeldHere
    <3>2. CASE r = image
      <4>1. r.path = CtrRef(<<"image", "reference">>) /\ r.expected = ImageOfCtr(dep, idx)
        BY <2>4, <3>2 DEF Ref
      <4>2. Settled(r.path) => \A a \in ImageOfCtr(dep, idx) : RefersTo(r.path, PathOf(a))
        BY <1>2, <1>3, <4>1, ProcessedState, ImageRefAbove
      <4>3. \A a \in ImageOfCtr(dep, idx) : a \in All /\ Holds(podValues'.values, a)
        BY <2>3, <2>5, <2>6
      <4>. QED
        BY <2>5, <4>1, <4>2, <4>3 DEF Means, Reaches, HeldHere
    <3>3. CASE r = domain
      <4>1. <<<<DomainKey>>, DomainValue>> \in Domain
        BY DEF Domain
      <4>2. Domain \subseteq All
        BY <1>2, ProcessedState, PartOfAll
      <4>3. Holds(module.values, <<<<DomainKey>>, DomainValue>>)
        BY <4>1 DEF InPlace, DomainHeld
      <4>4. Means(r, All) /\ r.expected = {<<<<DomainKey>>, DomainValue>>}
        BY <3>3, <4>1, <4>2, RefToOne
      <4>. QED
        BY <1>1, <4>3, <4>4 DEF HeldHere
    <3>. QED
      BY <2>1, <2>9, <3>1, <3>2, <3>3
  <2>10. InPlace'
    BY <1>1, <1>2, <2>6, <2>7, <2>8, <2>9, KeepsInPlace
  <2>. QED
    BY <2>7, <2>10 DEF Goes, EndsOnlyFor
<1>. QED
  BY <1>4, <1>5

LEMMA NamesPlaced ==
    ASSUME DeploymentsAssumption, SchemaInv, DistinctLabels, InPlace, TemplateNames
    PROVE  Goes'
<1>1. /\ pc = "containers" /\ idx > Len(Containers) /\ pc' = "nested"
      /\ UNCHANGED <<given, dep, values, podValues, templates, module, refs>>
  BY DEF TemplateNames, fileVars
<1>2. pc \in Processing /\ pc' \in Processing
  BY <1>1 DEF Processing
<1> DEFINE N == Len(Ctrs(dep))
<1>3. N \in Nat /\ idx \in Nat /\ idx > N
  BY <1>1, <1>2, ProcessedState
<1>4. OwnMade'
  <2>1. Made(values.values, Scalars(dep))'
    BY <1>1, AssignmentsStay DEF InPlace, MadeOfTheirs
  <2>2. Made(podValues.values, OfPod(dep, PodDone))'
    <3>1. OfPod(dep, idx - 1) \subseteq OfPod(dep, N)
      <4>. HIDE DEF N
      <4>1. \A j \in 1..N : j <= N
        BY <1>3
      <4>. QED
        BY <4>1 DEF OfPod, N
    <3>2. Made(podValues.values, OfPod(dep, idx - 1))
      BY <1>1 DEF InPlace, MadeOfTheirs
    <3>3. Made(podValues.values, OfPod(dep, N))
      BY <3>1, <3>2, MadeOfMore
    <3>4. OfPod(dep, PodDone)' = OfPod(dep, N)
      BY <1>1, AssignmentsStay DEF PodDone
    <3>. QED
      BY <1>1, <3>3, <3>4
  <2>3. ResourcesHeld'
    <3>. SUFFICES ASSUME NEW j \in 1..N, NEW a \in Resources(dep, j)
                  PROVE  Holds(podValues.values, a)
      BY <1>1, AssignmentsStay DEF ResourcesHeld
    <3>1. j < idx
      <4>. HIDE DEF N
      <4>. QED
        BY <1>3
    <3>. QED
      BY <1>1, <3>1 DEF InPlace, ResourcesHeld
  <2>. QED
    BY <1>1, <2>1, <2>2, <2>3 DEF OwnMade
<1>5. InPlace'
  BY <1>1, <1>2, <1>4, KeepsInPlace
<1>. QED
  BY <1>1, <1>5 DEF Goes, EndsOnlyFor

(* The values of its pod, one more of them.                                   *)
LEMMA PodValueStep ==
    ASSUME InPlace, UNCHANGED <<given, dep, values, templates, module>>,
           pc \in {"nested", "security"}, pc' \in {"nested", "security", "merge"},
           pc' = "nested" => pc = "nested",
           \A b \in All : Holds(podValues.values, b) => Holds(podValues'.values, b),
           Made(podValues'.values, OfPod(dep, Len(Ctrs(dep)))),
           \A j \in 1..Len(Ctrs(dep)) : Resources(dep, j) \subseteq All,
           \A r \in refs' : r \in refs \/ (Means(r, All) /\ \A a \in r.expected : HeldHere(a)')
    PROVE  InPlace'
<1>1. pc \in Processing /\ pc' \in Processing
  BY DEF Processing
<1>2. OwnMade'
  <2>1. Made(values.values, Scalars(dep))'
    BY AssignmentsStay DEF InPlace, MadeOfTheirs
  <2>2. Made(podValues.values, OfPod(dep, PodDone))'
    BY AssignmentsStay DEF PodDone
  <2>3. ResourcesHeld'
    <3>. SUFFICES ASSUME pc' = "nested", NEW j \in 1..Len(Ctrs(dep)), NEW a \in Resources(dep, j)
                  PROVE  Holds(podValues'.values, a)
      BY AssignmentsStay DEF ResourcesHeld
    <3>1. Holds(podValues.values, a)
      BY DEF InPlace, ResourcesHeld
    <3>. QED
      BY <3>1
  <2>. QED
    BY <2>1, <2>2, <2>3 DEF OwnMade
<1>3. \A b \in All : Holds(values.values, b) => Holds(values'.values, b)
  OBVIOUS
<1>. QED
  BY <1>1, <1>2, <1>3, KeepsInPlace

LEMMA ResourcesAssigned ==
    ASSUME DeploymentsAssumption, SchemaInv, pc \in Processing
    PROVE  \A j \in 1..Len(Ctrs(dep)) : Resources(dep, j) \subseteq All
<1>1. \A j \in 1..Len(Ctrs(dep)) : OfCtr(dep, j) \subseteq OfDeployment(dep)
  BY ProcessedState, PartOfAll
<1>2. OfDeployment(dep) \subseteq All
  BY ProcessedState, PartOfAll
<1>. QED
  BY <1>1, <1>2 DEF OfCtr

(* What is set in a pod is what it was, or one value more.                    *)
PodGrows(path, value) ==
    \/ podValues' = podValues
    \/ OneMade(podValues', podValues, path, value, OfPod(dep, Len(Ctrs(dep))))

LEMMA PodGrown ==
    ASSUME InPlace, pc \in {"nested", "security"}, NEW path, NEW value, PodGrows(path, value)
    PROVE  /\ \A b \in All : Holds(podValues.values, b) => Holds(podValues'.values, b)
           /\ Made(podValues'.values, OfPod(dep, Len(Ctrs(dep))))
<1>1. Made(podValues.values, OfPod(dep, Len(Ctrs(dep))))
  BY DEF InPlace, MadeOfTheirs
<1>. QED
  BY <1>1 DEF PodGrows, OneMade

(* Values below the resources of a container are resources of it.             *)
LEMMA ResourcesThere ==
    ASSUME DeploymentsAssumption, DistinctLabels, given \in Seq(DeploymentSpecs),
           dep \in 1..Len(given), idx \in 1..Len(Containers),
           IsContent(podValues.values), NEW n, Made(podValues.values, OfPod(dep, n)),
           NEW q \in DOMAIN podValues.values, IsStrictPrefix(CtrPath(<<"resources">>), q)
    PROVE  Resources(dep, idx) # {}
<1> DEFINE o == ObjectIn(dep)
           c == Ctr(dep, idx)
           path == CtrPath(<<"resources">>)
<1>1. o \in Labels /\ c \in Labels /\ "resources" \in Labels /\ idx \in 1..Len(Ctrs(dep))
  BY GivenLabels, LabelsNamed, AtOf DEF Parts
<1>2. \A j \in 1..Len(Ctrs(dep)) : Ctr(dep, j) = c => j = idx
  BY <1>1, NamesDistinct
<1>3. \A j \in 1..Len(Ctrs(dep)) : Ctr(dep, j) \notin Own
  BY NamesDistinct DEF Own
<1>4. path = <<o, c, "resources">>
  BY <1>1, PathsHere
<1>. HIDE DEF path, o, c
<1>5. /\ path \in Paths(Labels) /\ Depth(path) = 3 /\ ObjectOf(path) = o
      /\ ContainerOf(path) = c /\ PartOf(path) = "resources"
  BY <1>1, <1>4, Path3
<1>6. q \in Paths(Labels) /\ q \in Seq(Labels)
  BY DEF IsContent, IsTreeOver, Paths
<1>7. path \in StrictPrefixes(q)
  <2>1. IsStrictPrefix(path, q)
    BY DEF path
  <2>. QED
    BY <1>5, <1>6, <2>1, StrictPrefixMeans
<1>8. PICK a \in OfPod(dep, n) : PathOf(a) = q \/ q \in StrictPrefixes(PathOf(a))
  BY DEF Made
<1> DEFINE p == PathOf(a)
<1>9. p \in Seq(Labels)
  BY PathsOfNone, PathsOfOwn, PathsOfCtr DEF OfPod
<1>10. path \in StrictPrefixes(p)
  BY <1>7, <1>8, <1>9, PrefixesNest
<1>11. p \in Paths(Labels)
  <2>1. p # << >>
    <3>1. StrictPrefixes(<< >>) = {}
      BY DEF StrictPrefixes
    <3>. QED
      BY <1>10, <3>1
  <2>. QED
    BY <1>9, <2>1 DEF Paths
<1>12. \/ a \in Pulls /\ Len(p) = 1
       \/ a \in Selectors(dep) /\ OwnPath(p, dep)
       \/ \E j \in 1..Len(Ctrs(dep)) : j <= n /\ a \in OfCtr(dep, j) /\ PathInCtr(p, dep, j)
  BY PathsOfPod
<1>. HIDE DEF p
<1>13. 3 < Depth(p) /\ ContainerOf(p) = c /\ PartOf(p) = "resources"
  BY <1>5, <1>10, <1>11, PrefixShape
<1>14. Depth(p) \notin {1, 2}
  BY <1>13
<1>15. PICK j \in 1..Len(Ctrs(dep)) : a \in OfCtr(dep, j) /\ PathInCtr(p, dep, j)
  BY <1>12, <1>14 DEF OwnPath, Depth
<1>16. j = idx
  BY <1>2, <1>13, <1>15 DEF PathInCtr, ContainerOf
<1>17. a \in Resources(dep, idx)
  BY <1>13, <1>15, <1>16, PathsOfCtr DEF PartOf, p
<1>. QED
  BY <1>17

LEMMA ResourcesAbove ==
    ASSUME DeploymentsAssumption, given \in Seq(DeploymentSpecs), dep \in 1..Len(given),
           idx \in 1..Len(Containers), NEW a \in Resources(dep, idx)
    PROVE  RefersTo(CtrPath(<<"resources">>), PathOf(a))
<1>1. idx \in 1..Len(Ctrs(dep)) /\ a \in OfCtr(dep, idx) /\ "resources" \in Labels
  BY AtOf, LabelsNamed DEF OfCtr, Parts
<1>2. PathInCtr(PathOf(a), dep, idx) /\ PathOf(a)[3] = "resources"
  BY <1>1, PathsOfCtr, PartOfAssignment
<1>3. CtrPath(<<"resources">>) = <<ObjectIn(dep), Ctr(dep, idx), "resources">>
  BY <1>1, PathsHere
<1>4. Len(PathOf(a)) = 5 /\ PathOf(a)[1] = ObjectIn(dep) /\ PathOf(a)[2] = Ctr(dep, idx)
  <2> DEFINE p == PathOf(a)
  <2>. HIDE DEF p
  <2>1. p[3] = "resources" /\ PathInCtr(p, dep, idx)
    BY <1>2 DEF p
  <2>. QED
    BY <2>1 DEF PathInCtr, p
<1>. QED
  BY <1>2, <1>3, <1>4 DEF RefersTo

LEMMA ContainerPlaced ==
    ASSUME DeploymentsAssumption, SchemaInv, DistinctLabels, InPlace, ProcessContainer
    PROVE  Goes'
<1> DEFINE path == CtrPath(<<"args">>)
           ref == CtrRef(<<"args">>)
           args == CtrValue("list", "args", Container.args)
           new == Add(podValues, Expr("[...string]"), args, path)
           resources == Ref(CtrRef(<<"resources">>), Expected(AllResourceAdds))
           S == OfPod(dep, Len(Ctrs(dep)))
<1>1. /\ pc = "nested" /\ idx <= Len(Containers)
      /\ UNCHANGED <<given, dep, values, templates, module>>
      /\ \/ podValues' = new /\ refs' = refs \union ResourceRefs \union {Ref(ref, {<<path, args>>})}
         \/ podValues' = podValues /\ refs' = refs \union ResourceRefs
      /\ pc' = IF podValues'.outcome = "ok" THEN "nested" ELSE podValues'.outcome
  BY DEF ProcessContainer, Proceed, fileVars
<1>2. pc \in Processing
  BY <1>1 DEF Processing
<1>3. idx \in 1..Len(Containers) /\ idx \in 1..Len(Ctrs(dep)) /\ idx \in Nat
  BY <1>1, <1>2, ProcessedState
<1>4. Made(podValues.values, S) /\ S \subseteq All /\ IsContent(podValues.values)
  <2>1. Made(podValues.values, S)
    BY <1>1 DEF InPlace, MadeOfTheirs
  <2>. QED
    BY <1>2, <2>1, ProcessedState, ValuesRecord DEF Agrees
<1>5. args \in Contents /\ <<path, args>> \in S
  <2>1. args \in Contents /\ <<path, args>> \in PartsOf(dep, idx)
    BY <1>2, <1>3, ProcessedState, PartsAssigned
  <2>2. idx \in {j \in 1..Len(Ctrs(dep)) : j <= Len(Ctrs(dep))}
    BY <1>1, <1>2, <1>3, ProcessedState
  <2>. HIDE DEF args, path
  <2>. QED
    BY <2>1, <2>2 DEF OfPod, OfCtr
<1>. HIDE DEF args
<1>6. OneMade(new, podValues, path, args, S)
  <2>1. Expr("[...string]") \in Schemas /\ "args" \in Parts
    BY DefinitionsNamed, ExprTyped DEF Parts
  <2>. HIDE DEF S
  <2>. QED
    BY <1>2, <1>3, <1>4, <1>5, <2>1, ProcessedState, PartAdded
<1>6a. Settled(ref) => ref = path
  BY <1>2, <1>3, ProcessedState, LabelsNamed, PathsHere, SettledRef DEF Parts
<1>. HIDE DEF new, path, ref
<1>7. podValues'.outcome = "ok" /\ PodGrows(path, args)
  BY <1>1, <1>2, <1>6, ProcessedState DEF OneMade, PodGrows
<1>8. pc' = "nested"
  BY <1>1, <1>7
<1>9. /\ \A b \in All : Holds(podValues.values, b) => Holds(podValues'.values, b)
      /\ Made(podValues'.values, S)
  BY <1>1, <1>7, PodGrown
<1>10. Expected(AllResourceAdds) = Resources(dep, idx) /\ Resources(dep, idx) \subseteq All
  BY <1>2, <1>3, ProcessedState, AllResourceAddsAre, ResourcesAssigned
<1>11. ASSUME NEW r \in refs', r \notin refs
       PROVE  Means(r, All) /\ \A a \in r.expected : HeldHere(a)'
  <2>1. CASE r \in ResourceRefs
    <3>1. r = resources /\ HasResources(CtrRef(<<"resources">>))
      BY <2>1 DEF ResourceRefs
    <3>2. r.path = CtrRef(<<"resources">>) /\ r.expected = Resources(dep, idx)
      BY <1>10, <3>1 DEF Ref
    <3>3. Settled(r.path) => r.path = CtrPath(<<"resources">>)
      <4>1. "resources" \in Labels
        BY LabelsNamed DEF Parts
      <4>2. CtrPath(<<"resources">>) = <<ObjectIn(dep), Ctr(dep, idx), "resources">>
        BY <1>2, <1>3, <4>1, ProcessedState, PathsHere
      <4>3. Settled(CtrRef(<<"resources">>)) => CtrRef(<<"resources">>) = CtrPath(<<"resources">>)
        BY <1>2, <1>3, <4>2, ProcessedState, SettledRef
      <4>. QED
        BY <3>2, <4>3
    <3>4. ASSUME Settled(r.path)
          PROVE  /\ Resources(dep, idx) # {}
                 /\ \A a \in Resources(dep, idx) : RefersTo(r.path, PathOf(a))
      <4>1. \E q \in DOMAIN podValues.values : IsStrictPrefix(CtrPath(<<"resources">>), q)
        BY <3>1, <3>2, <3>3, <3>4 DEF HasResources
      <4>. QED
        BY <1>2, <1>3, <1>4, <3>3, <3>4, <4>1, ProcessedState, ResourcesThere, ResourcesAbove
    <3>5. \A a \in Resources(dep, idx) : Holds(podValues'.values, a)
      <4>1. \A a \in Resources(dep, idx) : Holds(podValues.values, a)
        BY <1>1, <1>3 DEF InPlace, ResourcesHeld
      <4>. QED
        BY <1>9, <1>10, <4>1
    <3>. QED
      BY <1>10, <3>2, <3>4, <3>5 DEF Means, Reaches, HeldHere
  <2>2. CASE r \notin ResourceRefs
    <3>1. podValues' = new /\ r = Ref(ref, {<<path, args>>})
      BY <1>1, <1>11, <2>2
    <3>2. Holds(podValues'.values, <<path, args>>)
      BY <1>6, <3>1 DEF OneMade
    <3>3. Means(r, All) /\ r.expected = {<<path, args>>}
      BY <1>4, <1>5, <1>6a, <3>1, RefToOne
    <3>. QED
      BY <3>2, <3>3 DEF HeldHere
  <2>. QED
    BY <2>1, <2>2
<1>12. InPlace'
  BY <1>1, <1>2, <1>8, <1>9, <1>11, ResourcesAssigned, PodValueStep
<1>. QED
  BY <1>8, <1>12 DEF Goes, EndsOnlyFor

LEMMA PullSecretsPlaced ==
    ASSUME DeploymentsAssumption, SchemaInv, DistinctLabels, InPlace, AddPullSecrets
    PROVE  Goes'
<1> DEFINE path == <<"imagePullSecrets">>
           value == Node("list", << >>, FALSE)
           new == Add(podValues, Expr("#LocalObjectReference"), value, path)
           S == OfPod(dep, Len(Ctrs(dep)))
<1>1. /\ pc = "nested" /\ UNCHANGED <<given, dep, values, templates, module, refs>>
      /\ podValues' = new \/ podValues' = podValues
      /\ pc' = IF podValues'.outcome = "ok" THEN "security" ELSE podValues'.outcome
  BY DEF AddPullSecrets, Proceed, fileVars
<1>2. pc \in Processing
  BY <1>1 DEF Processing
<1>3. Made(podValues.values, S) /\ S \subseteq All /\ Pulls \subseteq S
  <2>1. Made(podValues.values, S)
    BY <1>1 DEF InPlace, MadeOfTheirs
  <2>. QED
    BY <1>2, <2>1, ProcessedState DEF OfPod
<1>4. OneMade(new, podValues, path, value, S)
  <2>. HIDE DEF S
  <2>. QED
    BY <1>2, <1>3, ProcessedState, PullsAdded DEF Agrees
<1>. HIDE DEF new, path, value
<1>5. podValues'.outcome = "ok" /\ PodGrows(path, value)
  BY <1>1, <1>2, <1>4, ProcessedState DEF OneMade, PodGrows
<1>6. /\ \A b \in All : Holds(podValues.values, b) => Holds(podValues'.values, b)
      /\ Made(podValues'.values, S)
  BY <1>1, <1>5, PodGrown
<1>7. pc' = "security"
  BY <1>1, <1>5
<1>8. InPlace'
  BY <1>1, <1>2, <1>6, <1>7, ResourcesAssigned, PodValueStep
<1>. QED
  BY <1>7, <1>8 DEF Goes, EndsOnlyFor

LEMMA SecurityPlaced ==
    ASSUME DeploymentsAssumption, SchemaInv, DistinctLabels, InPlace, SecurityContext
    PROVE  Goes'
<1> DEFINE path == CtrPath(<<"containerSecurityContext">>)
           ref == CtrRef(<<"containerSecurityContext">>)
           value == CtrValue("map", "securityContext", Container.security)
           new == Add(podValues, Expr("#SecurityContext"), value, path)
           S == OfPod(dep, Len(Ctrs(dep)))
<1>1. /\ pc = "security" /\ idx <= Len(Containers)
      /\ UNCHANGED <<given, dep, values, templates, module>>
      /\ \/ podValues' = new /\ refs' = refs \union {Ref(ref, {<<path, value>>})}
         \/ podValues' = podValues /\ refs' = refs
      /\ pc' = IF podValues'.outcome = "ok" THEN "security" ELSE podValues'.outcome
  BY DEF SecurityContext, Proceed, fileVars
<1>2. pc \in Processing
  BY <1>1 DEF Processing
<1>3. idx \in 1..Len(Containers) /\ idx \in 1..Len(Ctrs(dep)) /\ idx \in Nat
  BY <1>1, <1>2, ProcessedState
<1>4. Made(podValues.values, S) /\ S \subseteq All
  <2>1. Made(podValues.values, S)
    BY <1>1 DEF InPlace, MadeOfTheirs
  <2>. QED
    BY <1>2, <2>1, ProcessedState
<1>5. value \in Contents /\ <<path, value>> \in S
  <2>1. value \in Contents /\ <<path, value>> \in PartsOf(dep, idx)
    BY <1>2, <1>3, ProcessedState, PartsAssigned
  <2>2. idx \in {j \in 1..Len(Ctrs(dep)) : j <= Len(Ctrs(dep))}
    BY <1>1, <1>2, <1>3, ProcessedState
  <2>. HIDE DEF value, path
  <2>. QED
    BY <2>1, <2>2 DEF OfPod, OfCtr
<1>. HIDE DEF value
<1>6. OneMade(new, podValues, path, value, S)
  <2>1. Expr("#SecurityContext") \in Schemas /\ "containerSecurityContext" \in Parts
    BY DefinitionsNamed, ExprTyped DEF Parts
  <2>. HIDE DEF S
  <2>. QED
    BY <1>2, <1>3, <1>4, <1>5, <2>1, ProcessedState, PartAdded
<1>6a. Settled(ref) => ref = path
  BY <1>2, <1>3, ProcessedState, LabelsNamed, PathsHere, SettledRef DEF Parts
<1>. HIDE DEF new, path, ref
<1>7. podValues'.outcome = "ok" /\ PodGrows(path, value)
  BY <1>1, <1>2, <1>6, ProcessedState DEF OneMade, PodGrows
<1>8. pc' = "security"
  BY <1>1, <1>7
<1>9. /\ \A b \in All : Holds(podValues.values, b) => Holds(podValues'.values, b)
      /\ Made(podValues'.values, S)
  BY <1>1, <1>7, PodGrown
<1>10. ASSUME NEW r \in refs', r \notin refs
       PROVE  Means(r, All) /\ \A a \in r.expected : HeldHere(a)'
  <2>1. podValues' = new /\ r = Ref(ref, {<<path, value>>})
    BY <1>1, <1>10
  <2>2. Holds(podValues'.values, <<path, value>>)
    BY <1>6, <2>1 DEF OneMade
  <2>3. Means(r, All) /\ r.expected = {<<path, value>>}
    BY <1>4, <1>5, <1>6a, <2>1, RefToOne
  <2>. QED
    BY <2>2, <2>3 DEF HeldHere
<1>11. InPlace'
  BY <1>1, <1>2, <1>8, <1>9, <1>10, ResourcesAssigned, PodValueStep
<1>. QED
  BY <1>8, <1>11 DEF Goes, EndsOnlyFor

LEMMA NodeSelectorPlaced ==
    ASSUME DeploymentsAssumption, SchemaInv, DistinctLabels, InPlace, NodeSelector
    PROVE  Goes'
<1> DEFINE path == PodPath("nodeSelector")
           ref == ObjPath("nodeSelector")
           value == Value("map", 0, "nodeSelector", "", Quoted(Depl.nodeSelector))
           new == Add(podValues, Pattern, value, path)
           S == OfPod(dep, Len(Ctrs(dep)))
<1>1. /\ pc = "security"
      /\ UNCHANGED <<given, dep, values, templates, module>>
      /\ \/ podValues' = new /\ refs' = refs \union {Ref(ref, {<<path, value>>})}
         \/ podValues' = podValues /\ refs' = refs
      /\ pc' = IF podValues'.outcome = "ok" THEN "merge" ELSE podValues'.outcome
  BY DEF NodeSelector, Proceed, fileVars
<1>2. pc \in Processing
  BY <1>1 DEF Processing
<1>3. Made(podValues.values, S) /\ S \subseteq All
  <2>1. Made(podValues.values, S)
    BY <1>1 DEF InPlace, MadeOfTheirs
  <2>. QED
    BY <1>2, <2>1, ProcessedState
<1>4. value \in Contents /\ <<path, value>> \in S
  <2>1. value \in Contents /\ <<path, value>> \in Selectors(dep)
    BY <1>2, ProcessedState, OwnAssigned
  <2>. HIDE DEF value, path
  <2>. QED
    BY <2>1 DEF OfPod
<1>. HIDE DEF value
<1>5. OneMade(new, podValues, path, value, S)
  <2>1. "nodeSelector" \in Own
    BY DEF Own
  <2>2. Pattern \in Schemas
    BY DefinitionsNamed DEF Pattern, Node, Schemas, Nodes, Kinds
  <2>. HIDE DEF S
  <2>. QED
    BY <1>2, <1>3, <1>4, <2>1, <2>2, ProcessedState, OwnAdded
<1>5a. Settled(ref) => ref = path
  BY <1>2, ProcessedState, SettledObject
<1>. HIDE DEF new, path, ref
<1>6. podValues'.outcome = "ok" /\ PodGrows(path, value)
  BY <1>1, <1>2, <1>5, ProcessedState DEF OneMade, PodGrows
<1>7. pc' = "merge"
  BY <1>1, <1>6
<1>8. /\ \A b \in All : Holds(podValues.values, b) => Holds(podValues'.values, b)
      /\ Made(podValues'.values, S)
  BY <1>1, <1>6, PodGrown
<1>9. ASSUME NEW r \in refs', r \notin refs
      PROVE  Means(r, All) /\ \A a \in r.expected : HeldHere(a)'
  <2>1. podValues' = new /\ r = Ref(ref, {<<path, value>>})
    BY <1>1, <1>9
  <2>2. Holds(podValues'.values, <<path, value>>)
    BY <1>5, <2>1 DEF OneMade
  <2>3. Means(r, All) /\ r.expected = {<<path, value>>}
    BY <1>3, <1>4, <1>5a, <2>1, RefToOne
  <2>. QED
    BY <2>2, <2>3 DEF HeldHere
<1>10. InPlace'
  BY <1>1, <1>2, <1>7, <1>8, <1>9, ResourcesAssigned, PodValueStep
<1>. QED
  BY <1>7, <1>10 DEF Goes, EndsOnlyFor

-----------------------------------------------------------------------------
(* Steps between Deployments, and those of output.Create                      *)

(* Nothing changes but where the run is.                                      *)
LEMMA StaysInPlace ==
    ASSUME InPlace, UNCHANGED <<given, dep, idx, values, podValues, templates, module, refs>>,
           pc \in {"meta", "create"}, pc' \in {"replicas", "create", "done"}, NoneYet',
           Creating' => idx = 1 \/ Creating, Creating => Creating',
           idx \in Nat
    PROVE  InPlace'
<1>1. pc # "containers" /\ pc' # "containers"
  OBVIOUS
<1>2. /\ Made(values.values, Scalars(dep)) /\ Made(podValues.values, OfPod(dep, Len(Ctrs(dep))))
      /\ Len(templates) = dep - 1
      /\ \A i \in 1..Len(templates) : Made(templates[i].values, OfDeployment(i))
      /\ Made(module.values, OfDeployments(IF Creating THEN idx - 1 ELSE 0))
  BY <1>1 DEF InPlace, MadeOfTheirs
<1>3. (IF Creating THEN idx - 1 ELSE 0) = (IF Creating' THEN idx - 1 ELSE 0)
  OBVIOUS
<1>4. MadeOfTheirs'
  <2>1. Made(module.values, OfDeployments(IF Creating' THEN idx - 1 ELSE 0))
    BY <1>2, <1>3
  <2>. QED
    BY <1>1, <1>2, <2>1, AssignmentsStay DEF MadeOfTheirs
<1>5. RefsOfAssignments'
  BY AssignmentsStay DEF InPlace, RefsOfAssignments
<1>6. RefsHeld'
  <2>. SUFFICES ASSUME NEW r \in refs, NEW a \in r.expected
                PROVE  HeldSomewhere(a)'
    BY DEF RefsHeld
  <2>1. HeldSomewhere(a)
    BY DEF InPlace, RefsHeld
  <2>2. \A i \in 1..Len(templates) : (Creating => i >= idx) => (Creating' => i >= idx)
    OBVIOUS
  <2>. QED
    BY <2>1, <2>2 DEF HeldSomewhere
<1>7. ResourcesHeld' /\ DomainHeld'
  BY DEF ResourcesHeld, InPlace, DomainHeld, Domain
<1>. QED
  BY <1>4, <1>5, <1>6, <1>7 DEF InPlace

LEMMA MetaPlaced ==
    ASSUME DeploymentsAssumption, SchemaInv, DistinctLabels, InPlace, ProcessObjMeta
    PROVE  Goes'
<1>1. /\ pc = "meta" /\ pc' = "replicas"
      /\ UNCHANGED <<given, dep, idx, values, podValues, templates, module, refs>>
  BY DEF ProcessObjMeta
<1>2. NoneYet'
  BY <1>1 DEF InPlace, NoneYet, Processing, Creating
<1>3. ~Creating /\ ~Creating' /\ idx \in Nat
  BY <1>1 DEF Creating, SchemaInv, InRange
<1>4. InPlace'
  BY <1>1, <1>2, <1>3, StaysInPlace
<1>. QED
  BY <1>1, <1>4 DEF Goes, EndsOnlyFor

LEMMA BeginCreatePlaced ==
    ASSUME DeploymentsAssumption, SchemaInv, DistinctLabels, InPlace, BeginCreate
    PROVE  Goes'
<1>1. /\ pc = "meta" /\ pc' = "create" /\ dep > Len(given)
      /\ UNCHANGED <<given, dep, idx, values, podValues, templates, module, refs>>
  BY DEF BeginCreate
<1>2. dep = Len(given) + 1 /\ idx \in Nat
  <2>1. dep \in 1..Len(given) + 1 /\ Len(given) \in Nat
    BY GivenTyped DEF SchemaInv, InRange
  <2>. QED
    BY <1>1, <2>1 DEF SchemaInv, InRange
<1>3. NoneYet' /\ idx = 1
  BY <1>1, <1>2 DEF InPlace, NoneYet, Processing, Creating
<1>4. ~Creating
  BY <1>1 DEF Creating
<1>5. InPlace'
  BY <1>1, <1>2, <1>3, <1>4, StaysInPlace
<1>. QED
  BY <1>1, <1>5 DEF Goes, EndsOnlyFor

LEMMA WrittenPlaced ==
    ASSUME DeploymentsAssumption, SchemaInv, DistinctLabels, InPlace, Written
    PROVE  Goes'
<1>1. /\ pc = "create" /\ pc' = "done" /\ idx > Len(templates)
      /\ UNCHANGED <<given, dep, idx, values, podValues, templates, module, refs>>
  BY DEF Written
<1>2. NoneYet'
  BY <1>1 DEF InPlace, NoneYet, Processing, Creating
<1>3. Creating /\ Creating' /\ idx \in Nat
  BY <1>1 DEF Creating, SchemaInv, InRange
<1>4. InPlace'
  BY <1>1, <1>2, <1>3, StaysInPlace
<1>. QED
  BY <1>1, <1>4 DEF Goes, EndsOnlyFor

LEMMA NothingPlaced ==
    ASSUME RefsInv, DistinctLabels, UNCHANGED vars
    PROVE  Goes'
<1>1. UNCHANGED <<given, dep, pc, idx, values, podValues, templates, module, refs>>
  BY DEF vars
<1>2. EndsOnlyFor'
  BY <1>1 DEF RefsInv, Goes, EndsOnlyFor
<1>3. ASSUME InPlace
      PROVE  InPlace'
  <2>1. MadeOfTheirs'
    BY <1>1, <1>3, AssignmentsStay DEF InPlace, MadeOfTheirs, Creating
  <2>2. NoneYet'
    BY <1>1, <1>3 DEF InPlace, NoneYet, Creating
  <2>3. RefsOfAssignments'
    BY <1>1, <1>3, AssignmentsStay DEF InPlace, RefsOfAssignments
  <2>4. RefsHeld'
    BY <1>1, <1>3 DEF InPlace, RefsHeld, HeldSomewhere, Creating
  <2>5. ResourcesHeld' /\ DomainHeld'
    BY <1>1, <1>3, AssignmentsStay DEF InPlace, ResourcesHeld, DomainHeld, Domain
  <2>. QED
    BY <2>1, <2>2, <2>3, <2>4, <2>5 DEF InPlace
<1>. QED
  BY <1>1, <1>2, <1>3 DEF RefsInv, Goes

(* No two structures that are merged have a node selector of one Deployment.  *)
LEMMA SelectorAssigned ==
    ASSUME DeploymentsAssumption, DistinctLabels, given \in Seq(DeploymentSpecs),
           NEW S \in SUBSET All, NEW tree, IsContent(tree), Made(tree, S),
           NEW q \in DOMAIN tree, Depth(q) = 2, ContainerOf(q) = "nodeSelector"
    PROVE  \E a \in S : PathOf(a) = q
<1>1. PICK a \in S : PathOf(a) = q \/ q \in StrictPrefixes(PathOf(a))
  BY DEF Made
<1> DEFINE p == PathOf(a)
<1>2. /\ p \in Seq(Labels)
      /\ \/ TopPath(p)
         \/ \E i \in 1..Len(given) : OwnPath(p, i)
         \/ \E i \in 1..Len(given) : \E j \in 1..Len(Ctrs(i)) : PathInCtr(p, i, j)
  <2>1. a \in OfDeployments(Len(given))
    BY DEF All
  <2>. QED
    BY <2>1, WhoseAssignment, PathsOfNone, PathsOfOwn, PathsOfCtr
<1>. HIDE DEF p
<1>3. ASSUME q \in StrictPrefixes(p)
      PROVE  FALSE
  <2>1. p \in Paths(Labels) /\ Len(p) > 2 /\ p[2] = "nodeSelector"
    <3>1. p # << >>
      <4>1. StrictPrefixes(<< >>) = {}
        BY DEF StrictPrefixes
      <4>. QED
        BY <1>3, <4>1
    <3>2. p \in Paths(Labels)
      BY <1>2, <3>1 DEF Paths
    <3>3. Depth(q) < Depth(p) /\ ContainerOf(p) = "nodeSelector"
      BY <1>3, <3>2, PrefixShape
    <3>. QED
      BY <3>2, <3>3 DEF Depth, ContainerOf
  <2>2. \E i \in 1..Len(given) : \E j \in 1..Len(Ctrs(i)) : Ctr(i, j) = "nodeSelector"
    <3>1. ~TopPath(p) /\ \A i \in 1..Len(given) : ~OwnPath(p, i)
      <4>1. Len(p) # 1 /\ Len(p) # 2
        <5>1. Len(p) \in Nat /\ Len(p) > 2
          BY <2>1, LenOfPath
        <5>2. \A n \in Nat : n > 2 => n # 1 /\ n # 2
          OBVIOUS
        <5>. QED
          BY <5>1, <5>2, Zenon
      <4>. QED
        BY <4>1 DEF TopPath, OwnPath
    <3>2. PICK i \in 1..Len(given) : \E j \in 1..Len(Ctrs(i)) : PathInCtr(p, i, j)
      BY <1>2, <3>1
    <3>3. PICK j \in 1..Len(Ctrs(i)) : PathInCtr(p, i, j)
      BY <3>2
    <3>4. Ctr(i, j) = "nodeSelector"
      BY <2>1, <3>3 DEF PathInCtr
    <3>. QED
      BY <3>4
  <2>. QED
    BY <2>2, NamesDistinct
<1>. QED
  BY <1>1, <1>3 DEF p

(* Values that share nothing but the flag's pull secrets merge, and nothing   *)
(* is lost.                                                                   *)
BothMade(m, v, u, S) ==
    /\ m.outcome = "ok" /\ Made(m.values, S)
    /\ \A b \in All : Holds(v.values, b) \/ Holds(u.values, b) => Holds(m.values, b)

LEMMA MergedMakes ==
    ASSUME DeploymentsAssumption, DistinctLabels, given \in Seq(DeploymentSpecs),
           NEW S \in SUBSET All, NEW T \in SUBSET All, S \intersect T \subseteq Pulls,
           NEW Z, NEW v, Agrees(v, Z, Idle), v.outcome = "ok", Made(v.values, S),
           NEW u, Agrees(u, Z, Idle), u.outcome = "ok", Made(u.values, T)
    PROVE  BothMade(Merge(v, u), v, u, S \union T)
<1> DEFINE A == All
           merged == MergeTrees(v.values, u.values)
<1>1. Apart(A) /\ Proper(A) /\ S \in SUBSET A /\ T \in SUBSET A
  BY AssignmentsApart
<1>. HIDE DEF A
<1>2. /\ ~CannotAppend(v.values, u.values)
      /\ Made(merged, S \union T)
      /\ \A a \in A : Holds(v.values, a) \/ Holds(u.values, a) => Holds(merged, a)
  BY <1>1, MergeMakes
<1>3. /\ Fit(v.config, v.values, Z, Idle) /\ Fit(u.config, u.values, Z, Idle)
      /\ v = [config |-> v.config, values |-> v.values, outcome |-> v.outcome]
      /\ IsContent(v.values) /\ IsContent(u.values)
  BY ValuesRecord DEF Agrees
<1>4. ~NotIdentifiers(v.config, u.config)
  <2>. SUFFICES ASSUME NEW q \in DOMAIN v.config, q \in DOMAIN u.config,
                       "pattern" \in {v.config[q].kind, u.config[q].kind}
                PROVE  FALSE
    BY DEF NotIdentifiers
  <2>1. \/ v.config[q].kind = "pattern" /\ SchemaAt(q, v.config[q], Idle)
        \/ u.config[q].kind = "pattern" /\ SchemaAt(q, u.config[q], Idle)
    BY <1>3 DEF Fit, SlotsFit, SchemaSlot
  <2>2. Depth(q) = 2 /\ ContainerOf(q) = "nodeSelector"
    BY <2>1 DEF SchemaAt, IsExpr
  <2>3. q \in DOMAIN v.values /\ q \in DOMAIN u.values
    BY <1>3, <2>2 DEF Fit, Valued, HasValues
  <2>4. PICK a \in S : PathOf(a) = q
    BY <1>3, <2>2, <2>3, SelectorAssigned
  <2>5. PICK b \in T : PathOf(b) = q
    BY <1>3, <2>2, <2>3, SelectorAssigned
  <2>6. a = b
    BY <1>1, <2>4, <2>5 DEF Apart
  <2>7. a \in Pulls
    BY <2>4, <2>5, <2>6
  <2>8. TopPath(q)
    BY <2>4, <2>7, PathsOfNone
  <2>9. Depth(q) = 1
    BY <2>8 DEF TopPath, Depth
  <2>. QED
    BY <2>2, <2>9
<1>5. Merge(v, u) = [v EXCEPT !.values = merged, !.config = MergeTrees(v.config, u.config)]
  BY <1>2, <1>4 DEF Merge
<1>. HIDE DEF merged
<1>6. Merge(v, u).outcome = "ok" /\ Merge(v, u).values = merged
  BY <1>3, <1>5
<1>. QED
  BY <1>2, <1>6 DEF BothMade, A

(* What a Deployment assigns of its own is not its pod's, and what it assigns *)
(* is not what the ones before it do.                                         *)
LEMMA OwnNotPods ==
    ASSUME DeploymentsAssumption, given \in Seq(DeploymentSpecs), NEW i \in 1..Len(given), NEW n
    PROVE  Scalars(i) \intersect OfPod(i, n) = {}
<1>. SUFFICES ASSUME NEW a \in Scalars(i), a \in OfPod(i, n) PROVE FALSE
  OBVIOUS
<1> DEFINE p == PathOf(a)
<1>1. OwnPath(p, i) /\ p[2] # "nodeSelector"
  BY PathsOfOwn
<1>2. ASSUME a \in Selectors(i)
      PROVE  p[2] = "nodeSelector"
  <2> DEFINE of == From(i, 0, "nodeSelector", "", Quoted(given[i].nodeSelector))
  <2>1. Selectors(i) = {Assign(<<ObjectIn(i), "nodeSelector">>, "map", of)}
    BY DEF Selectors
  <2>. HIDE DEF of
  <2>2. p = <<ObjectIn(i), "nodeSelector">>
    BY <1>2, <2>1 DEF Assign, PathOf
  <2>. HIDE DEF p
  <2>. QED
    BY <2>2
<1>3. \/ Len(p) = 1
      \/ a \in Selectors(i)
      \/ \E j \in 1..Len(Ctrs(i)) : PathInCtr(p, i, j)
  BY PathsOfPod
<1>. HIDE DEF p
<1>. QED
  BY <1>1, <1>2, <1>3 DEF OwnPath, PathInCtr

LEMMA DeploymentsDiffer ==
    ASSUME DeploymentsAssumption, DistinctLabels, given \in Seq(DeploymentSpecs),
           NEW i \in 1..Len(given)
    PROVE  OfDeployments(i - 1) \intersect OfDeployment(i) \subseteq Pulls
<1>. SUFFICES ASSUME NEW a \in OfDeployments(i - 1), a \in OfDeployment(i), a \notin Pulls
              PROVE  FALSE
  OBVIOUS
<1> DEFINE p == PathOf(a)
<1>1. Len(p) # 1 /\ p[1] \in Objects(i)
  <2>1. OwnPath(p, i) \/ \E j \in 1..Len(Ctrs(i)) : PathInCtr(p, i, j)
    BY PathsOfOwn, PathsOfPod DEF OfDeployment
  <2>. HIDE DEF p
  <2>. QED
    BY <2>1 DEF OwnPath, PathInCtr, Objects
<1>2. \/ TopPath(p)
      \/ \E k \in 1..Len(given) : k <= i - 1 /\ p[1] \in Objects(k)
  <2>1. \/ TopPath(p)
        \/ \E k \in 1..Len(given) : k <= i - 1 /\ OwnPath(p, k)
        \/ \E k \in 1..Len(given) : k <= i - 1 /\ \E j \in 1..Len(Ctrs(k)) : PathInCtr(p, k, j)
    BY WhoseAssignment, PathsOfNone, PathsOfOwn, PathsOfCtr
  <2>. HIDE DEF p
  <2>. QED
    BY <2>1 DEF OwnPath, PathInCtr, Objects
<1>. HIDE DEF p
<1>3. PICK k \in 1..Len(given) : k <= i - 1 /\ p[1] \in Objects(k)
  <2>1. ~TopPath(p)
    BY <1>1 DEF TopPath
  <2>. QED
    BY <1>2, <2>1
<1>4. k = i
  BY <1>1, <1>3, NamesDistinct
<1>. QED
  BY <1>3, <1>4

LEMMA NothingMade ==
    ASSUME NEW S
    PROVE  Made(NewValues.values, S) /\ DOMAIN NewValues.values = {}
  BY NewValuesAgree DEF Made

(* The template of a Deployment has what its own Values and its pod's had.    *)
LEMMA MergePodPlaced ==
    ASSUME DeploymentsAssumption, SchemaInv, DistinctLabels, InPlace, MergePodValues
    PROVE  Goes'
<1> DEFINE merged == Merge(values, podValues)
<1>1. /\ pc = "merge" /\ given' = given /\ dep' = dep + 1 /\ idx' = 1
      /\ values' = NewValues /\ podValues' = NewValues
      /\ module' = module /\ refs' = refs
      /\ templates' = Append(templates, merged)
      /\ pc' = IF merged.outcome = "ok" THEN "meta" ELSE merged.outcome
  BY DEF MergePodValues, Proceed
<1>2. pc \in Processing
  BY <1>1 DEF Processing
<1>3. BothMade(merged, values, podValues, OfDeployment(dep))
  <2> DEFINE S == Scalars(dep)
             T == OfPod(dep, Len(Ctrs(dep)))
  <2>1. OfDeployment(dep) = S \union T /\ S \in SUBSET All /\ T \in SUBSET All
    BY <1>2, ProcessedState DEF OfDeployment
  <2>2. S \intersect T \subseteq Pulls
    BY <1>2, ProcessedState, OwnNotPods
  <2>3. Made(values.values, S) /\ Made(podValues.values, T)
    BY <1>1 DEF InPlace, MadeOfTheirs
  <2>. HIDE DEF S, T
  <2>4. BothMade(merged, values, podValues, S \union T)
    BY <1>2, <2>1, <2>2, <2>3, ProcessedState, MergedMakes
  <2>. QED
    BY <2>1, <2>4
<1>. HIDE DEF merged
<1>4. pc' = "meta"
  BY <1>1, <1>3 DEF BothMade
<1>5. /\ Len(templates') = dep
      /\ \A i \in 1..Len(templates) : i \in 1..Len(templates') /\ templates'[i] = templates[i]
      /\ \A i \in 1..Len(templates') : i \in 1..Len(templates) \/ i = dep
      /\ dep \in 1..Len(templates') /\ templates'[dep] = merged
  <2>1. templates \in Seq(Agreed(UnsetPaths)) /\ dep \in 1..Len(given) /\ Len(given) \in Nat
    BY <1>2, ProcessedState DEF SchemaInv, InAgreement
  <2>2. Len(templates) = dep - 1
    BY DEF InPlace, MadeOfTheirs
  <2> DEFINE n == Len(templates)
  <2>3. n \in Nat /\ n = dep - 1
    BY <2>1, <2>2
  <2>4. /\ Len(templates') = n + 1
        /\ \A i \in 1..n : templates'[i] = templates[i]
        /\ templates'[n + 1] = merged
    BY <1>1, <2>1
  <2>. HIDE DEF n
  <2>5. dep = n + 1
    BY <2>1, <2>3
  <2>6. (\A i \in 1..n : i \in 1..n + 1) /\ (\A i \in 1..n + 1 : i \in 1..n \/ i = n + 1)
        /\ n + 1 \in 1..n + 1
    BY <2>3
  <2>7. Len(templates) = n
    BY DEF n
  <2>. QED
    BY <2>4, <2>5, <2>6, <2>7
<1>6. ~Creating /\ ~Creating'
  BY <1>1, <1>4 DEF Creating
<1>7. MadeOfTheirs'
  <2>1. \A i \in 1..Len(templates') : Made(templates'[i].values, OfDeployment(i))
    <3>. SUFFICES ASSUME NEW i \in 1..Len(templates')
                  PROVE  Made(templates'[i].values, OfDeployment(i))
      OBVIOUS
    <3>1. CASE i \in 1..Len(templates)
      BY <1>5, <3>1 DEF InPlace, MadeOfTheirs
    <3>2. CASE i = dep
      BY <1>3, <1>5, <3>2 DEF BothMade
    <3>. QED
      BY <1>5, <3>1, <3>2
  <2>2. Len(templates') = dep' - 1
    <3>1. dep \in Nat
      BY <1>2, ProcessedState
    <3>. QED
      BY <1>1, <1>5, <3>1
  <2>3. Made(module'.values, OfDeployments(0))
    BY <1>1, <1>6 DEF InPlace, MadeOfTheirs
  <2>4. Made(values.values, Scalars(dep))'
    BY <1>1, NothingMade
  <2>5. Made(podValues.values, OfPod(dep, IF pc = "containers" THEN idx - 1 ELSE Len(Ctrs(dep))))'
    BY <1>1, NothingMade
  <2>. QED
    BY <1>1, <1>6, <2>1, <2>2, <2>3, <2>4, <2>5, AssignmentsStay DEF MadeOfTheirs
<1>8. NoneYet'
  BY <1>1, <1>4, <1>6, NothingMade DEF NoneYet
<1>9. RefsOfAssignments'
  BY <1>1, AssignmentsStay DEF InPlace, RefsOfAssignments
<1>10. RefsHeld'
  <2>. SUFFICES ASSUME NEW r \in refs, NEW a \in r.expected
                PROVE  HeldSomewhere(a)'
    BY <1>1 DEF RefsHeld
  <2>1. HeldSomewhere(a) /\ a \in All
    BY DEF InPlace, RefsHeld, RefsOfAssignments
  <2>2. CASE Holds(values.values, a) \/ Holds(podValues.values, a)
    <3>1. Holds(merged.values, a)
      BY <1>3, <2>1, <2>2 DEF BothMade
    <3>2. Holds(templates'[dep].values, a)
      BY <1>5, <3>1
    <3>. QED
      BY <1>5, <1>6, <3>2 DEF HeldSomewhere
  <2>3. CASE Holds(module.values, a)
    BY <1>1, <2>3 DEF HeldSomewhere
  <2>4. CASE \E i \in 1..Len(templates) : Holds(templates[i].values, a)
    BY <1>5, <1>6, <2>4 DEF HeldSomewhere
  <2>. QED
    BY <2>1, <2>2, <2>3, <2>4 DEF HeldSomewhere
<1>11. ResourcesHeld' /\ DomainHeld'
  BY <1>1, <1>4 DEF ResourcesHeld, InPlace, DomainHeld, Domain
<1>12. InPlace'
  BY <1>7, <1>8, <1>9, <1>10, <1>11 DEF InPlace
<1>. QED
  BY <1>4, <1>12 DEF Goes, EndsOnlyFor

(* The module has what the templates merged so far had.                       *)
LEMMA MergeTemplatePlaced ==
    ASSUME DeploymentsAssumption, SchemaInv, DistinctLabels, InPlace, MergeTemplate
    PROVE  Goes'
<1> DEFINE template == templates[idx]
           new == Merge(module, template)
           S == OfDeployments(idx - 1)
           T == OfDeployment(idx)
<1>1. /\ pc = "create" /\ idx <= Len(templates) /\ module' = new /\ idx' = idx + 1
      /\ pc' = IF new.outcome = "ok" THEN "create" ELSE new.outcome
      /\ UNCHANGED <<given, dep, values, podValues, templates, refs>>
  BY DEF MergeTemplate, Proceed
<1>2. given \in Seq(DeploymentSpecs) /\ Len(given) \in Nat /\ idx \in Nat /\ idx >= 1
  BY GivenTyped DEF SchemaInv, InRange
<1>3. Creating
  BY <1>1 DEF Creating
<1>4. Len(templates) = Len(given)
  <2>1. Len(templates) = dep - 1 /\ dep = Len(given) + 1
    BY <1>3 DEF InPlace, MadeOfTheirs, NoneYet
  <2>. QED
    BY <1>2, <2>1
<1>5. idx \in 1..Len(given) /\ idx \in 1..Len(templates) /\ idx - 1 \in 0..Len(given)
  BY <1>1, <1>2, <1>4
<1>6. /\ Agrees(module, UnsetPaths, Idle) /\ module.outcome = "ok"
      /\ Agrees(template, UnsetPaths, Idle) /\ template.outcome = "ok"
  <2>1. templates \in Seq(Good(UnsetPaths)) /\ module \in Agreed(UnsetPaths) /\ module.outcome = "ok"
    BY <1>1 DEF SchemaInv, InAgreement
  <2>2. template \in Good(UnsetPaths)
    BY <1>5, <2>1
  <2>. QED
    BY <2>1, <2>2, AgreedValues DEF Good
<1>7. Made(module.values, S) /\ Made(template.values, T)
  BY <1>3, <1>5 DEF InPlace, MadeOfTheirs
<1>8. S \in SUBSET All /\ T \in SUBSET All /\ S \intersect T \subseteq Pulls
  BY <1>2, <1>5, PartOfAll, DeploymentsDiffer
<1>9. S \union T \subseteq OfDeployments(idx)
  <2>1. \A i \in {k \in 1..Len(given) : k <= idx - 1} : i \in {k \in 1..Len(given) : k <= idx}
    BY <1>2
  <2>2. idx \in {k \in 1..Len(given) : k <= idx}
    BY <1>2, <1>5
  <2>. QED
    BY <2>1, <2>2 DEF OfDeployments
<1>. HIDE DEF S, T, template
<1>10. BothMade(new, module, template, S \union T)
  BY <1>2, <1>6, <1>7, <1>8, MergedMakes
<1>. HIDE DEF new
<1>11. new.outcome = "ok" /\ Made(new.values, OfDeployments(idx))
       /\ \A b \in All : Holds(module.values, b) \/ Holds(template.values, b) => Holds(new.values, b)
  BY <1>9, <1>10, MadeOfMore DEF BothMade
<1>12. pc' = "create" /\ Creating'
  BY <1>1, <1>11 DEF Creating
<1>13. MadeOfTheirs'
  <2>1. (IF Creating' THEN idx' - 1 ELSE 0) = idx
    BY <1>1, <1>2, <1>12
  <2>2. Made(module'.values, OfDeployments(IF Creating' THEN idx' - 1 ELSE 0))
    BY <1>1, <1>11, <2>1
  <2>3. /\ Made(values.values, Scalars(dep)) /\ Made(podValues.values, OfPod(dep, Len(Ctrs(dep))))
        /\ Len(templates) = dep - 1
        /\ \A i \in 1..Len(templates) : Made(templates[i].values, OfDeployment(i))
    BY <1>1 DEF InPlace, MadeOfTheirs
  <2>. QED
    BY <1>1, <1>12, <2>2, <2>3, AssignmentsStay DEF MadeOfTheirs
<1>14. NoneYet'
  BY <1>1, <1>12 DEF InPlace, NoneYet, Processing, Creating
<1>15. RefsOfAssignments'
  BY <1>1, AssignmentsStay DEF InPlace, RefsOfAssignments
<1>16. RefsHeld'
  <2>. SUFFICES ASSUME NEW r \in refs, NEW a \in r.expected
                PROVE  HeldSomewhere(a)'
    BY <1>1 DEF RefsHeld
  <2>1. HeldSomewhere(a) /\ a \in All
    BY DEF InPlace, RefsHeld, RefsOfAssignments
  <2>2. CASE Holds(values.values, a) \/ Holds(podValues.values, a)
    BY <1>1, <2>2 DEF HeldSomewhere
  <2>3. CASE Holds(module.values, a) \/ Holds(template.values, a)
    <3>1. Holds(module'.values, a)
      BY <1>1, <1>11, <2>1, <2>3
    <3>. QED
      BY <3>1 DEF HeldSomewhere
  <2>4. CASE \E i \in 1..Len(templates) : i >= idx /\ i # idx /\ Holds(templates[i].values, a)
    <3>1. PICK i \in 1..Len(templates) : i >= idx /\ i # idx /\ Holds(templates[i].values, a)
      BY <2>4
    <3>2. i >= idx'
      BY <1>1, <1>2, <3>1
    <3>. QED
      BY <1>1, <3>1, <3>2 DEF HeldSomewhere
  <2>. QED
    BY <1>3, <2>1, <2>2, <2>3, <2>4 DEF HeldSomewhere, template
<1>17. ResourcesHeld'
  BY <1>12 DEF ResourcesHeld
<1>18. DomainHeld'
  <2>1. \A a \in Domain : Holds(module'.values, a)
    BY <1>1, <1>2, <1>11, PartOfAll DEF InPlace, DomainHeld
  <2>. QED
    BY <2>1 DEF DomainHeld, Domain
<1>19. InPlace'
  BY <1>13, <1>14, <1>15, <1>16, <1>17, <1>18 DEF InPlace
<1>. QED
  BY <1>12, <1>19 DEF Goes, EndsOnlyFor

-----------------------------------------------------------------------------
(* The invariant                                                              *)

(* A run begins with the module's domain and no reference.                    *)
LEMMA BeginsInPlace ==
    ASSUME DeploymentsAssumption, Init, DistinctLabels
    PROVE  Goes
<1>1. /\ given \in Runs /\ dep = 1 /\ idx = 1 /\ pc = "meta"
      /\ values = NewValues /\ podValues = NewValues /\ templates = << >> /\ refs = {}
      /\ module = Add(NewValues, Expr("string"), DomainValue, <<DomainKey>>)
  BY DEF Init
<1>2. given \in Seq(DeploymentSpecs) /\ Len(given) \in Nat
  BY <1>1, GivenTyped
<1> DEFINE path == <<DomainKey>>
           schema == Expr("string")
<1>3. OneMade(Add(NewValues, schema, DomainValue, path), NewValues, path, DomainValue, Domain)
  <2>1. IsTyped(NewValues) /\ NewValues.outcome = "ok" /\ DOMAIN NewValues.config = {}
    BY NewValuesAgree DEF Agrees
  <2>2. path \in Paths(Labels) /\ DomainValue \in Contents /\ schema \in Schemas
    BY LabelsNamed, Path1, DomainTyped, DefinitionsNamed, ExprTyped
  <2>3. Domain \in SUBSET All
    BY <1>2, PartOfAll
  <2>4. <<path, DomainValue>> \in Domain
    BY DEF Domain
  <2>5. \A q \in Leaves(NewValues.config) : q \notin StrictPrefixes(path)
    BY <2>1 DEF Leaves
  <2>6. Made(NewValues.values, Domain)
    BY NothingMade
  <2>. HIDE DEF path, schema
  <2>. QED
    BY <1>2, <2>1, <2>2, <2>3, <2>4, <2>5, <2>6, OneAdded
<1>4. Made(module.values, Domain) /\ Holds(module.values, <<path, DomainValue>>)
  BY <1>1, <1>3 DEF OneMade
<1>5. ~Creating /\ Len(templates) = 0
  BY <1>1 DEF Creating
<1>6. MadeOfTheirs
  <2>1. Domain \subseteq OfDeployments(0)
    BY DEF OfDeployments
  <2>2. Made(module.values, OfDeployments(0))
    BY <1>4, <2>1, MadeOfMore
  <2>3. Made(values.values, Scalars(dep))
    BY <1>1, NothingMade
  <2>4. Made(podValues.values, OfPod(dep, IF pc = "containers" THEN idx - 1 ELSE Len(Ctrs(dep))))
    BY <1>1, NothingMade
  <2>. QED
    BY <1>1, <1>5, <2>2, <2>3, <2>4 DEF MadeOfTheirs
<1>7. NoneYet
  BY <1>1, <1>5, NothingMade DEF NoneYet
<1>8. RefsOfAssignments /\ RefsHeld /\ ResourcesHeld
  BY <1>1 DEF RefsOfAssignments, RefsHeld, ResourcesHeld
<1>9. DomainHeld
  BY <1>4 DEF DomainHeld, Domain
<1>10. InPlace
  BY <1>6, <1>7, <1>8, <1>9 DEF InPlace
<1>. QED
  BY <1>1, <1>10 DEF Goes, EndsOnlyFor

(* A run that has ended does nothing more.                                    *)
LEMMA OnlyRunning ==
    ASSUME Next
    PROVE  pc \notin {"error", "panic"}
  BY DEF Next, ProcessObjMeta, ProcessReplicas, ProcessRevisionHistoryLimit, ProcessLabels,
     ProcessPodContainer, TemplateNames, ProcessContainer, AddPullSecrets, SecurityContext,
     NodeSelector, MergePodValues, BeginCreate, MergeTemplate, Written

LEMMA StepsPlace ==
    ASSUME DeploymentsAssumption, SchemaInv, DistinctLabels, InPlace, Next
    PROVE  Goes'
<1>1. CASE ProcessObjMeta
  BY <1>1, MetaPlaced
<1>2. CASE ProcessReplicas
  BY <1>2, ReplicasPlaced
<1>3. CASE ProcessRevisionHistoryLimit
  BY <1>3, RevisionPlaced
<1>4. CASE ProcessLabels
  BY <1>4, LabelsPlaced
<1>5. CASE ProcessPodContainer
  BY <1>5, PodContainerPlaced
<1>6. CASE TemplateNames
  BY <1>6, NamesPlaced
<1>7. CASE ProcessContainer
  BY <1>7, ContainerPlaced
<1>8. CASE AddPullSecrets
  BY <1>8, PullSecretsPlaced
<1>9. CASE SecurityContext
  BY <1>9, SecurityPlaced
<1>10. CASE NodeSelector
  BY <1>10, NodeSelectorPlaced
<1>11. CASE MergePodValues
  BY <1>11, MergePodPlaced
<1>12. CASE BeginCreate
  BY <1>12, BeginCreatePlaced
<1>13. CASE MergeTemplate
  BY <1>13, MergeTemplatePlaced
<1>14. CASE Written
  BY <1>14, WrittenPlaced
<1>. QED
  BY <1>1, <1>2, <1>3, <1>4, <1>5, <1>6, <1>7, <1>8, <1>9, <1>10, <1>11, <1>12, <1>13, <1>14 DEF Next

(* In every run whose names stay distinct, each structure is made of the      *)
(* assignments it is to have, what references expect is in one of them, and   *)
(* neither a collision nor a value in the way ends the run.                   *)
THEOREM RefsInvariance == Spec => []RefsInv
<1>1. Init => RefsInv
  BY BeginsInPlace, DeploymentsAssumption DEF RefsInv
<1>2. SchemaInv /\ RefsInv /\ [Next]_vars => RefsInv'
  <2>. SUFFICES ASSUME SchemaInv, RefsInv, [Next]_vars, DistinctLabels'
                PROVE  Goes'
    BY DEF RefsInv
  <2>1. DistinctLabels
    BY GivenStays, DistinctLabelsStay
  <2>2. CASE UNCHANGED vars
    BY <2>1, <2>2, NothingPlaced
  <2>3. CASE Next
    <3>1. InPlace
      BY <2>1, <2>3, OnlyRunning DEF RefsInv, Goes
    <3>. QED
      BY <2>1, <2>3, <3>1, StepsPlace, DeploymentsAssumption
  <2>. QED
    BY <2>2, <2>3
<1>. QED
  BY <1>1, <1>2, SchemaInvariance, PTL DEF Spec

(* A run ends in an error only for an image without a tag, and panics only    *)
(* when names collide or a Deployment has no selector.                        *)
THEOREM EndsWell == Spec => []EndsWellUnlessCollision
<1>1. RefsInv => EndsWellUnlessCollision
  BY DEF RefsInv, Goes, EndsOnlyFor, EndsWellUnlessCollision
<1>. QED
  BY <1>1, RefsInvariance, PTL

-----------------------------------------------------------------------------
(* References                                                                 *)

(* Where the assignments of a run are.                                        *)
LEMMA PathsOfAll ==
    ASSUME DeploymentsAssumption, DistinctLabels, given \in Seq(DeploymentSpecs), NEW a \in All
    PROVE  /\ PathOf(a)[1] \notin DefaultFields /\ PathOf(a) \in Seq(Labels)
           /\ \/ Len(PathOf(a)) <= 2
              \/ PathOf(a)[2] \notin Own /\ PathOf(a)[1] \notin {DomainKey, "imagePullSecrets"}
<1> DEFINE p == PathOf(a)
<1>1. /\ p \in Seq(Labels)
      /\ \/ TopPath(p)
         \/ \E i \in 1..Len(given) : OwnPath(p, i)
         \/ \E i \in 1..Len(given) : \E j \in 1..Len(Ctrs(i)) : PathInCtr(p, i, j)
  <2>1. a \in OfDeployments(Len(given))
    BY DEF All
  <2>. QED
    BY <2>1, WhoseAssignment, PathsOfNone, PathsOfOwn, PathsOfCtr
<1>. HIDE DEF p
<1>2. CASE TopPath(p)
  BY <1>1, <1>2 DEF TopPath, DefaultFields, DomainKey, p
<1>3. CASE \E i \in 1..Len(given) : OwnPath(p, i)
  BY <1>1, <1>3, NamesDistinct DEF OwnPath, p
<1>4. CASE \E i \in 1..Len(given) : \E j \in 1..Len(Ctrs(i)) : PathInCtr(p, i, j)
  <2>1. PICK i \in 1..Len(given) : \E j \in 1..Len(Ctrs(i)) : PathInCtr(p, i, j)
    BY <1>4
  <2>2. PICK j \in 1..Len(Ctrs(i)) : PathInCtr(p, i, j)
    BY <2>1
  <2>3. p[1] = ObjectIn(i) /\ ObjectIn(i) \in Objects(i) /\ p[2] = Ctr(i, j)
    BY <2>2 DEF PathInCtr, Objects
  <2>4. p[1] \notin {DomainKey, "imagePullSecrets"} \union DefaultFields
    BY <2>3, NamesDistinct
  <2>5. p[2] \notin Own
    BY <2>3, NamesDistinct DEF Own
  <2>. QED
    BY <1>1, <2>4, <2>5 DEF p
<1>. QED
  BY <1>1, <1>2, <1>3, <1>4

(* What is assigned has, where a template refers to it, a schema in #Config.  *)
LEMMA SchemaAbovePath ==
    ASSUME DeploymentsAssumption, SchemaInv, pc = "done", DistinctLabels, NEW a \in All,
           Holds(module.values, a), NEW path, RefersTo(path, PathOf(a))
    PROVE  HasSchema(path)
<1> DEFINE p == PathOf(a)
           config == module.config
<1>1. given \in Seq(DeploymentSpecs)
  BY GivenTyped DEF SchemaInv, InRange
<1>2. /\ IsSchema(config) /\ IsContent(module.values)
      /\ Fit(config, module.values, UnsetPaths, Idle)
  BY WrittenModule, ValuesRecord
<1>3. p \in DOMAIN module.values /\ module.values[p].kind # "struct"
  <2>1. ValueOf(a).kind # "struct"
    BY <1>1, AssignmentsApart DEF Proper
  <2>. QED
    BY <2>1 DEF Holds
<1>4. p \in Paths(Labels) /\ p[1] \notin DefaultFields
      /\ \/ Depth(p) <= 2
         \/ ContainerOf(p) \notin Own /\ ObjectOf(p) \notin {DomainKey, "imagePullSecrets"}
  <2>1. p \in Paths(Labels)
    BY <1>2, <1>3 DEF IsContent, IsTreeOver
  <2>. QED
    BY <1>1, <2>1, PathsOfAll DEF Depth, ContainerOf, ObjectOf
<1>5. RefersTo(path, p)
  OBVIOUS
<1>. HIDE DEF p, config
<1>6. Has(config, p)
  <2>1. Has(config, p) \/ Below(p, UnsetPaths) \/ InImage(p, Idle)
    BY <1>2, <1>3 DEF Fit, Covered
  <2>2. ~InImage(p, Idle)
    BY DEF InImage, PartOf, Idle
  <2>3. ~Below(p, UnsetPaths)
    <3>1. Depth(p) \in Nat
      BY <1>4, Depths
    <3>. QED
      BY <1>4, <3>1 DEF Below, Scaled, UnsetPaths, Own
  <2>. QED
    BY <2>1, <2>2, <2>3
<1>7. ASSUME NEW q \in DOMAIN config, ObjectOf(q) = ObjectOf(p)
      PROVE  /\ q \in DOMAIN configFile /\ configFile[q] = config[q]
             /\ config[q].kind # "struct" => SchemaAt(q, config[q], Idle)
  <2>1. q[1] \notin DefaultFields
    BY <1>4, <1>7 DEF ObjectOf
  <2>2. q \notin {<<f>> : f \in DefaultFields}
    <3>. SUFFICES ASSUME NEW f \in DefaultFields, q = <<f>> PROVE FALSE
      OBVIOUS
    <3>1. q[1] = f
      OBVIOUS
    <3>. QED
      BY <2>1, <3>1
  <2>3. config[q].kind # "struct" => SchemaAt(q, config[q], Idle)
    BY <1>2 DEF Fit, SlotsFit, SchemaSlot
  <2>. QED
    BY <2>2, <2>3, WrittenModule DEF config
<1>8. ASSUME NEW q \in StrictPrefixes(p), q \in DOMAIN config, config[q].kind # "struct"
      PROVE  /\ q \in Paths(Labels) /\ Depth(q) < Depth(p) /\ ObjectOf(q) = ObjectOf(p)
             /\ Depth(q) >= 2 => ContainerOf(q) = ContainerOf(p)
             /\ Depth(q) >= 3 => PartOf(q) = PartOf(p)
             /\ q \in DOMAIN configFile /\ configFile[q].kind # "struct"
             /\ SchemaAt(q, config[q], Idle)
  BY <1>4, <1>7, <1>8, PrefixShape
<1>9. CASE path = p
  <2>1. path[1] \notin DefaultFields
    BY <1>4, <1>9
  <2>2. CASE p \in DOMAIN config
    BY <1>7, <1>9, <2>1, <2>2 DEF HasSchema
  <2>3. CASE \E q \in StrictPrefixes(p) : q \in DOMAIN config /\ config[q].kind # "struct"
    BY <1>8, <1>9, <2>1, <2>3 DEF HasSchema
  <2>. QED
    BY <1>6, <2>2, <2>3 DEF Has
<1>10. ASSUME Depth(p) > 3, NEW q \in StrictPrefixes(p), SchemaAt(q, config[q], Idle),
              PartOf(p) # "env", q \in DOMAIN config, config[q].kind # "struct"
       PROVE  Depth(q) = 3
  <2>1. /\ Depth(q) \in Nat /\ Depth(q) >= 1 /\ Depth(q) < Depth(p) /\ ObjectOf(q) = ObjectOf(p)
        /\ Depth(q) >= 2 => ContainerOf(q) = ContainerOf(p)
        /\ Depth(q) >= 3 => PartOf(q) = PartOf(p)
    BY <1>4, <1>8, <1>10, Depths
  <2>2. ContainerOf(p) \notin Own /\ ObjectOf(p) \notin {DomainKey, "imagePullSecrets"}
    BY <1>4, <1>10, Depths
  <2>3. ~InPart(q, Idle, "resources")
    BY DEF InPart, PartOf, Idle
  <2>4. \/ Depth(q) = 1 /\ ObjectOf(q) \in {DomainKey, "imagePullSecrets"}
        \/ Depth(q) = 2 /\ ContainerOf(q) \in Own
        \/ Depth(q) = 3
        \/ Depth(q) = 4 /\ PartOf(q) = "env"
    BY <1>10, <2>3 DEF SchemaAt, Own
  <2>5. CASE Depth(q) = 1 /\ ObjectOf(q) \in {DomainKey, "imagePullSecrets"}
    BY <2>1, <2>2, <2>5
  <2>6. CASE Depth(q) = 2 /\ ContainerOf(q) \in Own
    <3>1. ContainerOf(q) = ContainerOf(p)
      BY <2>1, <2>6
    <3>. QED
      BY <2>2, <2>6, <3>1
  <2>7. CASE Depth(q) = 4 /\ PartOf(q) = "env"
    <3>1. PartOf(q) = PartOf(p)
      BY <2>1, <2>7
    <3>. QED
      BY <1>10, <2>7, <3>1
  <2>. QED
    BY <2>4, <2>5, <2>6, <2>7
<1>11. ASSUME Depth(p) > 3, p \in DOMAIN config, PartOf(p) # "env"
       PROVE  FALSE
  <2>1. ~InPart(p, Idle, "resources")
    BY DEF InPart, PartOf, Idle
  <2>2. SchemaAt(p, config[p], Idle) \/ SchemaAbove(p, Idle)
    BY <1>2, <1>11 DEF Fit, SlotsFit, SchemaSlot
  <2>3. Depth(p) \notin {1, 2, 3} /\ ~(Depth(p) <= 2)
    <3>1. \A n \in Nat : n > 3 => n \notin {1, 2, 3} /\ ~(n <= 2)
      OBVIOUS
    <3>2. Depth(p) \in Nat
      BY <1>4, Depths
    <3>. QED
      BY <1>11, <3>1, <3>2, Zenon
  <2>4. ~SchemaAbove(p, Idle)
    BY <2>1, <2>3 DEF SchemaAbove
  <2>5. ~SchemaAt(p, config[p], Idle)
    BY <1>11, <2>1, <2>3 DEF SchemaAt
  <2>. QED
    BY <2>2, <2>4, <2>5
<1>12. ASSUME Depth(p) > 3, PartOf(p) # "env"
       PROVE  \E q \in DOMAIN configFile :
                 /\ configFile[q].kind # "struct"
                 /\ q \in Paths(Labels) /\ q \in Seq(Labels) /\ Len(q) = 3
                 /\ q[1] = p[1] /\ q[2] = p[2] /\ q[3] = p[3]
  <2>1. PICK q \in StrictPrefixes(p) : q \in DOMAIN config /\ config[q].kind # "struct"
    BY <1>6, <1>11, <1>12 DEF Has
  <2>2. Depth(q) = 3
    BY <1>8, <1>10, <1>12, <2>1
  <2>. QED
    BY <1>8, <2>1, <2>2 DEF Depth, ObjectOf, ContainerOf, PartOf, Paths
<1>13. CASE Len(p) = 4 /\ p[3] = "image" /\ path = <<p[1], p[2], "image", "reference">>
  <2>1. Depth(p) > 3 /\ PartOf(p) # "env"
    BY <1>13 DEF Depth, PartOf
  <2>2. PICK q \in DOMAIN configFile :
                 /\ configFile[q].kind # "struct"
                 /\ q \in Paths(Labels) /\ q \in Seq(Labels) /\ Len(q) = 3
                 /\ q[1] = p[1] /\ q[2] = p[2] /\ q[3] = p[3]
    BY <1>12, <2>1
  <2> DEFINE L == Labels \union {"reference"}
             o == p[1]
             c == p[2]
  <2>3. o \in L /\ c \in L /\ "image" \in L /\ "reference" \in L /\ q \in Seq(L)
    <3>1. q[1] \in Labels /\ q[2] \in Labels
      <4>1. q \in Seq(Labels) /\ Len(q) = 3
        BY <2>2
      <4>. QED
        BY <4>1
    <3>. QED
      BY <2>2, <3>1, LabelsNamed DEF Parts
  <2>4. path = <<o, c, "image", "reference">> /\ q[1] = o /\ q[2] = c /\ q[3] = "image"
    BY <1>13, <2>2
  <2>5. o \notin DefaultFields
    BY <1>4
  <2>. HIDE DEF L, o, c
  <2>6. /\ path \in Seq(L) /\ Len(path) = 4
        /\ path[1] = o /\ path[2] = c /\ path[3] = "image"
    BY <2>3, <2>4, QuadOf
  <2>7. \A i \in 1..Len(q) : q[i] = path[i]
    BY <2>2, <2>4, <2>6
  <2>8. q \in StrictPrefixes(path)
    <3>1. Len(q) \in Nat /\ Len(q) > 0 /\ Len(q) < Len(path)
      BY <2>2, <2>6
    <3>2. q \in Paths(L)
      <4>1. q # << >>
        BY <2>2 DEF Paths
      <4>. QED
        BY <2>3, <4>1 DEF Paths
    <3>. QED
      BY <2>6, <2>7, <3>1, <3>2, PrefixByLabels
  <2>. QED
    BY <2>2, <2>5, <2>6, <2>8 DEF HasSchema
<1>14. CASE Len(p) = 5 /\ p[3] = "resources" /\ path = <<p[1], p[2], "resources">>
  <2>1. Depth(p) > 3 /\ PartOf(p) # "env"
    BY <1>14 DEF Depth, PartOf
  <2>2. PICK q \in DOMAIN configFile :
                 /\ configFile[q].kind # "struct"
                 /\ q \in Paths(Labels) /\ q \in Seq(Labels) /\ Len(q) = 3
                 /\ q[1] = p[1] /\ q[2] = p[2] /\ q[3] = p[3]
    BY <1>12, <2>1
  <2> DEFINE o == p[1]
             c == p[2]
  <2>3. o \in Labels /\ c \in Labels /\ "resources" \in Labels
    <3>1. q[1] \in Labels /\ q[2] \in Labels
      <4>1. q \in Seq(Labels) /\ Len(q) = 3
        BY <2>2
      <4>. QED
        BY <4>1
    <3>. QED
      BY <2>2, <3>1, LabelsNamed DEF Parts
  <2>4. path = <<o, c, "resources">> /\ q[1] = o /\ q[2] = c /\ q[3] = "resources"
    BY <1>14, <2>2
  <2>5. o \notin DefaultFields
    BY <1>4
  <2>. HIDE DEF o, c
  <2>6. /\ path \in Seq(Labels) /\ Len(path) = 3
        /\ path[1] = o /\ path[2] = c /\ path[3] = "resources"
    BY <2>3, <2>4, TripleOf
  <2>7. \A i \in 1..Len(q) : q[i] = path[i]
    BY <2>2, <2>4, <2>6
  <2>8. q = path
    BY <2>2, <2>6, <2>7, EqualLabels
  <2>. QED
    BY <2>2, <2>5, <2>6, <2>8 DEF HasSchema
<1>. QED
  BY <1>5, <1>9, <1>13, <1>14 DEF RefersTo

(* The module of a run that ends well holds, for every #config expression in  *)
(* every template, the very values its own Deployment and container put       *)
(* there, when names stay distinct in camel case; and the expression points   *)
(* to them, below a schema, unless Values makes another label of one of its   *)
(* labels (values.go Add and Merge over deployment.go and pod.go).            *)
THEOREM Resolving == Spec => []ReferencesResolve
<1>1. SchemaInv /\ RefsInv => ReferencesResolve
  <2>. SUFFICES ASSUME SchemaInv, RefsInv, pc = "done", DistinctLabels, NEW r \in refs
                PROVE  Held(r) /\ (Settled(r.path) => Resolves(r))
    BY DEF ReferencesResolve
  <2>1. InPlace
    BY DEF RefsInv, Goes
  <2>2. ASSUME NEW a \in r.expected
        PROVE  a \in All /\ Holds(module.values, a)
    <3>1. a \in All /\ HeldSomewhere(a)
      BY <2>1 DEF InPlace, RefsOfAssignments, RefsHeld
    <3>2. DOMAIN values.values = {} /\ DOMAIN podValues.values = {} /\ idx > Len(templates)
      BY <2>1 DEF InPlace, NoneYet, Processing
    <3>3. ~\E i \in 1..Len(templates) : i >= idx
      <4>1. idx \in Nat /\ templates \in Seq(Agreed(UnsetPaths))
        BY DEF SchemaInv, InRange, InAgreement
      <4>2. Len(templates) \in Nat
        BY <4>1
      <4>. QED
        BY <3>2, <4>1, <4>2
    <3>4. Holds(module.values, a)
      BY <3>1, <3>2, <3>3 DEF HeldSomewhere, Holds, Creating
    <3>. QED
      BY <3>1, <3>4
  <2>3. Held(r)
    BY <2>2 DEF Held, Holds, PathOf, ValueOf
  <2>4. ASSUME Settled(r.path)
        PROVE  Resolves(r)
    <3>1. r.expected # {} /\ \A a \in r.expected : RefersTo(r.path, PathOf(a))
      BY <2>1, <2>4 DEF InPlace, RefsOfAssignments, Reaches
    <3>2. PICK a \in r.expected : TRUE
      BY <3>1
    <3>3. HasSchema(r.path)
      BY <2>2, <3>1, <3>2, SchemaAbovePath, DeploymentsAssumption
    <3>. QED
      BY <3>1, <3>3 DEF Resolves, PathOf
  <2>. QED
    BY <2>3, <2>4
<1>. QED
  BY <1>1, SchemaInvariance, RefsInvariance, PTL
=============================================================================
