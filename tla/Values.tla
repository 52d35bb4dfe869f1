-------------------------------- MODULE Values --------------------------------
(***************************************************************************)
(* timonify.Values (pkg/timonify/values.go): the CUE schema of a module's    *)
(* #Config and the values of values.cue, both nested by camel-case labels.   *)
(*                                                                          *)
(* A nested structure is a function from paths (sequences of labels) to      *)
(* nodes; what is below a node are the longer paths.  Operations that the    *)
(* code does with errors or type assertions leave an outcome: "ok", "error"  *)
(* (the run ends with it) or "panic".                                        *)
(***************************************************************************)
EXTENDS Naturals, Sequences, SequencesExt

(* kind: "struct" for a node with fields below it; in the schema "expr" for  *)
(* any other CUE expression and "pattern" for {[string]: string}, a struct   *)
(* whose only label is no identifier; in the values "atom", "zero" (0 and    *)
(* the like, which mergo takes for unset), "list" and "map".  A list or map   *)
(* records every origin that went into it, the others one.                   *)
Node(kind, of, required) == [kind |-> kind, of |-> of, required |-> required]

StrictPrefixes(path) == {SubSeq(path, 1, k) : k \in 1..Len(path) - 1}

(* Something on the way to path has no fields.                               *)
Blocked(tree, path) ==
    \E q \in StrictPrefixes(path) \intersect DOMAIN tree : tree[q].kind # "struct"

(* Mutant: what was below the node stays.                                    *)
PutKeepsBelow(tree, path, node) ==
    [q \in DOMAIN tree \union StrictPrefixes(path) \union {path} |->
        CASE q = path                      -> node
          [] q # path /\ q \in DOMAIN tree -> tree[q]
          [] OTHER                         -> Node("struct", << >>, node.required)]

(* The node at path is set, with whatever structs are missing on the way;    *)
(* what was below it goes, and a field that exists keeps its constraint.     *)
Put(tree, path, node) ==
    [q \in {q \in DOMAIN tree : ~IsStrictPrefix(path, q)}
               \union StrictPrefixes(path) \union {path} |->
        CASE q = path /\ q \in DOMAIN tree -> [node EXCEPT !.required = tree[q].required]
          [] q = path /\ q \notin DOMAIN tree -> node
          [] q # path /\ q \in DOMAIN tree -> tree[q]
          [] OTHER                         -> Node("struct", << >>, node.required)]

-----------------------------------------------------------------------------
(* Values{Config, Values} and how the last operation on them went.           *)
Empty == [t \in {} |-> Node("struct", << >>, FALSE)]
NewValues == [config |-> Empty, values |-> Empty, outcome |-> "ok"]

(* AddConfig: the schema at a path.                                          *)
AddConfig(v, schema, required, path) ==
    IF v.outcome # "ok" THEN v
    ELSE IF Blocked(v.config, path) THEN [v EXCEPT !.outcome = "panic"]
    ELSE [v EXCEPT !.config = Put(v.config, path, [schema EXCEPT !.required = required])]

SetValue(v, value, path) ==
    IF v.outcome # "ok" THEN v
    ELSE IF Blocked(v.values, path) THEN [v EXCEPT !.outcome = "error"]
    ELSE [v EXCEPT !.values = Put(v.values, path, value)]

(* Add: the schema, unless there is none to add, then the value.             *)
NoSchema == Node("none", << >>, FALSE)

(* Mutant: nothing is added without a schema.                                *)
AddWithSchemaOnly(v, schema, value, path) ==
    IF schema = NoSchema THEN v
    ELSE SetValue(AddConfig(v, schema, FALSE, path), value, path)

Add(v, schema, value, path) ==
    SetValue(IF schema = NoSchema THEN v ELSE AddConfig(v, schema, FALSE, path),
             value, path)

-----------------------------------------------------------------------------
(* Merge: mergo.Merge with WithAppendSlice on the values, mergeStructLits on *)
(* the schema.  The first wins, except that an unset value takes the         *)
(* second's, and that slices and maps are joined.                            *)
Combine(a, b) ==
    CASE a.kind = "zero"                          -> b
      [] a.kind = b.kind /\ a.kind \in {"list", "map"} -> [a EXCEPT !.of = a.of \o b.of]
      [] OTHER                                    -> a

(* What is below a node of the second is taken over with it.                 *)
Reachable(tree, path) ==
    \A q \in StrictPrefixes(path) \intersect DOMAIN tree : tree[q].kind \in {"struct", "zero"}

(* Mutant: structs are not merged but taken from the first.                  *)
MergeTreesShallow(first, second) ==
    [q \in DOMAIN first \union {p \in DOMAIN second : <<p[1]>> \notin DOMAIN first} |->
        IF q \in DOMAIN first THEN first[q] ELSE second[q]]

MergeTrees(first, second) ==
    [q \in DOMAIN first \union {p \in DOMAIN second : Reachable(first, p)} |->
        IF q \notin DOMAIN first THEN second[q]
        ELSE IF q \notin DOMAIN second THEN first[q]
        ELSE Combine(first[q], second[q])]

(* mergo does not append a slice to something else; mergeStructLits takes    *)
(* every label of two structs for an identifier.                             *)
CannotAppend(first, second) ==
    \E q \in DOMAIN first \intersect DOMAIN second :
        second[q].kind = "list" /\ first[q].kind # "list"
NotIdentifiers(first, second) ==
    \E q \in DOMAIN first \intersect DOMAIN second :
        /\ {first[q].kind, second[q].kind} \subseteq {"struct", "pattern"}
        /\ "pattern" \in {first[q].kind, second[q].kind}

Merge(v, w) ==
    IF v.outcome # "ok" THEN v
    ELSE IF CannotAppend(v.values, w.values) THEN [v EXCEPT !.outcome = "error"]
    ELSE IF NotIdentifiers(v.config, w.config) THEN [v EXCEPT !.outcome = "panic"]
    ELSE [v EXCEPT !.values = MergeTrees(v.values, w.values),
                   !.config = MergeTrees(v.config, w.config)]

-----------------------------------------------------------------------------
(* What is below a node is below a struct.                                   *)
Kinds == {"struct", "expr", "pattern", "atom", "zero", "list", "map"}
IsTree(tree) ==
    \A p \in DOMAIN tree :
        /\ tree[p].kind \in Kinds /\ tree[p].required \in BOOLEAN
        /\ \A q \in StrictPrefixes(p) : q \in DOMAIN tree /\ tree[q].kind = "struct"
IsValues(v) ==
    IsTree(v.config) /\ IsTree(v.values) /\ v.outcome \in {"ok", "error", "panic"}
=============================================================================
