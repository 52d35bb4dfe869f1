---------------------------- MODULE MCDeployments -----------------------------
(* Small instances of Deployments.                                            *)
EXTENDS Deployments

(* "a-1" and "a1", and "A_B" and "a.b", become equal in camel case; a         *)
(* container called replicas or node-selector meets the Deployment's own      *)
(* values.  "_J" and "1-b-c" have a label of which Values makes another one.  *)
MCLabel ==
    [n \in {"d", "e-1", "e1", "a1", "b", "replicas", "metadata", "X", "cpu"} |->
        CASE n = "e-1" -> "e1" [] n = "X" -> "x" [] OTHER -> n]
    @@ ("kubernetes-cluster-domain" :> "kubernetesClusterDomain")
    @@ ("a-1" :> "a1") @@ ("node-selector" :> "nodeSelector")
    @@ ("A_B" :> "aB") @@ ("a.b" :> "aB") @@ ("ephemeral-storage" :> "ephemeralStorage")
    @@ ("_J" :> "J") @@ ("1-b-c" :> "1BC")
    @@ ("revision-history-limit" :> "revisionHistoryLimit")
MCAgain ==
    [l \in {MCLabel[n] : n \in DOMAIN MCLabel} |->
        CASE l = "J" -> "j" [] l = "1BC" -> "1Bc" [] OTHER -> l]

MCObjectNames == {"config", "secret"}

Tagged == <<"n", ":", "t">>
Untagged == <<"n">>

(* Texts: an identifier and a number, which are CUE when not quoted; bytes,   *)
(* with apostrophes; words that are no CUE; none at all.                      *)
Bytes == <<"'", "1", "'">>
Words == <<"a", " ", "b">>
MCExpressions == {<<"1">>, <<"n">>, <<"t">>, Bytes}
MCQuantity == <<"1">>

Plain(name, image) ==
    [name |-> name, image |-> image, env |-> << >>, args |-> << >>, requests |-> {},
     limits |-> {}, policy |-> << >>, secured |-> FALSE, security |-> << >>,
     escalates |-> FALSE, drops |-> 0, names |-> {}, command |-> <<Words, << >>>>]
Var(name, value) == [name |-> name, value |-> value]
Rich(name) ==
    [name |-> name, image |-> Tagged, env |-> <<Var("X", << >>), Var("A_B", Bytes), Var("_J", Words)>>,
     args |-> <<Words, << >>, <<"1">>>>,
     requests |-> {"cpu", "ephemeral-storage"}, limits |-> {"cpu"}, policy |-> <<"n">>,
     secured |-> TRUE, security |-> <<<<"t">>>>, escalates |-> name = "a1",
     drops |-> IF name = "replicas" THEN 2 ELSE 1,
     names |-> {"config", "other"}, command |-> <<<<"n">>, Bytes>>]
Clashing(name) == [Rich(name) EXCEPT !.env = <<Var("A_B", <<"1">>), Var("a.b", <<"n">>)>>]
Doubled(name) == [Rich(name) EXCEPT !.requests = {"A_B", "a.b"}]

MCContainers ==
    {Rich(n) : n \in {"a-1", "a1", "b", "replicas", "node-selector", "1-b-c"}}
    \union {Plain(n, Tagged) : n \in {"a1", "b", "node-selector"}}
    \union {Plain("b", Untagged), Plain("b", << >>), Clashing("b"), Doubled("b")}

Deployment(name, replicas, revision, containers, init, selector) ==
    [name |-> name, replicas |-> replicas, revision |-> revision,
     containers |-> containers, initContainers |-> init,
     selectsNodes |-> selector, nodeSelector |-> IF selector THEN <<<<"1">>>> ELSE << >>,
     pullSecrets |-> FALSE, names |-> {"secret"}, quantities |-> <<MCQuantity>>,
     selector |-> TRUE,
     labels |-> <<<<"n">>, Bytes>>, meta |-> <<Words, <<"1">>>>]

One(S) == {<<x>> : x \in S}
AtMostOne(S) == {<< >>} \union One(S)

(* One Deployment with a container and perhaps an init container; or two     *)
(* Deployments, whose names may collide.                                     *)
SingleRuns ==
    {<<Deployment("d", r, v, c, i, s)>> :
        r \in {"none", "zero", "some"}, v \in {"none", "some"}, c \in One(MCContainers),
        i \in AtMostOne(MCContainers), s \in BOOLEAN}
    \union {<<Deployment("1-b-c", "some", "zero", c, << >>, TRUE)>> : c \in One(MCContainers)}
PairRuns ==
    {<<Deployment(m, r, "some", c, << >>, s), Deployment(n, q, "none", e, << >>, t)>> :
        m \in {"d", "e-1"}, n \in {"e1", "metadata", "kubernetes-cluster-domain"},
        r \in {"none", "zero", "some"}, q \in {"zero", "some"},
        c, e \in One({Rich("b"), Rich("a-1"), Plain("b", Tagged), Rich("replicas"),
                      Plain("replicas", Tagged)}),
        s, t \in BOOLEAN}
(* A revisionHistoryLimit of 0 and containers that meet it.                    *)
LimitRuns ==
    {<<Deployment("e-1", "none", r, c, << >>, FALSE), Deployment("e1", "none", q, e, << >>, FALSE)>> :
        r, q \in {"zero", "some"},
        c, e \in One({Rich("b"), Rich("revision-history-limit"), Plain("revision-history-limit", Tagged)})}
(* Images with and without a registry and its port, a tag, an empty one, and  *)
(* a digest.                                                                  *)
MCImages ==
    {host \o <<"n">> \o tag \o digest :
        host \in {<< >>, <<"h", "/">>, <<"h", ":", "5", "/">>},
        tag \in {<< >>, <<":">>, <<":", "t">>}, digest \in {<< >>, <<"@", "s", ":", "9">>}}
ImageRuns ==
    {<<Deployment("d", "none", "none", <<Plain("b", image)>>, << >>, FALSE)>> :
        image \in MCImages}

NoSelector ==
    [Deployment("d", "some", "some", <<Rich("b")>>, << >>, FALSE) EXCEPT !.selector = FALSE]
MCRuns ==
    SingleRuns \union PairRuns \union LimitRuns \union ImageRuns \union {<< >>, <<NoSelector>>}

(* Images with a tag and a digest, as pod_test.go has one.                     *)
DigestRuns ==
    {<<Deployment("d", "none", "none", <<Plain("b", image)>>, << >>, FALSE)>> :
        image \in {i \in MCImages : HasDigest(i) /\ "t" \in ToSet(i)}}
=============================================================================
