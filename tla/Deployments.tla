----------------------------- MODULE Deployments ------------------------------
(***************************************************************************)
(* The Deployments of a run: deployment.Process (pkg/processor/deployment)   *)
(* with pod.ProcessSpec (pkg/processor/pod) and                              *)
(* ProcessContainerSecurityContext, one Deployment after another, and then   *)
(* output.Create merging the values of their templates into those of the     *)
(* module.                                                                   *)
(*                                                                          *)
(* A template refers to values with #config.<path> expressions: the model    *)
(* keeps which paths it refers to and what it expects there, the schema and  *)
(* the values of the module, how names of other objects are rendered, and    *)
(* what becomes of the texts of the manifest.                                *)
(***************************************************************************)
EXTENDS Values, CueText, Integers, FiniteSets

CONSTANTS
    Runs,          \* what a run may be given: sequences of Deployments
    ObjectNames,   \* names of all objects of the run, which metadata has seen
    PullSecrets,   \* the --image-pull-secrets flag
    Label,         \* strcase.ToLowerCamel on the names that occur
    Again,         \* Values' toCamelCase on a label, which need not leave it as it is
    Quantity       \* the text of a resource's quantity

Texts == Seq(STRING)
Quantities == {text \in Texts : ~IsQuoted(text)}

(* Of a pod: a number may be missing, 0 or another; of a container's security *)
(* context the texts, whether it allows escalation and how many capabilities *)
(* it drops; quantities are those that stay in the pod, as they are printed.  *)
Settings == {"none", "zero", "some"}
ContainerSpecs ==
    [name : DOMAIN Label, image : Texts, env : Seq([name : DOMAIN Label, value : Texts]),
     args : Seq(Texts), requests : SUBSET DOMAIN Label, limits : SUBSET DOMAIN Label,
     policy : Texts, secured : BOOLEAN, security : Seq(Texts), escalates : BOOLEAN,
     drops : Nat, names : SUBSET STRING, command : Seq(Texts)]
DeploymentSpecs ==
    [name : DOMAIN Label, replicas : Settings, revision : Settings,
     containers : Seq(ContainerSpecs), initContainers : Seq(ContainerSpecs),
     selectsNodes : BOOLEAN, nodeSelector : Seq(Texts), pullSecrets : BOOLEAN,
     names : SUBSET STRING, quantities : Seq(Quantities), selector : BOOLEAN,
     labels : Seq(Texts), meta : Seq(Texts)]

(* A manifest holds texts, a quantity is printed without quotes, a label is a *)
(* text too, and a parser of expressions fails on an empty text.              *)
ASSUME DeploymentsAssumption ==
    /\ Runs \subseteq Seq(DeploymentSpecs)
    /\ IsFiniteSet(DOMAIN Label)
    /\ \A n \in DOMAIN Label :
          Label[n] \in STRING /\ Label[n] \in DOMAIN Again /\ Again[Label[n]] \in STRING
    /\ PullSecrets \in BOOLEAN
    /\ Quantity \in Quantities
    /\ << >> \notin Expressions

(* A text of the manifest and the string it is in, before it is marshalled.  *)
InString(text, string) == [was |-> text, is |-> string]

(* format.QuoteStringsInStruct(&depl), before anything else is done.         *)
Quoted(texts) == [i \in 1..Len(texts) |-> InString(texts[i], Quote(texts[i]))]

DomainKey == "kubernetesClusterDomain"
DefaultDomain == <<"c", ".", "l">>
DomainValue ==
    Node("atom", <<[dep |-> 0, container |-> 0, field |-> "domain", key |-> "",
                    texts |-> <<InString(DefaultDomain, StrconvQuote(DefaultDomain))>>]>>, FALSE)

VARIABLES
    given,      \* the Deployments
    dep,        \* which of them is processed
    pc,         \* the step its processing is at
    idx,        \* the container that step is at
    values,     \* the Values of deployment.Process
    podValues,  \* the Values of pod.ProcessSpec
    templates,  \* the Values of the templates so far
    module,     \* the Values of output.Create
    refs,       \* the #config references in the templates
    rendered,   \* how the names a pod refers to were rendered
    emitted,    \* what the texts of the manifest became, and where
    configFile  \* #Config in config.cue

fileVars == <<emitted, configFile>>
vars == <<given, dep, pc, idx, values, podValues, templates, module, refs, rendered,
          emitted, configFile>>

-----------------------------------------------------------------------------
Depl == given[dep]
Containers == Depl.containers \o Depl.initContainers
Container == Containers[idx]

(* A template's references are made of labels, while Values makes labels of   *)
(* these again (toCamelCase): the values of a pod are not where its           *)
(* references point if that changes one of the labels.                       *)
ObjLabel == Label[Depl.name]
CtrLabel == Label[Container.name]
Stored(name) == Again[Label[name]]
ObjPath(field) == <<ObjLabel, field>>
PodPath(field) == <<Stored(Depl.name), field>>
CtrPath(fields) == <<Stored(Depl.name), Stored(Container.name)>> \o fields
CtrRef(fields) == <<ObjLabel, CtrLabel>> \o fields

(* A value knows which Deployment, container and field it comes from, and    *)
(* which variable or resource, and holds its texts.                          *)
Value(kind, container, field, key, texts) ==
    Node(kind, <<[dep |-> dep, container |-> container, field |-> field, key |-> key,
                  texts |-> texts]>>, FALSE)
CtrValue(kind, field, texts) == Value(kind, idx, field, "", Quoted(texts))
Expr(schema) == Node("expr", <<schema>>, FALSE)
Pattern == Node("pattern", <<"string">>, FALSE)

(* #config.<path>, and the values the template means by it.                  *)
Ref(path, expected) == [path |-> path, expected |-> expected]

AddAll(v, adds) ==
    LET after[n \in 0..Len(adds)] ==
            IF n = 0 THEN v
            ELSE Add(after[n - 1], adds[n].schema, adds[n].value, adds[n].path)
    IN  after[Len(adds)]

(* What a step leaves: an error or a panic ends the run.                     *)
Proceed(v, next) == pc' = IF v.outcome = "ok" THEN next ELSE v.outcome

(* TemplatedName: the name of an object of the run becomes one below the     *)
(* instance's, as the object's own name does (ProcessObjMeta).  In a         *)
(* processed pod all strings are quoted.                                     *)
Name(n, quoted) == [name |-> n, quoted |-> quoted]
TemplatedName(name) ==
    IF name \in {Name(n, FALSE) : n \in ObjectNames} THEN "templated" ELSE "verbatim"
RenderNames(names) ==
    {[name |-> n, as |-> TemplatedName(Name(n, TRUE))] : n \in names}

-----------------------------------------------------------------------------
Init ==
    /\ given \in Runs
    /\ dep = 1 /\ idx = 1
    /\ pc = "meta"
    /\ values = NewValues /\ podValues = NewValues
    /\ templates = << >>
    /\ module = Add(NewValues, Expr("string"), DomainValue, <<DomainKey>>)
    /\ refs = {} /\ rendered = {} /\ emitted = {}
    /\ configFile = Empty

(* A text of the manifest is written: what it was, what it becomes, where.   *)
Emitted(texts, parse, in) ==
    {[was |-> texts[i].was, is |-> Marshal(texts[i].is, parse), in |-> in] :
        i \in 1..Len(texts)}

(* ProcessObjMeta: labels and annotations of the object as it came, unquoted *)
(* and not parsed.                                                           *)
ProcessObjMeta ==
    /\ pc = "meta" /\ dep <= Len(given)
    /\ emitted' = emitted \union
           Emitted([i \in 1..Len(Depl.meta) |-> InString(Depl.meta[i], Depl.meta[i])], FALSE, "meta")
    /\ pc' = "replicas"
    /\ UNCHANGED <<given, dep, idx, values, podValues, templates, module, refs, rendered,
                   configFile>>

(* A number 0 and an empty text are unset values to mergo.                    *)
NumberKind(setting) == IF setting = "zero" THEN "zero" ELSE "atom"
TextKind(text) == IF text = << >> THEN "zero" ELSE "atom"

ProcessReplicas ==
    LET value == Value(NumberKind(Depl.replicas), 0, "replicas", "", << >>)
    IN  /\ pc = "replicas"
        /\ IF Depl.replicas = "none"
           THEN UNCHANGED <<values, refs>>
           ELSE /\ values' = Add(values, Expr("int & >0"), value, ObjPath("replicas"))
                /\ refs' = refs \union
                       {Ref(ObjPath("replicas"), {<<ObjPath("replicas"), value>>})}
        /\ Proceed(values', "revision")
        /\ UNCHANGED <<given, dep, idx, podValues, templates, module, rendered, fileVars>>

ProcessRevisionHistoryLimit ==
    LET path  == ObjPath("revisionHistoryLimit")
        value == Value(NumberKind(Depl.revision), 0, "revisionHistoryLimit", "", << >>)
    IN  /\ pc = "revision"
        /\ IF Depl.revision = "none"
           THEN UNCHANGED <<values, refs>>
           ELSE /\ values' = Add(values, Expr("int64"), value, path)
                /\ refs' = refs \union {Ref(path, {<<path, value>>})}
        /\ Proceed(values', "labels")
        /\ UNCHANGED <<given, dep, idx, podValues, templates, module, rendered, fileVars>>

(* The selector, the pod's labels and its annotations.                       *)
ProcessLabels ==
    /\ pc = "labels"
    /\ \/ /\ ~Depl.selector
          /\ pc' = "panic" /\ UNCHANGED emitted
       \/ /\ Depl.selector
          /\ emitted' = emitted \union Emitted(Quoted(Depl.labels), TRUE, "labels")
          /\ pc' = "containers"
    /\ UNCHANGED <<given, dep, idx, values, podValues, templates, module, refs, rendered,
                   configFile>>

-----------------------------------------------------------------------------
(* processPodContainer, for the containers and then the init containers.     *)

(* Mutant: the parts of the image, cut from the unquoted one, stay unquoted. *)
UnquotedPart(part) == InString(part, part)

ImagePart(part) == InString(part, StrconvQuote(part))
ImageAdds(parts) ==
    [i \in 1..3 |->
        LET field == <<"repository", "tag", "digest">>[i]
        IN  [schema |-> NoSchema, path |-> CtrPath(<<"image", field>>),
             value |-> Value("atom", idx, field, "", <<ImagePart(parts[field])>>)]]

(* processEnv: a variable with a value; one with a reference is left alone.  *)
EnvAdds ==
    [i \in 1..Len(Container.env) |->
        LET var == Container.env[i]
        IN  [schema |-> Expr("string"), path |-> CtrPath(<<"env", Stored(var.name)>>),
             value |-> Value(TextKind(var.value), idx, "env", var.name, Quoted(<<var.value>>))]]

(* Resources come in the order of a map, which matters only to names that get *)
(* the same label: the last one stays.                                        *)
ResourceAdds(kind, resources) ==
    LET names == SetToSeq(resources)
    IN  [i \in 1..Len(names) |->
            [schema |-> Expr("#ResourceList"),
             path |-> CtrPath(<<"resources", kind, Label[names[i]]>>),
             value |-> Value("atom", idx, kind, names[i],
                             <<InString(Quantity, StrconvQuote(Quantity))>>)]]

AllResourceAdds ==
    ResourceAdds("requests", Container.requests) \o ResourceAdds("limits", Container.limits)

PolicyAdds ==
    IF Container.policy # << >>
    THEN <<[schema |-> Expr("#PullPolicy"), path |-> CtrPath(<<"imagePullPolicy">>),
            value |-> CtrValue("atom", "imagePullPolicy", <<Container.policy>>)]>>
    ELSE << >>

Expected(adds) == {<<adds[i].path, adds[i].value>> : i \in 1..Len(adds)}
EnvRefs ==
    {Ref(CtrRef(<<"env", Label[Container.env[i].name]>>),
         {<<EnvAdds[i].path, EnvAdds[i].value>>}) : i \in 1..Len(Container.env)}
PolicyRefs ==
    IF Container.policy # << >>
    THEN {Ref(CtrRef(<<"imagePullPolicy">>), Expected(PolicyAdds))}
    ELSE {}

(* Mutants: the schema of the image, or that of resources, is not added.      *)
NotAdded(v) == v

(* The common schema of an image, and that of resources with its defaults,   *)
(* override those of their parts.                                            *)
ImageSchema(v) == AddConfig(v, Expr("#Image"), TRUE, CtrPath(<<"image">>))
ResourcesSchema(v) ==
    AddConfig(v, Expr("#ResourceRequirements"), FALSE, CtrPath(<<"resources">>))

(* Mutant: the schema of resources is added before the resources.            *)
ResourcesSchemaFirst(v, parts) ==
    LET image == ImageSchema(AddAll(v, ImageAdds(parts)))
    IN  AddAll(ResourcesSchema(image), EnvAdds \o AllResourceAdds \o PolicyAdds)

PodContainerValues(v, parts) ==
    LET image == ImageSchema(AddAll(v, ImageAdds(parts)))
    IN  AddAll(ResourcesSchema(AddAll(image, EnvAdds \o AllResourceAdds)), PolicyAdds)

ProcessPodContainer ==
    /\ pc = "containers"
    /\ idx <= Len(Containers)
    /\ IF ~Splittable(Quote(Container.image))
       THEN pc' = "error" /\ UNCHANGED <<idx, podValues, refs, rendered>>
       ELSE LET parts == Split(Quote(Container.image))
            IN  /\ podValues' = PodContainerValues(podValues, parts)
                /\ refs' = refs \union EnvRefs \union PolicyRefs \union
                       {Ref(CtrRef(<<"image", "reference">>), Expected(ImageAdds(parts))),
                        Ref(<<DomainKey>>, {<<<<DomainKey>>, DomainValue>>})}
                /\ rendered' = rendered \union RenderNames(Container.names)
                /\ idx' = idx + 1
                /\ Proceed(podValues', "containers")
    /\ UNCHANGED <<given, dep, values, templates, module, fileVars>>

(* The names of volumes, claims, the service account and pull secrets, at    *)
(* the end of processPodSpec and in ProcessSpec.                             *)
TemplateNames ==
    /\ pc = "containers"
    /\ idx > Len(Containers)
    /\ rendered' = rendered \union RenderNames(Depl.names)
    /\ pc' = "nested"
    /\ idx' = 1
    /\ UNCHANGED <<given, dep, values, podValues, templates, module, refs, fileVars>>

(* processContainers: resources that have values, looked up by the labels of  *)
(* the reference, and arguments.                                              *)
HasResources(path) == \E q \in DOMAIN podValues.values : IsStrictPrefix(path, q)
ResourceRefs ==
    IF HasResources(CtrRef(<<"resources">>))
    THEN {Ref(CtrRef(<<"resources">>), Expected(AllResourceAdds))}
    ELSE {}

ProcessContainer ==
    LET path == CtrPath(<<"args">>)
        args == CtrValue("list", "args", Container.args)
    IN  /\ pc = "nested"
        /\ idx <= Len(Containers)
        /\ IF Container.args # << >>
           THEN /\ podValues' = Add(podValues, Expr("[...string]"), args, path)
                /\ refs' = refs \union ResourceRefs \union
                       {Ref(CtrRef(<<"args">>), {<<path, args>>})}
           ELSE UNCHANGED podValues /\ refs' = refs \union ResourceRefs
        /\ idx' = idx + 1
        /\ Proceed(podValues', "nested")
        /\ UNCHANGED <<given, dep, values, templates, module, rendered, fileVars>>

(* The flag's empty list of pull secrets, unless the pod has its own.        *)
AddPullSecrets ==
    /\ pc = "nested"
    /\ idx > Len(Containers)
    /\ podValues' = IF PullSecrets /\ ~Depl.pullSecrets
                    THEN Add(podValues, Expr("#LocalObjectReference"),
                             Node("list", << >>, FALSE), <<"imagePullSecrets">>)
                    ELSE podValues
    /\ idx' = 1
    /\ Proceed(podValues', "security")
    /\ UNCHANGED <<given, dep, values, templates, module, refs, rendered, fileVars>>

(* ProcessContainerSecurityContext: the contexts there are, empty ones too.   *)
SecurityContext ==
    LET path  == CtrPath(<<"containerSecurityContext">>)
        value == CtrValue("map", "securityContext", Container.security)
    IN  /\ pc = "security"
        /\ idx <= Len(Containers)
        /\ IF Container.secured
           THEN /\ podValues' = Add(podValues, Expr("#SecurityContext"), value, path)
                /\ refs' = refs \union
                       {Ref(CtrRef(<<"containerSecurityContext">>), {<<path, value>>})}
           ELSE UNCHANGED <<podValues, refs>>
        /\ idx' = idx + 1
        /\ Proceed(podValues', "security")
        /\ UNCHANGED <<given, dep, values, templates, module, rendered, fileVars>>

NodeSelector ==
    LET path  == PodPath("nodeSelector")
        value == Value("map", 0, "nodeSelector", "", Quoted(Depl.nodeSelector))
    IN  /\ pc = "security"
        /\ idx > Len(Containers)
        /\ IF Depl.selectsNodes
           THEN /\ podValues' = Add(podValues, Pattern, value, path)
                /\ refs' = refs \union {Ref(ObjPath("nodeSelector"), {<<path, value>>})}
           ELSE UNCHANGED <<podValues, refs>>
        /\ Proceed(podValues', "merge")
        /\ UNCHANGED <<given, dep, idx, values, templates, module, rendered, fileVars>>

-----------------------------------------------------------------------------
(* The texts that stay in the pod, such as its commands, are written with it, *)
(* without their apostrophes.  So are its quantities, which are no strings    *)
(* when strings are quoted: those of volumes and of variables, and a           *)
(* container's resources unless a reference has replaced them.                *)
KeptResources(container) ==
    /\ container.requests \union container.limits # {}
    /\ ~HasResources(<<ObjLabel, Label[container.name], "resources">>)
PodQuantities ==
    Depl.quantities
        \o (IF \E c \in ToSet(Containers) : KeptResources(c) THEN <<Quantity>> ELSE << >>)
PodTexts ==
    {[x EXCEPT !.is.of = WithoutApostrophes(x.is.of)] :
        x \in UNION {Emitted(Quoted(Containers[i].command), TRUE, "pod") :
                         i \in 1..Len(Containers)}}
        \union Emitted([i \in 1..Len(PodQuantities) |->
                           InString(PodQuantities[i], PodQuantities[i])], TRUE, "quantity")

(* values.Merge(podValues), and the template is done; the next one starts    *)
(* with new Values.                                                          *)
MergePodValues ==
    LET merged == Merge(values, podValues)
    IN  /\ pc = "merge"
        /\ templates' = Append(templates, merged)
        /\ emitted' = emitted \union PodTexts
        /\ values' = NewValues /\ podValues' = NewValues
        /\ dep' = dep + 1
        /\ idx' = 1
        /\ Proceed(merged, "meta")
        /\ UNCHANGED <<given, module, refs, rendered, configFile>>

BeginCreate ==
    /\ pc = "meta"
    /\ dep > Len(given)
    /\ pc' = "create"
    /\ UNCHANGED <<given, dep, idx, values, podValues, templates, module, refs, rendered,
                   fileVars>>

(* output.Create: values.Merge(template.Values()) for each template in turn. *)
MergeTemplate ==
    /\ pc = "create"
    /\ idx <= Len(templates)
    /\ module' = Merge(module, templates[idx])
    /\ idx' = idx + 1
    /\ Proceed(module', "create")
    /\ UNCHANGED <<given, dep, values, podValues, templates, refs, rendered, fileVars>>

(* defaultConfig: the fields every #Config has, closed definitions of        *)
(* Timoni's or scalars, and the schema next to them.                         *)
DefaultFields == {"kubeVersion", "clusterVersion", "moduleVersion", "metadata"}
DefaultConfig(schema) ==
    [p \in DOMAIN schema \union {<<f>> : f \in DefaultFields} |->
        IF p \in {<<f>> : f \in DefaultFields} THEN Node("expr", <<"timoni">>, FALSE)
        ELSE schema[p]]

(* overwriteValuesFile and overwriteConfigFile.                              *)
Written ==
    /\ pc = "create"
    /\ idx > Len(templates)
    /\ emitted' = emitted \union
           UNION {Emitted(o.texts, TRUE, "values") :
                      o \in UNION {ToSet(module.values[p].of) : p \in DOMAIN module.values}}
    /\ configFile' = DefaultConfig(module.config)
    /\ pc' = "done"
    /\ UNCHANGED <<given, dep, idx, values, podValues, templates, module, refs, rendered>>

Next ==
    \/ ProcessObjMeta \/ ProcessReplicas \/ ProcessRevisionHistoryLimit \/ ProcessLabels
    \/ ProcessPodContainer \/ TemplateNames \/ ProcessContainer \/ AddPullSecrets
    \/ SecurityContext \/ NodeSelector
    \/ MergePodValues \/ BeginCreate \/ MergeTemplate \/ Written

Spec == Init /\ [][Next]_vars

-----------------------------------------------------------------------------
(* Properties                                                                *)

(* Every nested structure is one: what is below a node is below a struct.    *)
TypeOK ==
    /\ dep \in 1..Len(given) + 1
    /\ pc \in {"meta", "replicas", "revision", "labels", "containers", "nested", "security", "merge",
               "create", "done", "error", "panic"}
    /\ IsValues(values) /\ IsValues(podValues) /\ IsValues(module)
    /\ \A i \in 1..Len(templates) : IsValues(templates[i])

(* No two names whose labels are on one level get the same, once or twice,   *)
(* and none gets one that is in use there.                                   *)
DistinctFrom(labels, reserved) ==
    /\ \A i, j \in 1..Len(labels) : labels[i] = labels[j] => i = j
    /\ \A i \in 1..Len(labels) : labels[i] \notin reserved
LabelsOf(d) == {Label[d.name], Stored(d.name)}
DistinctLabels ==
    /\ \A i, j \in 1..Len(given) : LabelsOf(given[i]) \intersect LabelsOf(given[j]) # {} => i = j
    /\ \A d \in ToSet(given) :
          LET containers == d.containers \o d.initContainers
          IN  /\ LabelsOf(d) \intersect ({DomainKey, "imagePullSecrets"} \union DefaultFields) = {}
              /\ DistinctFrom([i \in 1..Len(containers) |-> Stored(containers[i].name)],
                              {"replicas", "revisionHistoryLimit", "nodeSelector"})
              /\ \A c \in ToSet(containers) :
                    /\ DistinctFrom([i \in 1..Len(c.env) |-> Stored(c.env[i].name)], {})
                    /\ \A resources \in {c.requests, c.limits} : \A m, n \in resources :
                          Label[m] = Label[n] => m = n

HasSchema(path) ==
    /\ path[1] \notin DefaultFields
    /\ \/ path \in DOMAIN configFile
       \/ \E q \in StrictPrefixes(path) \intersect DOMAIN configFile :
             configFile[q].kind # "struct"

(* A reference is to a value, to the resources it is one of, or to what        *)
(* #Image makes of it and others.                                            *)
RefersTo(ref, path) ==
    \/ ref = path
    \/ Len(path) = 4 /\ path[3] = "image" /\ ref = <<path[1], path[2], "image", "reference">>
    \/ Len(path) = 5 /\ path[3] = "resources" /\ ref = <<path[1], path[2], "resources">>

Held(r) == \A e \in r.expected : e[1] \in DOMAIN module.values /\ module.values[e[1]] = e[2]
Resolves(r) == HasSchema(r.path) /\ \A e \in r.expected : RefersTo(r.path, e[1])

(* Values makes no other labels of those of a reference.                      *)
Settled(path) == \A i \in 1..Len(path) : path[i] \in DOMAIN Again => Again[path[i]] = path[i]

(* When names stay distinct in camel case, the merged module holds, for every *)
(* #config expression in every template of the run, the very values its own   *)
(* Deployment and container put there: neither a later step of the same       *)
(* Deployment nor the values of another one replace them (values.go Add and    *)
(* Merge over deployment.go and pod.go).  And they are where the expression   *)
(* points to, below #Config's schema, unless the second conversion changes    *)
(* one of its labels (values.go 51), as that of _JAVA_OPTIONS, which is        *)
(* referred to as JavaOptions and is javaOptions.                              *)
ReferencesResolve ==
    pc = "done" /\ DistinctLabels => \A r \in refs : Held(r) /\ (Settled(r.path) => Resolves(r))

(* The values below a 0 of a Deployment, that is those of a container called  *)
(* replicas or revision-history-limit: the 0 gives way to them, and its        *)
(* schema stays.                                                              *)
AtUnset(p) ==
    \E i \in 1..Len(given) :
        /\ p[1] = Label[given[i].name]
        /\ \/ p[2] = "replicas" /\ given[i].replicas = "zero"
           \/ p[2] = "revisionHistoryLimit" /\ given[i].revision = "zero"
BelowUnset(p) == Len(p) > 2 /\ AtUnset(p)

(* Every value of values.cue has a schema in #Config, which is closed, in     *)
(* every run that ends well, colliding names included: values and schema are  *)
(* kept in two structures, added to and merged by different rules (values.go  *)
(* 40-92).  Two exceptions: Deployments named like a default field, and the   *)
(* values of BelowUnset, which lose their schema when another Deployment      *)
(* with the same label has such a container too.                              *)
ValuesHaveSchema ==
    pc = "done" => \A p \in DOMAIN module.values :
        module.values[p].kind # "struct" /\ p[1] \notin DefaultFields /\ ~BelowUnset(p)
            => HasSchema(p)

(* The container a value comes from; what a schema of #Config says of a value *)
(* of values.cue at the same path.  #SecurityContext allows no escalation,    *)
(* and one capability to be dropped in all the contexts joined there.         *)
ContainersOf(i) == given[i].containers \o given[i].initContainers
OriginContainer(origin) == ContainersOf(origin.dep)[origin.container]
IsNumber(value) == value.of[1].field \in {"replicas", "revisionHistoryLimit"}
Restrained(origins) ==
    /\ \A k \in 1..Len(origins) :
          ~OriginContainer(origins[k]).escalates /\ OriginContainer(origins[k]).drops <= 1
    /\ \A k, l \in 1..Len(origins) :
          OriginContainer(origins[k]).drops = 1 /\ OriginContainer(origins[l]).drops = 1 => k = l
Allows(expr, value) ==
    CASE expr = "int & >0" -> value.kind = "atom" /\ IsNumber(value)
      [] expr = "int64" -> value.kind \in {"atom", "zero"} /\ IsNumber(value)
      [] expr = "string" -> value.kind \in {"atom", "zero"} /\ ~IsNumber(value)
      [] expr = "#PullPolicy" -> value.kind = "atom" /\ ~IsNumber(value)
      [] expr = "[...string]" -> value.kind = "list"
      [] expr = "#SecurityContext" -> value.kind = "map" /\ Restrained(value.of)
      [] OTHER -> value.kind = "struct"
Admits(schema, value) ==
    \/ schema.kind = "struct" /\ value.kind = "struct"
    \/ schema.kind = "pattern" /\ value.kind = "map"
    \/ schema.kind = "expr" /\ Allows(schema.of[1], value)

(* The security contexts of the run whose values are at a path; whether the    *)
(* schema allows them all, joined.                                            *)
Contexts(path) ==
    {o \in UNION {{i} \X (1..Len(ContainersOf(i))) : i \in 1..Len(given)} :
        LET container == ContainersOf(o[1])[o[2]]
        IN  /\ container.secured
            /\ path = <<Stored(given[o[1]].name), Stored(container.name),
                        "containerSecurityContext">>}
SchemaAllows(contexts) ==
    LET ContainerAt(o) == ContainersOf(o[1])[o[2]]
    IN  /\ \A o \in contexts : ~ContainerAt(o).escalates /\ ContainerAt(o).drops <= 1
        /\ \A o, u \in contexts : ContainerAt(o).drops = 1 /\ ContainerAt(u).drops = 1 => o = u

(* The module's values are of the schema generated for them, names colliding  *)
(* or not, so that the module as it is written checks, with these exceptions:  *)
(* Deployments named like a default field; replicas scaled to 0                *)
(* (deployment.go:203 says >0); what takes the place of a 0, replicas or        *)
(* revisionHistoryLimit, as the values of a container with that label do; the  *)
(* empty list of --image-pull-secrets (pod.go:58 gives it the schema of one    *)
(* reference); and security contexts that allow escalation or drop more than   *)
(* one capability, one of them or those of several Deployments joined at one   *)
(* path (container_security_context.go:55-61).                                 *)
ValuesFitSchema ==
    pc = "done" =>
        \A p \in DOMAIN module.values \intersect DOMAIN configFile :
            LET value == module.values[p]
            IN  \/ Admits(configFile[p], value)
                \/ p[1] \in DefaultFields
                \/ p = <<"imagePullSecrets">> /\ value.kind = "list"
                \/ Len(p) = 2 /\ AtUnset(p) /\ value.kind = "struct"
                \/ Len(p) = 2 /\ AtUnset(p) /\ value.kind = "zero" /\ p[2] = "replicas"
                \/ /\ Len(p) = 3 /\ p[3] = "containerSecurityContext"
                   /\ ~SchemaAllows(Contexts(p))

(* What the schema requires has values: AddConfig makes an image, and the     *)
(* structs it creates on the way, required, and no default stands for them.   *)
RequiredHaveValues ==
    pc = "done" => \A p \in DOMAIN configFile :
        configFile[p].required => p \in DOMAIN module.values

(* A run ends in an error only for an image without a tag, and panics only    *)
(* when names collide or a Deployment has no selector.                        *)
EndsWellUnlessCollision ==
    /\ pc = "panic" => ~DistinctLabels \/ \E d \in ToSet(given) : ~d.selector
    /\ pc = "error" /\ DistinctLabels =>
          \E d \in ToSet(given) : \E c \in ToSet(d.containers \o d.initContainers) :
              ~Splittable(Quote(c.image))

(* Every text of the manifest is, wherever it goes, that text as a CUE string *)
(* in the module, never an expression and never quoted twice: each place      *)
(* quotes what it will parse, and quotes it once (deployment.go:107, the      *)
(* Quotes of pod.go and module.go, and the parse arguments of Marshal).       *)
(* Excepted are apostrophes in a pod spec (deployment.go:175) and quantities  *)
(* that stay in it, such as the limit of an emptyDir, which are written as    *)
(* the numbers they parse to.                                                 *)
TextsKept ==
    pc = "done" => \A x \in emitted :
        \/ x.is = Text(x.was)
        \/ x.in = "pod" /\ Apostrophe \in ToSet(x.was)
        \/ x.in = "quantity" /\ x.is = Expression(x.was)

(* The images of the module: what #Image.reference gives for the values of    *)
(* each container.                                                            *)
ImageValues(r) ==
    [field \in {"repository", "tag", "digest"} |->
        (CHOOSE e \in r.expected : Last(e[1]) = field)[2].of[1].texts[1].was]
ImageRefs == {r \in refs : Len(r.path) = 4 /\ r.path[3] = "image"}
ImageOf(r) ==
    OriginContainer((CHOOSE e \in r.expected : TRUE)[2].of[1]).image

(* A container runs the image it ran before, and no part of a registry's      *)
(* port or path is taken for its tag when the image has one; images with a    *)
(* digest and one more colon, and images that end in a colon and are none,    *)
(* excepted (pod.go 179-197).                                                 *)
ImagesKept ==
    \A r \in ImageRefs :
        LET image == ImageOf(r)
            tag   == ImageValues(r)["tag"]
        IN  ~HasDigest(image) /\ Last(image) # ":" =>
                /\ Reference(ImageValues(r)) = image
                /\ "/" \in ToSet(tag) => LastIndex(image, ":") < LastIndex(image, "/")

(* pod_test.go:231-232 expects of an image with a tag and a digest the       *)
(* repository "nginx" and the rest as its tag: what is rendered is the image  *)
(* there was.                                                                 *)
DigestsKept ==
    \A r \in ImageRefs : HasDigest(ImageOf(r)) => Reference(ImageValues(r)) = ImageOf(r)

(* pod.go:28 "replace PVC to templated name": the names in a pod of objects   *)
(* of the module are rendered like those objects' own names.                  *)
NamesFollowObjects ==
    \A r \in rendered : r.name \in ObjectNames => r.as = TemplatedName(Name(r.name, FALSE))
=============================================================================
