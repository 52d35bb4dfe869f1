# timonify: specifications and proofs

timonify reads Kubernetes manifests (stdin, or files and directories given with
`-f`) and writes a Timoni module: CUE templates, `values.cue` and
`templates/config.cue`. This directory holds TLA+ models of it, the TLC
configurations that check them on small instances, and TLAPS proofs of the
results that hold for every instance.

To check a run: `tlc -config MCApp.cfg MCApp.tla`. To check the proofs of a
module: `tlapm MetadataProofs.tla`. `PROJECT.json` lists the runs, the source lines each
definition stands for, the hazards, and for every property a plausible bug (a
"mutant" operator in the module) that breaks it.

## The system

| Part | Source | State | Operations | What makes it correct |
|---|---|---|---|---|
| Command line | `cmd/timonify`, `pkg/config` | `config.Config` | parse flags, default and validate the module name | an invalid name or a terminal as stdin touches nothing |
| Application | `pkg/app/app.go`, `context.go` | objects and file names of the run, the metadata service, the cancellable context | `Start`, `Add`, `CreateHelm`, `process`; the signal handler | the output is written from the whole input or not at all; names are rendered with the metadata of all objects; a signal ends the run |
| Decoder | `pkg/decoder` | one goroutine and its channel of capacity 1 per input | `Decode` | every decodable document once and in order; ends at EOF or at a stop |
| File walk | `pkg/file` | none | `Walk` | every readable file is handed over, an unreadable one is skipped |
| Metadata service | `pkg/metadata` | common name prefix, namespace, set of names | `Load`, `TrimName`, `TemplatedName`, `TemplatedString`, `Namespace`, `ModuleName` | the prefix is common to the names and does not depend on their order; trimming keeps names apart and never leaves nothing |
| Processors | `pkg/processor`: default, `deployment`, `pod`, `security-context` | none between objects | `Process`, `ProcessSpec`, ... | what a template refers to exists in the schema and the values of its module |
| Values | `pkg/timonify/values.go` | a CUE schema tree and a map of values | `Add`, `AddConfig`, `Merge` | schema and values agree, one template's value is not lost to another's |
| CUE text | `pkg/cue`, `pkg/format` | none | `Marshal`, `parseStringLits`, quoting | a string stays a string and a reference becomes an expression |
| Output | `pkg/timoni` | the module directory on disk | `Create`: skeleton, templates, `values.cue`, `config.cue` | the files of a run are consistent, whatever fails; `timoni.cue` is never overwritten |
| Unwired processors | `pkg/processor/todo` | | | not registered in `app.Start`, not compiling against the current `Values` |

How they interact. `main` passes a `Config` and stdin to `app.Start`, which
installs a signal handler (a goroutine that takes one signal and cancels the
context), and for stdin or for each file `file.Walk` hands over calls
`decoder.Decode` and ranges over its channel, adding each object to the
application context; `Add` loads it into the metadata service. When every input
is exhausted `CreateHelm` processes the objects one by one, the first processor
that takes an object producing its template, and calls `output.Create` with all
templates and file names. Nothing else is concurrent: the decoder goroutine, the
main goroutine and the handler share the channel and the context only.

What is hard to test in it:

* **Interleavings.** A stop may reach the decoder goroutine between any two
  steps while the consumer drains the channel; a signal may come at any step of
  the run; a stream may stay open.
* **Order of the objects.** The prefix and the namespace are kept incrementally,
  over objects in whatever order the inputs hold them.
* **Two phases.** Names rendered before the last object is loaded would be
  rendered differently from references to them.
* **Parallel lists.** `objects`, `fileNames`, `templates` and `filenames` are
  matched by index while some objects have no template.
* **Two structures, two rules.** A template's references, the schema and the
  values are written in one call and merged by different rules, template by
  template; the paths are labels in camel case, which names may share.
* **Failure half-way.** The module is a directory of files rewritten one by one,
  over the result of earlier runs, with commands in between that may fail.

## Modules

| Module | Models | Depends on |
|---|---|---|
| `Metadata` | `metadata.Service` | |
| `MetadataProofs` | theorems about `Metadata` | `Metadata` |
| `DecoderProofs` | theorems about `Decoder`, the refinement included | `Decoder`, `ObjectStream` |
| `ObjectStream` | what `Decode` promises its caller (abstract) | |
| `Decoder` | `decoder.Decode` and the loop over its channel | implements `ObjectStream` |
| `FileWalk` | `file.Walk` over a file system that others change | |
| `FileWalkProofs` | theorems about `FileWalk` | `FileWalk` |
| `Conversion` | what a run promises whoever looks at its output (abstract) | instances of `Metadata` |
| `App` | one run: main goroutine, the walk it makes, decoder goroutine, signal handler, stdin's writer, other processes | instances of `FileWalk`, `Decoder` and `Metadata`; implements `Conversion` |
| `AppProofs` | theorems about `App`, the refinement of `Conversion` included | `App`; instances of `FileWalkProofs`, `DecoderProofs` and `MetadataProofs` |
| `Publication` | what `output.Create` promises about the module directory, run after run (abstract) | |
| `TimoniModule` | the module directory under repeated runs, failures and crashes, and how CUE takes what is in it | implements `Publication` |
| `TimoniModuleProofs` | theorems about `TimoniModule`, the refinement included | `TimoniModule`, `Publication` |
| `Values` | `timonify.Values`, as operators | |
| `ValuesProofs` | theorems about `Values` | `Values` |
| `ImageRef` | the cutting of an image and `#Image`, as operators | |
| `CueText` | how the strings of a manifest are quoted and parsed as CUE, as operators | extends `ImageRef` |
| `Deployments` | the processing of all Deployments of a run, the merging of their values, and what becomes of their texts | extends `Values` and `CueText` |
| `DeploymentsProofs` | theorems about `ImageRef` and about the values and schemas of `Deployments` | `Deployments`, `ValuesProofs` |
| `ReferencesProofs` | theorems about the references of `Deployments` | `DeploymentsProofs` |
| `MC...` | the small instances TLC checks | |

### Metadata

State: `commonPrefix`, `namespace` and `names` are the fields of `Service`;
`loaded`, the objects given to `Load`, is a history the properties refer to. One
action, `Load`, is the whole method. `TrimName` and `TemplatedName` are the
accessors, as operators over the state. A name is a sequence of characters,
since what the properties are about (a prefix that ends inside a word, a name that
is only the prefix and a separator) happens below the level of whole names. Of
`nameTeml` the model keeps whether a name was templated and with which rest.

### Decoder and ObjectStream

A document is known by its position. `input`, `ending` and `available` are the
reader (how many documents have arrived, and whether the stream ends in EOF, in an error
on every further read, or stays open); `read`, `gpc` and `held` the goroutine;
`res` the channel's buffer; `stop` the stop channel; `received` and `over` the
loop of the caller. One action per step the goroutine can be preempted at:
`CheckStop` (the select), `ReadDocument`/`ReadEOF`/`ReadError` (the read and
what follows each outcome; a document that fails in any of the three decoding
steps is skipped), `Send`. `Decode` starts over on another reader.

`ObjectStream` is the promise: the decodable documents, in order, once each, all
of them unless stopped, and after a stop at most `Late` more. `Decoder`
implements it with `Late = BufferSize + 1`: one object in the channel, one in the
hands of the goroutine (or one it is about to read, having looked at stop before).
`StreamQuota` is the refinement mapping's bound on what may still come.

### App

`App` composes the parts of a run. `mpc` is where the main goroutine is, `idx` the object
it processes. The variables of `FileWalk` and of `Decoder` are instantiated as they are;
`WalkFiles` is a step of the walk, and when that step hands over a file, `Decode` starts
on what the file holds (`Contents`) and the walk waits for the loop over the channel, as
`walkFunc` is called by `Walk` in the code. The metadata service is instantiated with
`loaded` mapped to the objects of the context. `Start` is `main` and the first lines of
`app.Start`: flags that print and exit, a terminal as stdin, an invalid module name.
`output.Create` is one step that succeeds or fails, `TimoniModule` is its detail. `Signal`
puts a signal into the channel of capacity one, `HandleSignal` takes it and cancels the
context; it takes only one, as the code does. `OtherProcess` removes files while the run
reads others. What a processor does with an object is reduced to whether it takes it,
skips it (a Namespace) or fails, the name it renders (`Template`) and the file it names.
`AppAssumption` is what the parts assume, that what stdin and the files hold
(`Contents`, of files only) are streams of finitely many documents, that every decodable
document decodes to an object, and that a Deployment is no Namespace and no CRD.

`Conversion` is the promise: objects are taken one after another; then the run gives up
with nothing written, or writes, in one step, what a function of the sequence of objects
says (which of them have a template, under which name, in which file). Its metadata are
a function of all the objects; the code's are kept incrementally. The refinement
mapping reads `source` off the context and `module` off the lists given to `output.Create`.

### FileWalk

A path is a sequence of numbers, in the order of the names they stand for; `Entry`
is the file system: files, directories and links, some of which cannot be opened or
listed. `pc` is the branch of `Walk` the path `cur` is in, `left` what of it is still
to be visited (the entries of a directory, or what `filepath.WalkDir` has met and
not visited yet), `handed` what `walkFunc` was given, `warned` the paths a warning was
logged of. `StatPath`, `SingleFile`, `ListDir`, `OpenEntry`, `WalkEntry` are the calls to
the file system with what follows each outcome. Between any two of them
`RemovePath` may remove a file or a directory (`gone`), so that something was there
when the code looked and is not when it opens it. The kind of an entry stays the one it
was listed with, as that of a Go `DirEntry` does. "A warning was logged" says nothing of
whether the user sees it: at the default log level (`Error`) it is not shown.
`FileWalkAssumption` is what a file system is: finite, what is above an entry is a directory,
and a link is given with what it finally leads to, which is no link.

### TimoniModule

`disk` maps each path to what it holds: absent, torn, edited by the user, generated
text, or the templates, values or config of a given run. `pc` is the step of
`output.Create`; `err` is the variable `createFile` captures and the vendoring
commands overwrite; `left` are the template files a Go map's iteration has not reached
yet. A template is the file it goes to, the kind of its object and the trimmed name;
`ObjectType` and `ObjectLabel` are what it defines and the field of the instance that uses
it, through the two conversions of the code (`strcase.ToCamel`, dashes removed), which are
constants given as functions on the names of the instance. Every write may fail, leaving
the old content or a torn file; a template whose type is no identifier does not format
(`Formats`), and its file is left cut short; the vendoring commands may fail; the process
may die between any two steps or in the middle of a write; the user may edit `timoni.cue`
between runs. `Package`, `Loads`, `Defined` and `Field` say what CUE makes of the files of
the directory, those of earlier runs included. `ModuleAssumption` says that templates have
paths of their own (they are in `templates/`, with names `module.go` gives no other file), and
that the conversions are defined on the names that occur. The layout comment of
`pkg/timoni/module.go` lists a `README.md` that no code writes; the model has no such path.

`Publication` is the promise: the module in the directory is the whole one of one run or
nobody's (`published`); a run unpublishes what was there before it publishes its own
module, in its last step, and reports success then and only then. The mapping takes a
module for published if everything its `config.cue` goes with is on disk whole
(`WholeModule`). It says when the old module stops being usable: with the first template
file or `values.cue` that is rewritten, so that a run that fails after that leaves none.

### Values, ImageRef and CueText

A `Values` is a record of two nested structures, `config` (the schema) and
`values`, and the `outcome` of what was done to them: an error, or a panic where the
code asserts a type that may not hold (`currentNode.(*ast.StructLit)` in
`setNestedCueField`, `field.Label.(*ast.Ident)` in `mergeStructLits`). A nested
structure is a function from paths to nodes, so that "what is below" is a longer
path and the two recursive Go functions become one `Put` and one `MergeTrees`.
A node has the kind the merging tells apart and, instead of its text, the origins
it comes from. `mergo` and `unstructured` are modelled by what they do with
these: the first value wins unless it is unset, slices and maps are joined.
`AddYaml` and `AddSecret`, called by the unwired processors only, are left out.

`ImageRef` works on characters, since the index arithmetic is what can go wrong.

`CueText` is the convention between the processors, which quote the texts of a
manifest, and `cue.Marshal`, which parses every string it meets: a quoted one becomes
a text, an unquoted one an expression if it is one. Which unquoted texts are
expressions of CUE is a constant, `Expressions`.

### Deployments

`pc`, `dep` and `idx` are the step, the Deployment and the container that are
processed. `values` and `podValues` the two `Values` of `deployment.Process` and
`pod.ProcessSpec`, `templates` those already merged and `module` that of
`output.Create`. One action per function that adds values: `ProcessReplicas`,
`ProcessRevisionHistoryLimit`, `ProcessPodContainer` (with the image, environment,
resources and pull policy of one container, in the order of the code),
`ProcessContainer` (resources and arguments), `AddPullSecrets`, `SecurityContext`,
`NodeSelector`; before them `ProcessObjMeta` and, between them, `ProcessLabels`, which
write texts; then `MergePodValues` and, in `output.Create`, `MergeTemplate` and
`Written`. `configFile` is the `#Config` of `config.cue`: the schema with the fields
`defaultConfig` gives every module. `emitted` holds, for each text of the manifest, where it
was written and as what.
`refs` are the `#config` expressions the templates contain, each with the value
its Deployment means by it; `rendered` says how the names a pod refers to came out.
`Admits` says which values a schema generated by the code admits (`int & >0`,
`int64`, `string`, `#PullPolicy`, `[...string]`, `#SecurityContext`, a struct), as far as the values
of a manifest can tell them apart; `OriginContainer` finds the container a value comes from.

There are two conversions to camel case. `Label` is the one the processors use
(`strcase.ToLowerCamel`); `Again` is `Values`' own `toCamelCase`, which `Add` applies to every
label of a path. A reference has labels converted once (`CtrRef`, `ObjPath`), a value of a pod
those of the processor converted a second time (`Stored`: `CtrPath`, `PodPath`), and the two
differ where the second conversion does not leave a label alone. `processContainers` looks a
container's resources up by the labels of the reference (`HasResources`). The scalars of
`deployment.go` are added below the Deployment's own name, and what `Add` returns is their
reference, so that `ObjPath` serves for both. The instance has names of either kind.

What mergo makes of a value decides its kind: 0 and an empty text are unset (`"zero"`) and give
way, everything else (`"atom"`) stays. `replicas` and `revisionHistoryLimit` are each missing, 0 or another number, and a
variable of the environment may be empty. Security contexts that meet at one path are joined:
their lists are appended, so `Restrained` judges all origins of the value together, by what
each container `escalates` and `drops`.

The texts copied with a pod are of two kinds. Commands stand for the strings, which
`QuoteStringsInStruct` has quoted; `PodQuantities` for the quantities, which are structs to it and
stay as they are: those of volumes and of variables, and a container's resources unless a
reference has replaced them (`KeptResources`).

The order of a container's resources, a Go map's, matters only to names that get one label: the
last one stays; `DistinctLabels` excludes them where a property needs it.
`DeploymentsAssumption` says what the constants are: a run is a sequence of Deployments, the
names are finitely many, their labels are strings and converted again to strings, a quantity is
printed without quotes, and an empty text is no expression (a parser of expressions fails on it).

## What the runs check

| Run | Instance | Shows |
|---|---|---|
| `metadata` | seven names over `a`, `b`, `-` (with a shared prefix, without one, only the prefix, empty), three namespaces, three kinds; up to 3 loads | the prefix is the longest common one whenever the names share anything, in every order and with CRDs and namespaces between; it only shrinks; trimming merges two names only for the listed reasons; the namespace is the last one named; no name is rendered empty |
| `decoder` | streams of up to 4 documents, decodable or not, ending in EOF, error, or open; capacity 1, the code's | no object lost, duplicated or reordered; the loop's end means completeness unless stopped; an ended stream ends, a stop ends the loop unless the goroutine sits in a read; refinement of `ObjectStream` |
| `app` | stdin with up to 3 documents and every ending; or one or two paths given with `-f`, with and without `-r`, over eleven entries (nested files, a directory behind a link, a file that does not open, a reader that breaks), one of which may be removed; a Deployment, a Service, a Namespace, an object that cannot be processed, one that does not decode; flags that exit, an invalid name, a terminal as stdin; a signal at any step | the output is complete (every file that was asked for, or its path warned of), in order, rendered with the final metadata, each template to its own file, all or nothing; the run ends unless its input hangs; a signal ends it; refinement of `Conversion` |
| `timoni_module` | three runs on one directory, each with one of twelve sets of templates (one or two objects; a shared file; types, labels or files that collide within a run, with `config.cue`, or with what an earlier run left; names that give no identifier); all five kinds of faults at every step | `config.cue` never lists objects whose templates are not on disk; whatever ran before, a successful run whose names do not collide leaves a package that loads and whose instance is this run's objects, each defined once; a run whose vendoring fails does not go on; `timoni.cue` is never overwritten; refinement of `Publication` |
| `deployments` | one Deployment with a container and perhaps an init container, or two Deployments, of every shape; names equal in camel case, names in use at their place, names whose label is converted again to another, numbers that are 0, joined security contexts, quantities, images without a tag, with a registry's port, a digest | the merged module holds, for every reference of every template, what its own container put there, unless names collide, and the reference points to it, unless the second conversion changes one of its labels; every value has a schema, those of a Deployment named like a default field and those below a 0 aside; the schema at a value's path admits it, the exceptions of `ValuesFitSchema` aside; every required schema has a value; a run panics only when names collide or a selector is missing; images stay what they were; every text of the manifest is, wherever it is written, that text as a CUE string, but for apostrophes and quantities in a pod |
| `file_walk` | nineteen entries: nested directories, files and directories that cannot be opened or listed, links to files and directories, one to the directory it is in; one or two paths, one of them absent; with and without `-r`; two removals at any step | no file is lost without a warning of its path, and none because another path fails; what is read is a file; the files come in the order of the paths and, with `-r`, in lexical order; a panic only for something that was there and does not open, and never inside a recursive walk; the walk ends |
| `prefix_reset` | violation | finding 1 |
| `app_interrupt` | violation | finding 2 |
| `skeleton` | violation | finding 3 |
| `two_deployments` | violation | finding 4 |
| `image_digest` | violation | finding 5 |
| `pod_names` | violation | finding 6 |

Bounds. `MaxLoads = 3` suffices for the prefix: it is a fold over pairs, and what
can go wrong (reset, re-detection, an ignored object between two others) needs three objects. In
`Decoder` four documents are twice what the channel and the goroutine hold at once, so every
fill level meets every continuation. In `App` three documents give an object
before, at and after any skipped, failing or undecodable one; two files, of one directory
or of two paths, give every switch of source, and the file system has one entry for each
way in which the walk can meet the rest of a run (a file that vanishes or panics after
another one was loaded, a directory handed over as a file). In `TimoniModule` three runs give a crash, a run over its
remains and a run over that one's result; two templates are enough, since collisions are
between two. In `Deployments` two containers and
two Deployments are enough: merging is pairwise, and a path is shared by two. In
`FileWalk` two paths give a failing path before and after a good one, and two
removals (`MaxGone`) take away a directory and something else while it is walked. The
instance of `Deployments` has a name for each way in which two names can meet. `CHECK_DEADLOCK FALSE` is set
because all six systems stop: a run ends, a bound is reached.

Fairness. `Decoder` and `App` assume weak fairness of the goroutine's steps, of
the consuming main goroutine and of the signal handler: the Go scheduler is
preemptive and runs every runnable goroutine; a blocked send or receive is not
enabled in the model either. Nothing is assumed of whoever writes to stdin, nor of signals. Liveness
therefore excepts what the code really waits for: a read no one answers, and a
reader whose errors never end (the loop reads it again forever until a stop). `FileWalk` assumes
weak fairness of the walk, a loop nothing blocks; in `App` it is part of the main
goroutine. `Metadata`, `TimoniModule` and `Deployments` have safety properties only: each is a
sequence of steps without a loop that could go on.

## Findings

Each is the counterexample of one run, with the text it disagrees with in `PROJECT.json`.

1. `metadata.go:113` takes an empty prefix for "no object seen yet": after two
   names with nothing in common, the next name becomes the prefix whole.
2. `context.go:72` looks at stop inside the loop over objects only: a run
   interrupted before its first object writes an empty module.
3. `init.go:128` overwrites the error of a failed `createFile`; a run without
   `timoni.cue` reports success.
4. `module.go:104` joins the Deployments of a run in `deployment.cue` with a `---` line, which is not CUE.
5. `pod.go:185` cuts an image with a tag and a digest at a position of the quoted string, one
   beyond the first colon of the image: `nginx:1.14.2@sha256:...` gets the repository `nginx:`
   and `.14.2@sha256:...` for its digest, one character of the tag is gone.
6. `deployment.go:107` quotes all strings before the pod is processed, so the
   names of ConfigMaps, Secrets, claims and service accounts in a pod do not
   follow the objects, which are renamed.

Other disagreements seen while modelling, which no run is spent on:

* `metadata.go:119` cuts at characters where the examples of `timonify/model.go:46-47`
  cut at words: `my-app-service1` and `my-app-secret` become `rvice1` and `cret`.
* `init.go:87` takes `timoni.cue`, written first, for the sign of a complete
  skeleton; a run after a failed vendoring never completes it (`SkeletonComplete`
  with `Faults = {"vendor"}` and two runs).
* `context.go:67`: with `-f` a template keeps the name of the input file, which CUE does
  not load; `module.go:153` overwrites the template of an object whose trimmed
  name is `config` (`ObjectsDefined` for such inputs; a case of `Collides`).
* `default.go:94`, `:98`: the type and the field of an object are made of its trimmed name
  alone. A Service and a ConfigMap of one name, or `a-b` and `ab`, get one definition or one
  field for two objects; an object called `instance` meets the `#Instance` of `config.cue`, and
  one whose name without dashes is `config` hides the `config` all others refer to. A name with
  a dot gives a field that is no identifier in `config.cue`, one that starts with a digit a
  definition that does not format, so that the run fails half-way. `InstanceIsRun` names
  them (`Collides`); each part of `Collides` is needed, without it TLC finds the package that
  does not load or mixes two objects.
* `module.go:71`: template files of earlier runs are overwritten and never removed; the object
  that is gone stays in the package, harmless until its type is one of this run's.
* `values.go:32`: containers or objects whose names are equal in camel case, or a
  container called `replicas`, share a path, and one's values are lost
  (`ReferencesResolve` without `DistinctLabels`). With two such Deployments, one of them with
  `replicas` or `revisionHistoryLimit` 0 (`deployment.go:203`, `:216`), even the schema goes: 0 is
  unset to mergo and gives way to the values of the container called `replicas` or
  `revision-history-limit`, while the schema of 0 stays (`BelowUnset`, the exception of
  `ValuesHaveSchema`).
* `values.go:51`: `Add` converts the labels of a path to camel case once more, and a template's
  reference does not. The variable `_JAVA_OPTIONS` is referred to as `JavaOptions` and is
  `javaOptions`; `1-b-c` is another such name. The reference is to a field that does not exist
  (the condition `Settled` of `ReferencesResolve`).
* `pod.go:235`: a resource's name is turned into camel case with the rest of its path; of two
  resources that get one label one stays, either of them.
* `pod.go:189`: an image that ends in a colon, which is no image, loses the colon
  (an exception of `ImagesKept`).
* `deployment.go:203`: the schema refuses a Deployment scaled to 0; `pod.go:58` gives the list of
  `--image-pull-secrets` the schema of one reference; `#SecurityContext` refuses the
  contexts of `container_security_context.go:52` that allow escalation or drop more than
  one capability, and two that drop one each when their containers' labels collide, because
  mergo appends the lists (exceptions of `ValuesFitSchema`).
* `deployment.go:107`: a quantity is no string to `QuoteStringsInStruct`. The `sizeLimit` of an
  `emptyDir`, the divisor of a variable, the resources of a container whose label the second
  conversion changes are parsed by `cue.Marshal` and written as numbers (the exception
  `"quantity"` of `TextsKept`).
* `reader.go:16`: a path that cannot be read is skipped with a warning which the default log
  level hides; the run succeeds without it.
* `reader.go:23`, `:37`, `:51`: the warning of a file that does not open asks the file,
  which is nil then, for its name: `Walk` panics (`PanicsOnlyUnopened` says when).
* `reader.go:46`, `:68`: a link to a directory, among the entries of a directory or given
  with `-r`, is handed over as a file; every read of it fails and the decoder reads it
  again forever.
* `deployment.go:125`: a Deployment without a selector panics.
* `deployment.go:175` removes every apostrophe from a pod spec, those of commands included.
* `timoni/config.go:103`: a Deployment named like one of the default fields of `#Config`
  (`metadata`, ...) shares its field.

## What is proved

`MetadataProofs`, for every alphabet, every set of names and namespaces, both
settings of `--original-name` and any number of objects, from
`MetadataAssumption` (names are sequences of characters, the unset namespace is a
namespace) alone:

* `TypeCorrect`: the type invariant.
* `PrefixExact`: `[]PrefixExactWhenShared`. The property is not inductive: it
  says nothing of the prefix while no application object is loaded, and then
  `detectCommonPrefix` takes whatever the prefix is. `PrefixInv` adds that the prefix is
  empty until then. The step has three cases: an object the prefix ignores; the
  first application object; a further one, where the old prefix is non-empty because the
  names share their first character, and the longest common prefix of the names and the new
  name is the longest common prefix of the old result and the new name
  (`LongestPrefixExtends`, from `CommonPrefixIsLongest`, what the Go function
  `commonPrefix` returns).
* `PrefixShrinks`: the action property, from the type invariant.
* `NamesNotEmpty`: no name is rendered empty.
* `NamespaceCorrect`: the namespace is the last one named.
* `NamesStayApart`: `[]TrimKeepsNamesApart`. What `TrimName` takes off two different names is
  the prefix and the characters of the separator after it; `TrimLeftCuts` says what the loop
  over these leaves, by the least length for which it would leave something else.

`DecoderProofs`, for every set of documents, every stream and every capacity,
from `DecoderAssumption` (the capacity is at least one, as the code's is):

* `TypeCorrect`, `NothingLost` (`[]InOrderNoLoss`) and `LoopComplete`
  (`[]CompleteUnlessStopped`), from one invariant, `DecoderInv`: what was received, is
  in the channel and in the goroutine's hands is, in this order, a sorted sequence
  of exactly the decodable documents read; what is in its hands is the last one read;
  and the goroutine ends only for a stop or at the end of the stream. Only
  `ReadDocument` makes the sequence longer; `Send` and `Receive` move it along.
* `Implementation`: `Spec => ImplementsObjectStream`. That the channel's head is the
  *next* document for the caller (`HeadIsNext`) is where sortedness is needed: a
  decodable document between the last one received and the head would have to
  stand between them in the sequence.

`ValuesProofs`, for every set of labels: `Add`, `AddConfig` and `Merge` keep both
structures nested (what is below a node is below a struct); `Put` changes
nothing that is not below its path; `Merge` keeps what the first has and takes over
what only the second has. The induction is over the prefixes of a path, which are
closed under taking prefixes (`PrefixesNest`), so none over the structure is needed.

`FileWalkProofs`, for every file system, every list of paths, with and without `-r`, and any
number of removals, from `FileWalkAssumption`:

* `TypeCorrect`, `NoFileLost` (`[]NoFileLostQuietly`), `OnlyFilesRead` (`[]StreamsAreFiles`),
  `OnlyAskedFor` (`[]HandedAsAsked`), `PanicsAreUnopened` (`[]PanicsOnlyUnopened`), from one
  invariant, `WalkInv`. `NoFileLostQuietly` speaks of paths the walk is done with; in the
  middle of one, `NoneLost` says that each of its files that is still there was handed over or
  is below an entry still to be visited, and `Branch` in which of `Walk`'s branches that is.
  That the files come in lexical order with `-r` needs `LeftAsAsked`: what is still to be visited comes after
  what was handed over. The order of paths is shown to be total and transitive
  (`PrecedesTotal`, `PrecedesTransitive`), and the first of a finite set of paths to be in it
  (`FirstIsFirst`).

`AppProofs`, for every set of documents, file system, input and interleaving of the main
goroutine, the decoders, the signal handler and other processes, from `AppAssumption`:

* `TypeCorrect`, `WholeInputOrNothing` (`[]OutputComplete`), `FinalMetadata`
  (`[]RenderedWithFinalMetadata`), `FilesOfTheirObjects` (`[]FilenamesMatchTemplates`),
  `AllTemplatesOrNone` (`[]AllOrNothing`), from `AppInv`. It takes in the invariants of the parts:
  a step of `App` is a step of `FileWalk` and of `Decoder`, or starts a decoder over, so
  that `WalkInv` and `DecoderInv` are kept by the lemmas of their own modules, instantiated.
  What remains is how the parts meet: `Ranging` (the context holds what the loop has received
  of the stream it ranges over), `Earlier` (of the streams before it holds everything, unless
  there was a signal; this is where `CompleteUnlessStopped` of `Decoder` comes in, with
  `NoFileLostQuietly` for the files no stream was opened of), `Output` and `Rendered` (the templates so
  far are those of the objects so far).
* `Implementation`: `Spec => ImplementsConversion`. To `AppInv` it adds that prefix and names
  in the metadata service are those of the context's objects (`MetadataOfObjects`: one more object does
  to `PrefixOf` what `detectCommonPrefix` does, `PrefixExtends`), that no object processed so
  far is one that fails, and that files are called like entries. `Add` is `Take`; `Create` is
  `Convert`, with the order of templates that `TemplatesInOrder` constructs; a step that
  ends the run otherwise is `GiveUp`; no other step shows.

`TimoniModuleProofs`, for every set of inputs, templates and conversions, every number of runs
and any of the faults, from `ModuleAssumption`:

* `TypeCorrect`, `ConfigComesLast` (`[]ConfigNotAhead`), `VendorFailureEnds`
  (`[]VendorFailureEndsRun`), `InstanceOfRun` (`[]InstanceIsRun`), from `ModuleInv`.
  `ConfigNotAhead` is not inductive: a run that has written part of its templates would
  break it if `config.cue` on disk could already be its own (`ConfigIsOlder`), and at the
  last write everything else must have been written whole (`WrittenSoFar`). `Vendored` and
  `NoTimoniCue` say what the steps of the skeleton know of the disk. `InstanceIsRun` follows from `WrittenSoFar` for a run that has
  ended well: every file of the package that defines a type of this run is this run's,
  unless names collide.
* `TimoniCueStays`: the action property `TimoniCueKept`.
* `Implementation`: `Spec => ImplementsPublication`. A step that rewrites a file of the
  published module unpublishes it (`OnlyUnpublishes`), no other step before the last changes
  what is published (`PublishedKept`), and the last one publishes the run's own
  (`ConfigPublishes`).

`DeploymentsProofs`, for every set of runs, that is for any number of Deployments of any
shape, names that collide in any way included, and for every labelling and every set of
expressions, from `DeploymentsAssumption`:

* `TypeCorrect`, `SchemaOfValues` (`[]ValuesHaveSchema`), `FittingValues`
  (`[]ValuesFitSchema`), `RequiredValues` (`[]RequiredHaveValues`), from `SchemaInv`: schema and
  values agree (`Fit`), in each of the `Values` a run has. That is four things. `SlotsFit`: a path's depth
  and labels say what schema and what values can be there, and where there can be a struct
  (`StructAt`; a container called `replicas` is at the path of a number). `Covered`: each value has a schema at or above its path. `Matched`: at the first two
  levels, where names can collide, one structure has fields if the other has. `Valued`: what can be
  required has values. All four are needed for `Merge`, which lets the first of two schemas and the first of
  two values win, each by its own rule: the agreement of two pairs gives that of the
  merged pair (`MergeAgrees`) only if the two rules choose alike, and the one place where they do
  not is 0 (`Z`, for which the invariant takes `UnsetPaths`, the paths of `replicas` and
  `revisionHistoryLimit` that are 0 in some Deployment of the run). Within a step the parts of an image and the resources are
  there before their schema is, which replaces theirs; `w` is the part of a container this is
  so for, and `Idle` outside (`AddAgrees`).
  `FittingValues` needs a second invariant, `SecuredInv` (`SecuredInvariance`): the values at
  the path of a security context come from contexts of the run that belong there, at most one
  of each Deployment (`ContextsFrom`). So what mergo has joined is allowed if all the contexts
  that belong there are, joined, which is what the exception of `ValuesFitSchema` speaks of.
* `KeptTexts` (`[]TextsKept`): every origin of a value is one whose texts parse to what they
  were (`Strung`), which is in the types `SchemaInv` keeps; so a text is kept wherever its
  value ends up. A quantity is printed without quotes: it is parsed to itself, as a text or,
  the exception, as an expression.
* `KeptImages` (`[]ImagesKept`): a reference to an image expects the parts of one image,
  cut by `Split` (`ImagesInv`), and `ImageWithoutDigestKept` says what these make: every
  image without a digest which does not end in a colon is what `#Image` makes of its parts,
  and its tag holds no colon.

`ReferencesProofs`, for every set of runs and every labelling, from `DeploymentsAssumption`
again; that names stay distinct in camel case (`DistinctLabels`) is the hypothesis of the two
properties themselves:

* `RefsInvariance` (`[]RefsInv`), `Resolving` (`[]ReferencesResolve`) and `EndsWell`
  (`[]EndsWellUnlessCollision`). The invariant speaks of assignments, the pairs of a path and a
  value which the whole run will ever add (`All`). With distinct labels they are `Apart`: no
  path is assigned two values, none lies below another. Each of the `Values` of a run is `Made`
  of assignments of its own: `values` of the scalars of the Deployment at hand, `podValues` of
  its containers done so far, `templates[i]` of Deployment `i`, `module` of the Deployments
  merged so far (`MadeOfTheirs`). Hence no `Put` goes through a value (`PutMakes`) and
  no `Merge` meets two of one path (`MergeMakes`), the pull secrets excepted, which are
  the flag's in every pod. So the panics and errors of `setNestedCueField` and `mergeStructLits`
  are out, and a run that ends early has one of two reasons (`EndsOnlyFor`): an image that
  `pod.go` cannot cut, or a Deployment without a selector.
* A reference expects assignments, and where no label of it is changed by the second conversion
  (`Settled`) these are at or just below its path (`Reaches`, in `RefsOfAssignments`). A Deployment
  may thus be known by two labels (`Objects(i)`), that of its numbers and references and that of
  its pod's values, and `DistinctLabels` keeps both apart from those of the others. One of
  `values`, `podValues`, the templates still to be merged and the module holds them
  (`RefsHeld`). Each step either leaves the holder alone or hands all it has to the next. That
  the reference to a container's resources, written after all containers are done, is to what
  these have put there needs `ResourcesHeld`. At the end only the module is left, and
  `Covered` of `SchemaInv` gives the schema.

TLC found `RefsInv` to hold on the instance of `MCDeployments` before it was proved.

`TypeOK` of these modules holds with what makes up the nested structures, not just with
that they are nested: a panic in `setNestedCueField` or `mergeStructLits` is an outcome the
theorems speak of, a malformed tree is not.

Induction. The library's induction theorems take an operator as a parameter, which no
installed prover can instantiate. Where an argument needs one over a recursive function
(`AddAll`, `PrefixOf`) or a sequence, it is made first-order: the set of counterexamples is a
set of numbers, `<` on them is well-founded (`LeastNat`), and the least one is contradicted (`UpTo`).
Both are recursive functions for that reason, and the proofs go through their stages
(`AddAllStages`, `PrefixStages`).

With these, every invariant and every action property of a passing run is a theorem, and so are
the three refinements. Model-checked only:

* The liveness properties (`EndedStreamEnds`, `StopEnds`, `EndsUnlessInputHangs`, `SignalEnds`,
  `WalkEnds`): liveness under fairness is beyond the prover.

## What is not modelled

* Formatting, indentation, licence of CUE syntax and the text of the templates.
* Flag parsing beyond its outcome; log levels; `-crd-dir`, which changes a line of `timoni.cue`; the
  flags no compiled code reads (`-generate-defaults`, `-cert-manager-as-submodule`).
* The YAML and JSON readers, `timoni` itself and the file system, which appear as
  nondeterministic outcomes of the calls to them.
* `pkg/processor/todo` (jobs, config maps, stateful sets, daemon sets, CRDs, secrets, webhooks,
  storage, RBAC, services, disruption budgets): no processor of it is registered in
  `app.Start`, and none compiles: their templates lack `ObjectType` and `ObjectLabel`, which
  `timonify.Template` requires, and those with values call `Values.Add` with its former
  signature. There is no behaviour to be faithful to. `Values.AddYaml` and
  `Values.AddSecret` are called from there only.
* `pkg/timonify/model.go` and `processor.go` (interfaces), text helpers and constants.
* Of a pod: probes, ports and everything else that is copied; its commands stand for the
  strings in it, its quantities for what `QuoteStringsInStruct` does not reach. With `--image-pull-secrets` the code leaves a
  Helm expression in the pod instead of a reference; it is no reference in the model either.
* The parser and the evaluator of CUE: which unquoted texts are expressions
  (`Expressions`) and which names are identifiers (`Identifiers`) are constants; unification is
  reduced to which definitions and fields meet (`Defined`, `Field`), schemas to which of the
  values the code can put there they admit (`Admits`).
* What a `resource.Quantity` prints: the printing is apimachinery's. `QuoteStringsInStruct` quotes
  the name of its format, so that a quantity may be printed in another unit; that it is printed
  without quotes is all the model assumes of it (`Quantity`, `DeploymentSpecs`).
* Removals while `-f` is walked are modelled; creations and replacements are not: a new file is
  either seen like an old one or not at all.

## Plan

Done: all the models, and the proofs about each of them. Next:

1. `Deployments` composed with `Metadata`, so that names are rendered with the
   metadata of the objects loaded.
