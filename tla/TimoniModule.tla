---------------------------- MODULE TimoniModule -----------------------------
(***************************************************************************)
(* output.Create (pkg/timoni/init.go, pkg/timoni/module.go): the module      *)
(* directory on disk, written by one run of timonify after another.  A run   *)
(* first creates the skeleton unless timoni.cue is there, then writes the    *)
(* template files, values.cue and config.cue.                                *)
(*                                                                          *)
(* The disk maps each path of the module to what it holds.  Every write may  *)
(* fail, leaving the file as it was or torn; the two vendoring commands may  *)
(* fail; the process may die between any two steps or in the middle of a     *)
(* write; between runs the user may edit timoni.cue.                         *)
(***************************************************************************)
EXTENDS Integers, Sequences, FiniteSets, SequencesExt

CONSTANTS
    Inputs,     \* what Create may be given: sequences of [file, kind, name]
    TemplateFiles, \* the file names that occur in them
    CueFiles,   \* those that end in ".cue"
    Camel,      \* strcase.ToCamel, a function on the names that occur in them
    Dashless,   \* a name without its dashes
    Identifiers, \* those of their results that are CUE identifiers
    Faults,     \* which faults may happen
    MaxRuns     \* bound: how many times timonify runs on the directory

(* templates/config.cue is written by every run, and an object whose trimmed *)
(* name is "config" has its template there too.                              *)
ConfigFile == "config.cue"

(* A write fails; a vendoring command fails; the name is not one of a module *)
(* or os.Stat fails; the values cannot be merged; the process dies.          *)
FaultKinds == {"write", "vendor", "stat", "merge", "crash"}

Skeleton == {"timoni.cue", "timoni.ignore", "cue.mod/module.cue",
             "cue.mod/gen", "cue.mod/pkg"}
Outputs  == TemplateFiles \union {ConfigFile, "values.cue"}
Dirs     == {"templates", "cue.mod"}
Paths    == Skeleton \union Outputs \union Dirs

Template == [file : TemplateFiles, kind : STRING, name : STRING]

(* The templates have a directory of their own: their names are no other     *)
(* path's.                                                                   *)
ASSUME ModuleAssumption ==
    /\ CueFiles \subseteq TemplateFiles
    /\ TemplateFiles \intersect (Skeleton \union Dirs \union {"values.cue"}) = {}
    /\ Inputs \subseteq Seq(Template)
    /\ \A g \in Inputs : \A i \in 1..Len(g) :
          g[i].kind # "Deployment" =>
             g[i].name \in DOMAIN Camel /\ g[i].name \in DOMAIN Dashless
    /\ Faults \subseteq FaultKinds
    /\ MaxRuns \in Nat

VARIABLES
    disk,   \* what each path holds
    pc,     \* the step the run is at
    err,    \* the error createFile captures
    run,    \* number of the run
    given,  \* the templates Create was given
    left,   \* template files not yet written
    fresh   \* this run found no timoni.cue

vars == <<disk, pc, err, run, given, left, fresh>>
runVars == <<run, given>>

(* What a path holds: the kind of the content, the run that wrote it and, of *)
(* a template file or of config.cue, the templates in it, a part of the       *)
(* sequence Create was given.                                                *)
Content(what, r, templates) == [what |-> what, run |-> r, templates |-> templates]
Absent == Content("absent", 0, << >>)
Torn   == Content("torn", 0, << >>)
Edited == Content("edited", 0, << >>)
Generated == Content("generated", 0, << >>)

Exists(p) == disk[p] # Absent

DirExists(p) ==
    /\ p \in TemplateFiles \union {ConfigFile} => Exists("templates")
    /\ p = "cue.mod/module.cue" => Exists("cue.mod")

-----------------------------------------------------------------------------
(* Grouping the templates by file, each at its place among all of them.      *)
FilesOf(g) == {g[i].file : i \in 1..Len(g)}
TemplatesIn(g, f) == Restrict(g, {i \in 1..Len(g) : g[i].file = f})

(* What a template defines, and the field of the instance that uses it.      *)
DeploymentType  == "Deployment"
DeploymentLabel == "deploy"
ObjectType(t)  == IF t.kind = "Deployment" THEN DeploymentType ELSE Camel[t.name]
ObjectLabel(t) == IF t.kind = "Deployment" THEN DeploymentLabel ELSE Dashless[t.name]

(* Template.Write formats the template first: a name that starts with a digit *)
(* gives no definition.                                                      *)
Formats(t) == ObjectType(t) \in Identifiers \union {DeploymentType}

(* The directory is empty, or holds a timoni.cue the user wrote.             *)
Init ==
    /\ disk \in {[p \in Paths |-> Absent],
                 [p \in Paths |-> IF p = "timoni.cue" THEN Edited ELSE Absent]}
    /\ pc = "idle"
    /\ err = FALSE
    /\ run = 0
    /\ given = << >>
    /\ left = {}
    /\ fresh = FALSE

(* Mutant: the files a crashed run had left to write are not forgotten.      *)
ForgetNotLeft == fresh' = FALSE /\ UNCHANGED left

(* A new process knows nothing of the runs before.                           *)
Forget == fresh' = FALSE /\ left' = {}

(* A run of timonify reaches output.Create.                                  *)
Begin ==
    /\ pc = "idle"
    /\ run < MaxRuns
    /\ run' = run + 1
    /\ given' \in Inputs
    /\ pc' = "stat"
    /\ err' = FALSE
    /\ Forget
    /\ UNCHANGED disk

Fail == pc' = "failed" /\ UNCHANGED <<disk, err, left, fresh>>

(* Mutant: any error of os.Stat is taken for a missing file.                 *)
AnyStatError == ~Exists("timoni.cue") \/ "stat" \in Faults

(* initModuleDir: the module's name, then os.Stat of timoni.cue.             *)
NotExist == ~Exists("timoni.cue")
StatTimoniCue ==
    /\ pc = "stat"
    /\ \/ NotExist /\ pc' = "dirs" /\ fresh' = TRUE /\ UNCHANGED <<disk, err, left>>
       \/ Exists("timoni.cue") /\ pc' = "group" /\ UNCHANGED <<disk, err, left, fresh>>
       \/ "stat" \in Faults /\ Fail
    /\ UNCHANGED runVars

(* createCommonFiles: MkdirAll of templates, then of cue.mod.                *)
MakeDirs ==
    /\ pc = "dirs"
    /\ \/ /\ disk' = [disk EXCEPT !["templates"] = Generated, !["cue.mod"] = Generated]
          /\ pc' = "timoni.cue"
       \/ /\ "write" \in Faults
          /\ disk' \in {disk, [disk EXCEPT !["templates"] = Generated]}
          /\ pc' = "failed"
    /\ UNCHANGED <<err, runVars, left, fresh>>

(* os.WriteFile, or a truncating open and its writes.                        *)
GoodWrite(p, content) ==
    /\ DirExists(p)
    /\ disk' = [disk EXCEPT ![p] = content]
BadWrite(p) ==
    IF DirExists(p)
    THEN "write" \in Faults /\ disk' \in {disk, [disk EXCEPT ![p] = Torn]}
    ELSE UNCHANGED disk

(* The closure createFile: does nothing once an earlier call has failed.     *)
CreateFile(p, next) ==
    /\ \/ err /\ UNCHANGED <<disk, err>>
       \/ ~err /\ GoodWrite(p, Generated) /\ UNCHANGED err
       \/ ~err /\ BadWrite(p) /\ err' = TRUE
    /\ pc' = next
    /\ UNCHANGED <<runVars, left, fresh>>

CreateTimoniCue == pc = "timoni.cue" /\ CreateFile("timoni.cue", "timoni.ignore")
CreateIgnore == pc = "timoni.ignore" /\ CreateFile("timoni.ignore", "module.cue")
CreateModuleCue == pc = "module.cue" /\ CreateFile("cue.mod/module.cue", "k8s")

(* Mutant: a failed command is logged and the run goes on.                   *)
GoesOn(next) == next

(* exec "timoni mod vendor k8s", exec "timoni artifact pull": the command's  *)
(* error takes the place of createFile's, and ends the run.                  *)
AfterFailure(next) == "failed"
Vendor(p, next) ==
    /\ \/ disk' = [disk EXCEPT ![p] = Generated] /\ err' = FALSE /\ pc' = next
       \/ /\ "vendor" \in Faults
          /\ disk' \in {disk, [disk EXCEPT ![p] = Torn]}
          /\ err' = TRUE /\ pc' = AfterFailure(next)
    /\ UNCHANGED <<runVars, left, fresh>>

VendorK8s == pc = "k8s" /\ Vendor("cue.mod/gen", "schemas")
VendorTimoni == pc = "schemas" /\ Vendor("cue.mod/pkg", "group")

(* Create: grouping the templates and merging their values.                  *)
Group ==
    /\ pc = "group"
    /\ \/ left' = FilesOf(given) /\ pc' = "templates" /\ UNCHANGED <<disk, err, fresh>>
       \/ "merge" \in Faults /\ Fail
    /\ UNCHANGED runVars

(* Mutant: the file is not truncated, and keeps what goes beyond the new text. *)
NotTruncated(f) == TemplatesIn(given, f) @@ disk[f].templates

(* overwriteTemplateFile for each file of the map, in the order of a Go map. *)
Overwritten(f) == TemplatesIn(given, f)
WriteTemplateFile(f) ==
    /\ pc = "templates"
    /\ f \in left
    /\ \/ /\ \A t \in Range(TemplatesIn(given, f)) : Formats(t)
          /\ GoodWrite(f, Content("template", run, Overwritten(f)))
          /\ left' = left \ {f}
          /\ UNCHANGED pc
       \/ /\ \/ BadWrite(f)
             \/ /\ \E t \in Range(TemplatesIn(given, f)) : ~Formats(t)
                /\ GoodWrite(f, Torn)
          /\ pc' = "failed"
          /\ UNCHANGED left
    /\ UNCHANGED <<err, runVars, fresh>>

(* Mutant: values and config.cue are written before the last template file.  *)
Enough == TRUE

AllWritten == left = {}
TemplatesWritten ==
    /\ pc = "templates"
    /\ AllWritten
    /\ pc' = "values"
    /\ UNCHANGED <<disk, err, runVars, left, fresh>>

WriteValues ==
    /\ pc = "values"
    /\ \/ /\ GoodWrite("values.cue", Content("values", run, << >>))
          /\ pc' = "config"
       \/ BadWrite("values.cue") /\ pc' = "failed"
    /\ UNCHANGED <<err, runVars, left, fresh>>

(* Mutant: the error of the last write is lost.                              *)
Ignored == "ok"

WriteFailed == "failed"
WriteConfig ==
    /\ pc = "config"
    /\ \/ GoodWrite(ConfigFile, Content("config", run, given)) /\ pc' = "ok"
       \/ BadWrite(ConfigFile) /\ pc' = WriteFailed
    /\ UNCHANGED <<err, runVars, left, fresh>>

(* The files the current step may be in the middle of writing.               *)
Targets ==
    CASE pc = "timoni.cue"           -> {"timoni.cue"}
      [] pc = "timoni.ignore" /\ ~err -> {"timoni.ignore"}
      [] pc = "module.cue" /\ ~err    -> {"cue.mod/module.cue"}
      [] pc = "k8s"                  -> {"cue.mod/gen"}
      [] pc = "schemas"              -> {"cue.mod/pkg"}
      [] pc = "templates"            -> left
      [] pc = "values"               -> {"values.cue"}
      [] pc = "config"               -> {ConfigFile}
      [] OTHER                       -> {}

Crash ==
    /\ "crash" \in Faults
    /\ pc \notin {"idle", "ok", "failed"}
    /\ \/ UNCHANGED disk
       \/ \E p \in Targets : DirExists(p) /\ disk' = [disk EXCEPT ![p] = Torn]
    /\ pc' = "idle"
    /\ UNCHANGED <<err, runVars, left, fresh>>

(* Between runs.                                                             *)
Again ==
    /\ pc \in {"ok", "failed"}
    /\ pc' = "idle"
    /\ UNCHANGED <<disk, err, runVars, left, fresh>>

UserEdits ==
    /\ pc = "idle"
    /\ Exists("timoni.cue")
    /\ disk' = [disk EXCEPT !["timoni.cue"] = Edited]
    /\ UNCHANGED <<pc, err, runVars, left, fresh>>

Next ==
    \/ Begin \/ StatTimoniCue \/ MakeDirs
    \/ CreateTimoniCue \/ CreateIgnore \/ CreateModuleCue \/ VendorK8s \/ VendorTimoni
    \/ Group \/ (\E f \in TemplateFiles : WriteTemplateFile(f)) \/ TemplatesWritten
    \/ WriteValues \/ WriteConfig
    \/ Crash \/ Again \/ UserEdits

Spec == Init /\ [][Next]_vars

-----------------------------------------------------------------------------
(* Properties                                                                *)

Steps == {"idle", "stat", "dirs", "timoni.cue", "timoni.ignore", "module.cue", "k8s",
          "schemas", "group", "templates", "values", "config", "ok", "failed"}
IsContent(c) ==
    /\ c = Content(c.what, c.run, c.templates)
    /\ c.what \in {"absent", "torn", "edited", "generated", "template", "values", "config"}
    /\ c.run \in 0..MaxRuns
    /\ DOMAIN c.templates \subseteq Nat
    /\ Range(c.templates) \subseteq Template
    /\ c.what = "config" => c.templates \in Inputs \union {<< >>}

TypeOK ==
    /\ DOMAIN disk = Paths
    /\ \A p \in Paths : IsContent(disk[p])
    /\ pc \in Steps
    /\ err \in BOOLEAN
    /\ run \in 0..MaxRuns
    /\ given \in Inputs \union {<< >>}
    /\ left \subseteq FilesOf(given)
    /\ fresh \in BOOLEAN

(* README "Timonify will not overwrite `timoni.cue` file if presented. Done   *)
(* on purpose": whatever fails, and however often timonify is run again, no   *)
(* step of timonify changes a timoni.cue that is there.                       *)
TimoniCueKept ==
    [][Exists("timoni.cue") => disk'["timoni.cue"] = disk["timoni.cue"] \/ UserEdits]_vars

(* config.cue instantiates the objects of a run, so it comes last: once it    *)
(* holds a run's objects, values.cue and every template file of that run are  *)
(* on disk, whole, and stay so until another run starts writing.  A crash or  *)
(* a failed write before it leaves the config.cue of an earlier run.          *)
ConfigNotAhead ==
    disk[ConfigFile].what = "config" /\ disk[ConfigFile].run = run
        => /\ disk["values.cue"] = Content("values", run, << >>)
           /\ \A f \in FilesOf(given) \ {ConfigFile} :
                 disk[f] = Content("template", run, TemplatesIn(given, f))

(* A run that gets past the skeleton it created itself has both vendored      *)
(* packages: an error of either command ends the run (init.go 127-134), also  *)
(* after a crashed or failed run left pieces of a skeleton behind.            *)
VendorFailureEndsRun ==
    fresh /\ pc \in {"group", "templates", "values", "config", "ok"}
        => disk["cue.mod/gen"] = Generated /\ disk["cue.mod/pkg"] = Generated

(* init.go:79 "creates timoni module structure in moduleName directory if not *)
(* presented": after a successful run the structure is there.                 *)
SkeletonComplete ==
    pc = "ok" => \A p \in Skeleton : disk[p] \in {Generated, Edited}

HoldsOne(f) == \E i \in DOMAIN disk[f].templates : DOMAIN disk[f].templates = {i}
Holds(f, t) == t \in Range(disk[f].templates)

(* README:136 "Then runs `timoni mod lint` to check if generated module is    *)
(* valid": the objects config.cue instantiates are defined by the CUE files   *)
(* of the module, each file holding one template (module.go joins several     *)
(* with a "---" line, which is not CUE).                                      *)
ObjectsDefined ==
    pc = "ok" => \A i \in 1..Len(given) :
        \E f \in CueFiles : disk[f].what = "template" /\ HoldsOne(f) /\ Holds(f, given[i])

(* CUE loads config.cue together with every CUE file of the directory, those  *)
(* of earlier runs included, whose objects may be gone.  A file loads that is *)
(* whole and holds one template; definitions of one type, those config.cue    *)
(* has of its own included, are unified, and so are fields of one label.      *)
Labels(ts) == {ObjectLabel(t) : t \in Range(ts)}
Loads(f) ==
    IF f = ConfigFile
    THEN disk[f].what = "config" /\ Labels(disk[f].templates) \subseteq Identifiers
    ELSE disk[f].what = "template" /\ HoldsOne(f)
Package == UNION {Range(disk[f].templates) : f \in CueFiles \ {ConfigFile}}
OwnTypes == {"Config", "Instance"}
Own == [file : {ConfigFile}, kind : {"own"}, name : OwnTypes]
Defined(type) ==
    {t \in Package : ObjectType(t) = type} \union {own \in Own : own.name = type}
Field(label) ==
    UNION {Defined(ObjectType(t)) :
              t \in {t \in Range(disk[ConfigFile].templates) : ObjectLabel(t) = label}}

Distinct(F(_)) == \A i, j \in 1..Len(given) : F(given[i]) = F(given[j]) => i = j
Leftovers == {f \in CueFiles \ (FilesOf(given) \union {ConfigFile}) : Exists(f)}
Collides ==
    \/ ~Distinct(LAMBDA t : t.file) \/ ~Distinct(ObjectType) \/ ~Distinct(ObjectLabel)
    \/ FilesOf(given) \cap ({ConfigFile} \union (TemplateFiles \ CueFiles)) # {}
    \/ \E t \in Range(given) :
          \/ ObjectType(t) \in OwnTypes
          \/ ObjectLabel(t) = "config" \/ ObjectLabel(t) \notin Identifiers
          \/ \E f \in Leftovers : \E old \in Range(disk[f].templates) :
                ObjectType(old) = ObjectType(t)

(* Whatever runs came before, however they ended and whatever files of theirs *)
(* are still in the directory (module.go:71-77 overwrites files and removes   *)
(* none), a successful run whose names do not collide leaves a package that   *)
(* loads, if what was left does, and whose instance is exactly the objects of *)
(* this run: each field one template, of this run, no field of an object that *)
(* is gone, and none that hides the config the other ones refer to.           *)
InstanceIsRun ==
    pc = "ok" /\ ~Collides /\ (\A f \in Leftovers : Loads(f)) =>
        /\ \A f \in CueFiles \union {ConfigFile} : Exists(f) => Loads(f)
        /\ Labels(disk[ConfigFile].templates) = Labels(given)
        /\ "config" \notin Labels(disk[ConfigFile].templates)
        /\ \A t \in Range(given) : Field(ObjectLabel(t)) = {t}

(* The module on disk is that of the run which wrote config.cue, if all that  *)
(* config.cue goes with is on disk whole.                                     *)
WholeModule ==
    LET config == disk[ConfigFile]
    IN  /\ config.what = "config"
        /\ disk["values.cue"] = Content("values", config.run, << >>)
        /\ \A f \in FilesOf(config.templates) \ {ConfigFile} :
              disk[f] = Content("template", config.run, TemplatesIn(config.templates, f))

Published == IF WholeModule THEN disk[ConfigFile].run ELSE 0
Status == IF pc \in {"idle", "ok", "failed"} THEN pc ELSE "running"

(* TimoniModule implements Publication: a run publishes its module with its   *)
(* last write, and until then leaves the one before as it is or unpublishes   *)
(* it; what it reports agrees with that.                                      *)
Promise == INSTANCE Publication
               WITH status <- Status, published <- Published

ImplementsPublication == Promise!Spec
=============================================================================
