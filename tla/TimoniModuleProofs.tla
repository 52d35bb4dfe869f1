-------------------------- MODULE TimoniModuleProofs --------------------------
(***************************************************************************)
(* Proofs about TimoniModule, for every set of inputs, every set of faults   *)
(* and any number of runs on the directory.                                  *)
(***************************************************************************)
EXTENDS TimoniModule, TLAPS

-----------------------------------------------------------------------------
(* The inductive invariant                                                   *)

(* The steps of a run before config.cue is written.                          *)
Unfinished == Steps \ {"idle", "ok", "failed"}

(* A template file and values.cue of this run, as it writes them.            *)
Whole(f) == disk[f] = Content("template", run, TemplatesIn(given, f))
ValuesWhole == disk["values.cue"] = Content("values", run, << >>)

(* Until the last step of a run config.cue is that of an earlier one.        *)
ConfigIsOlder ==
    disk[ConfigFile].what = "config" =>
        /\ disk[ConfigFile].run <= run
        /\ pc \in Unfinished => disk[ConfigFile].run < run

(* What the run has written so far is there, whole.                          *)
WrittenSoFar ==
    /\ pc = "templates" => \A f \in FilesOf(given) \ left : Whole(f)
    /\ pc \in {"values", "config"} => \A f \in FilesOf(given) : Whole(f)
    /\ pc = "config" => ValuesWhole
    /\ pc = "ok" => disk[ConfigFile] = Content("config", run, given)

(* A run that creates the skeleton has vendored what it went past.           *)
Vendored ==
    fresh =>
        /\ pc # "stat"
        /\ pc = "schemas" => disk["cue.mod/gen"] = Generated

(* createFile writes timoni.cue where none was found.                        *)
NoTimoniCue == pc \in {"dirs", "timoni.cue"} => ~Exists("timoni.cue")

ModuleInv ==
    /\ TypeOK /\ ConfigIsOlder /\ WrittenSoFar /\ ConfigNotAhead
    /\ Vendored /\ VendorFailureEndsRun /\ NoTimoniCue

-----------------------------------------------------------------------------
(* Type correctness                                                          *)

(* What the steps write is well formed.                                      *)
LEMMA ContentTypes ==
    /\ IsContent(Absent) /\ IsContent(Torn) /\ IsContent(Edited) /\ IsContent(Generated)
    /\ run \in 0..MaxRuns => IsContent(Content("values", run, << >>))
<1>. MaxRuns \in Nat
  BY ModuleAssumption
<1>. DOMAIN << >> = {} /\ Range(<< >>) = {}
  BY DEF Range
<1>. QED
  BY DEF IsContent, Content, Absent, Torn, Edited, Generated

LEMMA GivenTypes ==
    ASSUME TypeOK
    PROVE  /\ given \in Seq(Template)
           /\ FilesOf(given) \subseteq TemplateFiles
           /\ IsContent(Content("config", run, given))
           /\ \A f : IsContent(Content("template", run, TemplatesIn(given, f)))
<1>1. given \in Seq(Template)
  <2>1. << >> \in Seq(Template)
    OBVIOUS
  <2>. QED
    BY <2>1, ModuleAssumption, Zenon DEF TypeOK
<1>2. Len(given) \in Nat /\ DOMAIN given = 1..Len(given)
  BY <1>1
<1>3. \A i \in 1..Len(given) : given[i] \in Template
  BY <1>1
<1>4. FilesOf(given) \subseteq TemplateFiles
  BY <1>3 DEF FilesOf, Template
<1>5. ASSUME NEW part, DOMAIN part \subseteq Nat, Range(part) \subseteq Template,
             NEW what \in {"template", "config"},
             what = "config" => part \in Inputs \union {<< >>}
      PROVE  IsContent(Content(what, run, part))
  BY <1>5 DEF IsContent, Content, TypeOK
<1>6. IsContent(Content("config", run, given))
  <2>1. DOMAIN given \subseteq Nat /\ Range(given) \subseteq Template
    BY <1>2, <1>3 DEF Range
  <2>2. given \in Inputs \union {<< >>}
    BY DEF TypeOK
  <2>. QED
    BY <1>5, <2>1, <2>2
<1>7. ASSUME NEW f
      PROVE  IsContent(Content("template", run, TemplatesIn(given, f)))
  <2> DEFINE places == {i \in 1..Len(given) : given[i].file = f}
  <2>1. places \subseteq Nat /\ \A i \in places : given[i] \in Template
    BY <1>2, <1>3
  <2>2. TemplatesIn(given, f) = [i \in places |-> given[i]]
    BY DEF TemplatesIn, Restrict
  <2>. HIDE DEF places
  <2>3. /\ DOMAIN TemplatesIn(given, f) \subseteq Nat
        /\ Range(TemplatesIn(given, f)) \subseteq Template
    BY <2>1, <2>2 DEF Range
  <2>. QED
    BY <1>5, <2>3
<1>. QED
  BY <1>1, <1>4, <1>6, <1>7

(* A step writes one path, or none.                                          *)
LEMMA WriteKeepsDisk ==
    ASSUME TypeOK, NEW p, NEW c, IsContent(c),
           disk' = disk \/ disk' = [disk EXCEPT ![p] = c]
    PROVE  DOMAIN disk' = Paths /\ \A q \in Paths : IsContent(disk'[q])
  BY DEF TypeOK

LEMMA InitTypes == ASSUME Init PROVE TypeOK
<1>1. DOMAIN disk = Paths /\ \A p \in Paths : disk[p] \in {Absent, Edited}
  BY DEF Init
<1>2. \A p \in Paths : IsContent(disk[p])
  BY <1>1, ContentTypes
<1>3. 0 \in 0..MaxRuns
  BY ModuleAssumption
<1>. QED
  BY <1>1, <1>2, <1>3 DEF Init, TypeOK, Steps

LEMMA StepKeepsType ==
    ASSUME TypeOK, [Next]_vars
    PROVE  TypeOK'
<1> DEFINE DiskTyped == DOMAIN disk' = Paths /\ \A q \in Paths : IsContent(disk'[q])
           RestTyped == /\ pc' \in Steps /\ err' \in BOOLEAN /\ run' \in 0..MaxRuns
                        /\ given' \in Inputs \union {<< >>}
                        /\ left' \subseteq FilesOf(given') /\ fresh' \in BOOLEAN
<1>. SUFFICES DiskTyped /\ RestTyped
  BY DEF TypeOK, IsContent
<1>. USE DEF runVars
<1>0. MaxRuns \in Nat
  BY ModuleAssumption
<1>1. ASSUME disk' = disk
      PROVE  DiskTyped
  BY <1>1 DEF TypeOK
<1>2. CASE Begin
  <2>1. run' \in 0..MaxRuns
    BY <1>0, <1>2 DEF Begin, TypeOK
  <2>2. /\ pc' \in Steps /\ err' \in BOOLEAN /\ given' \in Inputs \union {<< >>}
        /\ left' \subseteq FilesOf(given') /\ fresh' \in BOOLEAN
    BY <1>2 DEF Begin, Forget, Steps
  <2>3. DiskTyped
    BY <1>1, <1>2 DEF Begin
  <2>. QED
    BY <2>1, <2>2, <2>3
<1>3. CASE StatTimoniCue
  BY <1>1, <1>3 DEF StatTimoniCue, Fail, TypeOK, Steps
<1>4. CASE MakeDirs
  <2>1. RestTyped
    BY <1>4 DEF MakeDirs, TypeOK, Steps
  <2>2. ASSUME NEW d, DOMAIN d = Paths /\ \A q \in Paths : IsContent(d[q]), NEW p
        PROVE  LET e == [d EXCEPT ![p] = Generated]
               IN  DOMAIN e = Paths /\ \A q \in Paths : IsContent(e[q])
    BY <2>2, ContentTypes
  <2>3. DiskTyped
    <3> DEFINE once == [disk EXCEPT !["templates"] = Generated]
               twice == [once EXCEPT !["cue.mod"] = Generated]
    <3>1. disk' \in {disk, once, twice}
      BY <1>4 DEF MakeDirs
    <3>2. DOMAIN once = Paths /\ \A q \in Paths : IsContent(once[q])
      BY <2>2 DEF TypeOK
    <3>3. DOMAIN twice = Paths /\ \A q \in Paths : IsContent(twice[q])
      BY <2>2, <3>2
    <3>. QED
      BY <3>1, <3>2, <3>3 DEF TypeOK
  <2>. QED
    BY <2>1, <2>3
<1>5. ASSUME NEW p, NEW next \in Steps, CreateFile(p, next)
      PROVE  DiskTyped /\ RestTyped
  <2>1. RestTyped
    BY <1>5 DEF CreateFile, TypeOK
  <2>2. disk' \in {disk, [disk EXCEPT ![p] = Generated], [disk EXCEPT ![p] = Torn]}
    BY <1>5 DEF CreateFile, GoodWrite, BadWrite
  <2>. QED
    BY <2>1, <2>2, ContentTypes, WriteKeepsDisk
<1>6. ASSUME NEW p, NEW next \in Steps, Vendor(p, next)
      PROVE  DiskTyped /\ RestTyped
  <2>1. RestTyped
    BY <1>6 DEF Vendor, AfterFailure, TypeOK, Steps
  <2>2. disk' \in {disk, [disk EXCEPT ![p] = Generated], [disk EXCEPT ![p] = Torn]}
    BY <1>6 DEF Vendor
  <2>. QED
    BY <2>1, <2>2, ContentTypes, WriteKeepsDisk
<1>7. CASE CreateTimoniCue \/ CreateIgnore \/ CreateModuleCue
  BY <1>5, <1>7 DEF CreateTimoniCue, CreateIgnore, CreateModuleCue, Steps
<1>8. CASE VendorK8s \/ VendorTimoni
  BY <1>6, <1>8 DEF VendorK8s, VendorTimoni, Steps
<1>9. CASE Group
  BY <1>1, <1>9 DEF Group, Fail, TypeOK, Steps
<1>10. ASSUME NEW f \in TemplateFiles, WriteTemplateFile(f)
       PROVE  DiskTyped /\ RestTyped
  <2> DEFINE text == Content("template", run, TemplatesIn(given, f))
  <2>1. RestTyped
    BY <1>10 DEF WriteTemplateFile, TypeOK, Steps
  <2>2. disk' \in {disk, [disk EXCEPT ![f] = text], [disk EXCEPT ![f] = Torn]}
    BY <1>10 DEF WriteTemplateFile, GoodWrite, BadWrite, Overwritten
  <2>3. IsContent(text) /\ IsContent(Torn)
    BY GivenTypes, ContentTypes
  <2>. HIDE DEF text
  <2>. QED
    BY <2>1, <2>2, <2>3, WriteKeepsDisk
<1>11. CASE TemplatesWritten
  BY <1>1, <1>11 DEF TemplatesWritten, TypeOK, Steps
<1>12. CASE WriteValues
  <2> DEFINE text == Content("values", run, << >>)
  <2>1. RestTyped
    BY <1>12 DEF WriteValues, TypeOK, Steps
  <2>2. disk' \in {disk, [disk EXCEPT !["values.cue"] = text], [disk EXCEPT !["values.cue"] = Torn]}
    BY <1>12 DEF WriteValues, GoodWrite, BadWrite
  <2>3. IsContent(text) /\ IsContent(Torn)
    BY ContentTypes DEF TypeOK
  <2>. HIDE DEF text
  <2>. QED
    BY <2>1, <2>2, <2>3, WriteKeepsDisk
<1>13. CASE WriteConfig
  <2> DEFINE text == Content("config", run, given)
  <2>1. RestTyped
    BY <1>13 DEF WriteConfig, WriteFailed, TypeOK, Steps
  <2>2. disk' \in {disk, [disk EXCEPT ![ConfigFile] = text], [disk EXCEPT ![ConfigFile] = Torn]}
    BY <1>13 DEF WriteConfig, GoodWrite, BadWrite
  <2>3. IsContent(text) /\ IsContent(Torn)
    BY GivenTypes, ContentTypes
  <2>. HIDE DEF text
  <2>. QED
    BY <2>1, <2>2, <2>3, WriteKeepsDisk
<1>14. CASE Crash
  <2>1. RestTyped
    BY <1>14 DEF Crash, TypeOK, Steps
  <2>2. \E p : disk' \in {disk, [disk EXCEPT ![p] = Torn]}
    BY <1>14 DEF Crash
  <2>. QED
    BY <2>1, <2>2, ContentTypes, WriteKeepsDisk
<1>15. CASE Again
  BY <1>1, <1>15 DEF Again, TypeOK, Steps
<1>16. CASE UserEdits
  <2>1. RestTyped
    BY <1>16 DEF UserEdits, TypeOK
  <2>. QED
    BY <1>16, <2>1, ContentTypes, WriteKeepsDisk DEF UserEdits
<1>17. CASE UNCHANGED vars
  BY <1>1, <1>17 DEF vars, TypeOK
<1>. QED
  BY <1>2, <1>3, <1>4, <1>7, <1>8, <1>9, <1>10, <1>11, <1>12, <1>13, <1>14, <1>15, <1>16, <1>17
     DEF Next

(* Whatever is given, fails or crashes, the disk and the run stay well formed. *)
THEOREM TypeCorrect == Spec => []TypeOK
<1>1. Init => TypeOK
  BY InitTypes
<1>2. TypeOK /\ [Next]_vars => TypeOK'
  BY StepKeepsType
<1>. QED
  BY <1>1, <1>2, PTL DEF Spec

-----------------------------------------------------------------------------
(* What the steps leave on disk                                              *)

(* A run's own files are no other path's.                                    *)
LEMMA OutputsApart ==
    /\ Outputs \intersect (Skeleton \union Dirs) = {}
    /\ TemplateFiles \subseteq Outputs /\ ConfigFile \in Outputs /\ "values.cue" \in Outputs
    /\ ConfigFile # "values.cue" /\ "values.cue" \notin TemplateFiles
    /\ Outputs \subseteq Paths
  BY ModuleAssumption DEF Outputs, Skeleton, Dirs, ConfigFile, Paths

(* The steps before the first template file, and those between runs, touch   *)
(* no output.                                                                *)
Preparation ==
    \/ Begin \/ StatTimoniCue \/ MakeDirs
    \/ CreateTimoniCue \/ CreateIgnore \/ CreateModuleCue \/ VendorK8s \/ VendorTimoni
    \/ Group \/ TemplatesWritten \/ Again \/ UserEdits

LEMMA OutputsKept ==
    ASSUME TypeOK, Preparation
    PROVE  \A p \in Outputs : disk'[p] = disk[p]
<1> DEFINE Kept == \A p \in Outputs : disk'[p] = disk[p]
<1>1. ASSUME NEW q \in Skeleton \union Dirs, NEW c, disk' \in {disk, [disk EXCEPT ![q] = c]}
      PROVE  Kept
  BY <1>1, OutputsApart DEF TypeOK
<1>2. CASE Begin \/ StatTimoniCue \/ Group \/ TemplatesWritten \/ Again
  BY <1>2 DEF Begin, StatTimoniCue, Group, Fail, TemplatesWritten, Again
<1>3. CASE MakeDirs
  <2> DEFINE once == [disk EXCEPT !["templates"] = Generated]
  <2>1. disk' \in {disk, once, [once EXCEPT !["cue.mod"] = Generated]}
    BY <1>3 DEF MakeDirs
  <2>2. {"templates", "cue.mod"} \intersect Outputs = {}
    BY OutputsApart DEF Dirs
  <2>3. \A p \in Outputs : once[p] = disk[p]
    BY <2>2, OutputsApart DEF TypeOK
  <2>4. \A p \in Outputs : [once EXCEPT !["cue.mod"] = Generated][p] = once[p]
    BY <2>2, OutputsApart DEF TypeOK
  <2>. QED
    BY <2>1, <2>3, <2>4
<1>4. ASSUME NEW q \in Skeleton, NEW next, CreateFile(q, next) \/ Vendor(q, next)
      PROVE  Kept
  <2>1. \E c : disk' \in {disk, [disk EXCEPT ![q] = c]}
    BY <1>4 DEF CreateFile, GoodWrite, BadWrite, Vendor
  <2>. QED
    BY <1>1, <2>1
<1>5. CASE CreateTimoniCue \/ CreateIgnore \/ CreateModuleCue \/ VendorK8s \/ VendorTimoni
  BY <1>4, <1>5 DEF CreateTimoniCue, CreateIgnore, CreateModuleCue, VendorK8s, VendorTimoni, Skeleton
<1>6. CASE UserEdits
  <2>1. disk' \in {disk, [disk EXCEPT !["timoni.cue"] = Edited]}
    BY <1>6 DEF UserEdits
  <2>2. "timoni.cue" \in Skeleton
    BY DEF Skeleton
  <2>. QED
    BY <1>1, <2>1, <2>2
<1>. QED
  BY <1>2, <1>3, <1>5, <1>6 DEF Preparation

(* Where preparation may lead.                                               *)
LEMMA PreparationLeads ==
    ASSUME TypeOK, Preparation
    PROVE  /\ pc' # "ok" /\ pc' # "config"
           /\ ~Begin => run' = run /\ given' = given
           /\ pc' = "values" => pc = "templates" /\ left = {}
           /\ pc' = "templates" => left' = FilesOf(given)
           /\ pc' \in Unfinished => Begin \/ pc \in Unfinished
<1>1. CASE Begin \/ StatTimoniCue \/ MakeDirs
  BY <1>1 DEF Begin, StatTimoniCue, Fail, MakeDirs, Unfinished, Steps, runVars
<1>2. CASE CreateTimoniCue \/ CreateIgnore \/ CreateModuleCue
  BY <1>2 DEF CreateTimoniCue, CreateIgnore, CreateModuleCue, CreateFile, Unfinished, Steps, runVars
<1>3. CASE VendorK8s \/ VendorTimoni
  BY <1>3 DEF VendorK8s, VendorTimoni, Vendor, AfterFailure, Unfinished, Steps, runVars
<1>4. CASE Group \/ TemplatesWritten
  BY <1>4 DEF Group, Fail, TemplatesWritten, AllWritten, Unfinished, Steps, runVars
<1>5. CASE Again
  BY <1>5 DEF Again, Unfinished, runVars
<1>6. CASE UserEdits
  BY <1>6 DEF UserEdits, Unfinished, Steps, runVars
<1>. QED
  BY <1>1, <1>2, <1>3, <1>4, <1>5, <1>6 DEF Preparation

-----------------------------------------------------------------------------
(* config.cue comes last                                                     *)

OutputsInv == ConfigIsOlder /\ WrittenSoFar /\ ConfigNotAhead

LEMMA PreparationKeepsOutputs ==
    ASSUME TypeOK, OutputsInv, Preparation
    PROVE  OutputsInv'
<1>1. /\ disk'[ConfigFile] = disk[ConfigFile] /\ disk'["values.cue"] = disk["values.cue"]
      /\ \A f \in TemplateFiles : disk'[f] = disk[f]
  BY OutputsKept, OutputsApart
<1>2. FilesOf(given) \subseteq TemplateFiles
  BY GivenTypes
<1>3. disk[ConfigFile].run \in Nat /\ run \in Nat
  BY OutputsApart DEF TypeOK, IsContent
<1>4. CASE Begin
  <2>1. run' = run + 1 /\ pc' = "stat"
    BY <1>4 DEF Begin
  <2>2. disk'[ConfigFile].what = "config" => disk'[ConfigFile].run < run'
    BY <1>1, <1>3, <2>1 DEF OutputsInv, ConfigIsOlder
  <2>3. ConfigIsOlder' /\ WrittenSoFar'
    BY <1>1, <1>3, <2>1, <2>2 DEF ConfigIsOlder, WrittenSoFar, ConfigFile
  <2>4. ConfigNotAhead'
    BY <1>1, <1>3, <2>1, <2>2 DEF ConfigNotAhead, ConfigFile
  <2>. QED
    BY <2>3, <2>4 DEF OutputsInv
<1>5. CASE ~Begin
  <2>1. run' = run /\ given' = given
    BY <1>5, PreparationLeads
  <2>2. ConfigIsOlder'
    BY <1>1, <1>5, <2>1, PreparationLeads DEF OutputsInv, ConfigIsOlder, ConfigFile
  <2>3. WrittenSoFar'
    BY <1>1, <1>2, <2>1, PreparationLeads DEF OutputsInv, WrittenSoFar, Whole, ConfigFile
  <2>4. ConfigNotAhead'
    BY <1>1, <1>2, <2>1 DEF OutputsInv, ConfigNotAhead, ConfigFile
  <2>. QED
    BY <2>2, <2>3, <2>4 DEF OutputsInv
<1>. QED
  BY <1>4, <1>5

(* As long as config.cue is of an earlier run, or torn, nothing is claimed.  *)
LEMMA StillOlder ==
    ASSUME TypeOK, OutputsInv, pc \in Unfinished, run' = run,
           disk'[ConfigFile] = disk[ConfigFile] \/ disk'[ConfigFile].what # "config"
    PROVE  ConfigIsOlder' /\ ConfigNotAhead'
<1>1. disk[ConfigFile].run \in Nat /\ run \in Nat
  BY OutputsApart DEF TypeOK, IsContent
<1>2. disk'[ConfigFile].what = "config" =>
          disk'[ConfigFile].run < run' /\ disk'[ConfigFile].run \in Nat
  BY <1>1 DEF OutputsInv, ConfigIsOlder
<1>. QED
  BY <1>1, <1>2 DEF ConfigIsOlder, ConfigNotAhead, ConfigFile

LEMMA WritingKeepsOutputs ==
    ASSUME TypeOK, OutputsInv,
           (\E f \in TemplateFiles : WriteTemplateFile(f)) \/ WriteValues \/ WriteConfig \/ Crash
    PROVE  OutputsInv'
<1>0. Torn.what # "config" /\ Content("values", run, << >>).what # "config"
  BY DEF Torn, Content
<1>1. FilesOf(given) \subseteq TemplateFiles /\ TemplateFiles \subseteq Paths
  BY GivenTypes, OutputsApart
<1>2. ASSUME NEW f \in TemplateFiles, WriteTemplateFile(f)
      PROVE  OutputsInv'
  <2> DEFINE text == Content("template", run, TemplatesIn(given, f))
  <2>1. run' = run /\ given' = given /\ pc = "templates" /\ pc \in Unfinished
    BY <1>2 DEF WriteTemplateFile, runVars, Unfinished, Steps
  <2>2. /\ disk' \in {disk, [disk EXCEPT ![f] = text], [disk EXCEPT ![f] = Torn]}
        /\ pc' \in {"templates", "failed"}
        /\ pc' = "templates" => disk' = [disk EXCEPT ![f] = text] /\ left' = left \ {f}
    BY <1>2 DEF WriteTemplateFile, GoodWrite, BadWrite, Overwritten
  <2>3. text.what # "config"
    BY DEF Content
  <2>4. ConfigIsOlder' /\ ConfigNotAhead'
    <3>. HIDE DEF text
    <3>1. disk'[ConfigFile] = disk[ConfigFile] \/ disk'[ConfigFile].what # "config"
      BY <1>0, <2>2, <2>3, OutputsApart DEF TypeOK
    <3>. QED
      BY <2>1, <3>1, StillOlder
  <2>5. ASSUME pc' = "templates", NEW g \in FilesOf(given) \ left'
        PROVE  disk'[g] = Content("template", run, TemplatesIn(given, g))
    <3>1. disk'[f] = text /\ \A h \in Paths \ {f} : disk'[h] = disk[h]
      BY <1>1, <2>2, <2>5 DEF TypeOK
    <3>2. CASE g # f
      BY <1>1, <2>1, <2>2, <2>5, <3>1, <3>2 DEF OutputsInv, WrittenSoFar, Whole
    <3>. QED
      BY <3>1, <3>2
  <2>6. WrittenSoFar'
    BY <2>1, <2>2, <2>5 DEF WrittenSoFar, Whole
  <2>. QED
    BY <2>4, <2>6 DEF OutputsInv
<1>3. CASE WriteValues
  <2> DEFINE text == Content("values", run, << >>)
  <2>1. run' = run /\ given' = given /\ pc = "values" /\ pc \in Unfinished
    BY <1>3 DEF WriteValues, runVars, Unfinished, Steps
  <2>2. /\ disk' \in {disk, [disk EXCEPT !["values.cue"] = text],
                      [disk EXCEPT !["values.cue"] = Torn]}
        /\ pc' \in {"config", "failed"}
        /\ pc' = "config" => disk' = [disk EXCEPT !["values.cue"] = text]
    BY <1>3 DEF WriteValues, GoodWrite, BadWrite
  <2>. HIDE DEF text
  <2>3. disk'[ConfigFile] = disk[ConfigFile] /\ \A f \in TemplateFiles : disk'[f] = disk[f]
    BY <1>1, <2>2, OutputsApart DEF TypeOK
  <2>4. ConfigIsOlder' /\ ConfigNotAhead'
    BY <2>1, <2>3, StillOlder
  <2>5. pc' = "config" => disk'["values.cue"] = text
    BY <2>2, OutputsApart DEF TypeOK
  <2>6. WrittenSoFar'
    BY <1>1, <2>1, <2>2, <2>3, <2>5 DEF OutputsInv, WrittenSoFar, Whole, ValuesWhole, text
  <2>. QED
    BY <2>4, <2>6 DEF OutputsInv
<1>4. CASE WriteConfig
  <2> DEFINE text == Content("config", run, given)
  <2>1. run' = run /\ given' = given /\ pc = "config" /\ pc \in Unfinished
    BY <1>4 DEF WriteConfig, runVars, Unfinished, Steps
  <2>2. \/ disk' = [disk EXCEPT ![ConfigFile] = text] /\ pc' = "ok"
        \/ disk' \in {disk, [disk EXCEPT ![ConfigFile] = Torn]} /\ pc' = "failed"
    BY <1>4 DEF WriteConfig, GoodWrite, BadWrite, WriteFailed
  <2>3. CASE pc' = "ok"
    <3>1. disk'[ConfigFile] = text /\ \A p \in Paths \ {ConfigFile} : disk'[p] = disk[p]
      BY <2>2, <2>3, OutputsApart DEF TypeOK
    <3>2. WrittenSoFar'
      BY <2>1, <2>3, <3>1 DEF WrittenSoFar
    <3>3. ConfigIsOlder'
      <4>1. text.run = run /\ run \in Nat
        BY DEF Content, TypeOK
      <4>. QED
        BY <2>1, <2>3, <3>1, <4>1 DEF ConfigIsOlder, Unfinished, ConfigFile
    <3>4. ConfigNotAhead'
      <4>1. disk["values.cue"] = Content("values", run, << >>)
        BY <2>1 DEF OutputsInv, WrittenSoFar, ValuesWhole
      <4>2. \A f \in FilesOf(given) : disk[f] = Content("template", run, TemplatesIn(given, f))
        BY <2>1 DEF OutputsInv, WrittenSoFar, Whole
      <4>3. disk'["values.cue"] = disk["values.cue"]
        BY <3>1, OutputsApart
      <4>4. \A f \in FilesOf(given) \ {ConfigFile} : disk'[f] = disk[f]
        BY <1>1, <3>1
      <4>. QED
        BY <2>1, <4>1, <4>2, <4>3, <4>4 DEF ConfigNotAhead, ConfigFile
    <3>. QED
      BY <3>2, <3>3, <3>4 DEF OutputsInv
  <2>4. CASE pc' = "failed"
    <3>1. disk'[ConfigFile] = disk[ConfigFile] \/ disk'[ConfigFile].what # "config"
      BY <1>0, <2>2, <2>4, OutputsApart DEF TypeOK
    <3>. QED
      BY <2>1, <2>4, <3>1, StillOlder DEF OutputsInv, WrittenSoFar
  <2>. QED
    BY <2>2, <2>3, <2>4
<1>5. CASE Crash
  <2>1. run' = run /\ pc \in Unfinished /\ pc' = "idle"
    BY <1>5 DEF Crash, runVars, Unfinished, TypeOK
  <2>2. \E p : disk' \in {disk, [disk EXCEPT ![p] = Torn]}
    BY <1>5 DEF Crash
  <2>3. disk'[ConfigFile] = disk[ConfigFile] \/ disk'[ConfigFile].what # "config"
    BY <1>0, <2>2, OutputsApart DEF TypeOK
  <2>. QED
    BY <2>1, <2>3, StillOlder DEF OutputsInv, WrittenSoFar
<1>. QED
  BY <1>2, <1>3, <1>4, <1>5

-----------------------------------------------------------------------------
(* The skeleton                                                              *)

(* The files a run writes last are none of the skeleton's.                   *)
LEMMA SkeletonKept ==
    ASSUME TypeOK,
           (\E f \in TemplateFiles : WriteTemplateFile(f)) \/ WriteValues \/ WriteConfig
    PROVE  \A p \in Skeleton : disk'[p] = disk[p]
<1>1. ASSUME NEW q \in Outputs, NEW c, disk' \in {disk, [disk EXCEPT ![q] = c]}
      PROVE  \A p \in Skeleton : disk'[p] = disk[p]
  BY <1>1, OutputsApart DEF TypeOK, Paths
<1>2. \E q \in Outputs : \E c : disk' \in {disk, [disk EXCEPT ![q] = c]}
  <2>1. ASSUME NEW f \in TemplateFiles, WriteTemplateFile(f)
        PROVE  \E c : disk' \in {disk, [disk EXCEPT ![f] = c]}
    BY <2>1 DEF WriteTemplateFile, GoodWrite, BadWrite
  <2>2. CASE WriteValues
    <3>1. \E c : disk' \in {disk, [disk EXCEPT !["values.cue"] = c]}
      BY <2>2 DEF WriteValues, GoodWrite, BadWrite
    <3>. QED
      BY <3>1, OutputsApart
  <2>3. CASE WriteConfig
    <3>1. \E c : disk' \in {disk, [disk EXCEPT ![ConfigFile] = c]}
      BY <2>3 DEF WriteConfig, GoodWrite, BadWrite
    <3>. QED
      BY <3>1, OutputsApart
  <2>. QED
    BY <2>1, <2>2, <2>3, OutputsApart
<1>. QED
  BY <1>1, <1>2

SkeletonInv == Vendored /\ VendorFailureEndsRun /\ NoTimoniCue

LEMMA StepKeepsSkeleton ==
    ASSUME TypeOK, SkeletonInv, [Next]_vars
    PROVE  SkeletonInv'
<1>1. {"timoni.cue", "cue.mod/gen", "cue.mod/pkg"} \subseteq Skeleton /\ Skeleton \subseteq DOMAIN disk
  BY DEF Skeleton, TypeOK, Paths
<1>. USE DEF Vendored, VendorFailureEndsRun, SkeletonInv, runVars
<1>2. CASE Begin
  BY <1>2 DEF Begin, Forget, NoTimoniCue
<1>3. CASE StatTimoniCue
  BY <1>3 DEF StatTimoniCue, NotExist, Fail, NoTimoniCue, Exists
<1>4. CASE MakeDirs
  <2>1. disk'["timoni.cue"] = disk["timoni.cue"]
    BY <1>1, <1>4 DEF MakeDirs
  <2>. QED
    BY <1>4, <2>1 DEF MakeDirs, NoTimoniCue, Exists
<1>5. CASE CreateTimoniCue \/ CreateIgnore \/ CreateModuleCue
  BY <1>5 DEF CreateTimoniCue, CreateIgnore, CreateModuleCue, CreateFile, NoTimoniCue
<1>6. CASE VendorK8s
  <2>1. /\ pc' \in {"schemas", "failed"} /\ fresh' = fresh
        /\ pc' = "schemas" => disk' = [disk EXCEPT !["cue.mod/gen"] = Generated]
    BY <1>6 DEF VendorK8s, Vendor, AfterFailure
  <2>2. pc' = "schemas" => disk'["cue.mod/gen"] = Generated
    BY <1>1, <2>1
  <2>. QED
    BY <2>1, <2>2 DEF NoTimoniCue
<1>7. CASE VendorTimoni
  <2>1. /\ pc = "schemas" /\ pc' \in {"group", "failed"} /\ fresh' = fresh
        /\ pc' = "group" => disk' = [disk EXCEPT !["cue.mod/pkg"] = Generated]
    BY <1>7 DEF VendorTimoni, Vendor, AfterFailure
  <2>2. pc' = "group" => /\ disk'["cue.mod/pkg"] = Generated
                         /\ disk'["cue.mod/gen"] = disk["cue.mod/gen"]
    BY <1>1, <2>1
  <2>. QED
    BY <2>1, <2>2 DEF NoTimoniCue
<1>8. CASE Group \/ TemplatesWritten
  BY <1>8 DEF Group, Fail, TemplatesWritten, NoTimoniCue
<1>9. CASE (\E f \in TemplateFiles : WriteTemplateFile(f)) \/ WriteValues \/ WriteConfig
  <2>1. /\ disk'["cue.mod/gen"] = disk["cue.mod/gen"]
        /\ disk'["cue.mod/pkg"] = disk["cue.mod/pkg"]
    BY <1>1, <1>9, SkeletonKept
  <2>2. /\ fresh' = fresh /\ pc \in {"templates", "values", "config"}
        /\ pc' \in {"templates", "config", "ok", "failed"}
    BY <1>9 DEF WriteTemplateFile, WriteValues, WriteConfig, WriteFailed
  <2>. QED
    BY <2>1, <2>2 DEF NoTimoniCue
<1>10. CASE Crash \/ Again
  BY <1>10 DEF Crash, Again, NoTimoniCue
<1>11. CASE UserEdits
  BY <1>11 DEF UserEdits, NoTimoniCue
<1>12. CASE UNCHANGED vars
  BY <1>12 DEF vars, NoTimoniCue, Exists
<1>. QED
  BY <1>2, <1>3, <1>4, <1>5, <1>6, <1>7, <1>8, <1>9, <1>10, <1>11, <1>12 DEF Next

-----------------------------------------------------------------------------
(* The invariant                                                             *)

LEMMA InitInvariant == ASSUME Init PROVE ModuleInv
<1>1. ConfigFile \in Paths /\ disk[ConfigFile].what = "absent"
  BY OutputsApart DEF Init, Absent, Edited, Content, ConfigFile
<1>2. ConfigIsOlder /\ ConfigNotAhead
  BY <1>1 DEF ConfigIsOlder, ConfigNotAhead
<1>3. WrittenSoFar /\ Vendored /\ VendorFailureEndsRun /\ NoTimoniCue
  BY DEF Init, WrittenSoFar, Vendored, VendorFailureEndsRun, NoTimoniCue
<1>. QED
  BY <1>2, <1>3, InitTypes DEF ModuleInv

LEMMA StepKeepsInvariant ==
    ASSUME ModuleInv, [Next]_vars
    PROVE  ModuleInv'
<1>1. TypeOK /\ OutputsInv /\ SkeletonInv
  BY DEF ModuleInv, OutputsInv, SkeletonInv
<1>2. TypeOK' /\ SkeletonInv'
  BY <1>1, StepKeepsType, StepKeepsSkeleton
<1>3. OutputsInv'
  <2>1. CASE Preparation
    BY <1>1, <2>1, PreparationKeepsOutputs
  <2>2. CASE (\E f \in TemplateFiles : WriteTemplateFile(f)) \/ WriteValues \/ WriteConfig \/ Crash
    BY <1>1, <2>2, WritingKeepsOutputs
  <2>3. CASE UNCHANGED vars
    BY <1>1, <2>3 DEF vars, OutputsInv, ConfigIsOlder, WrittenSoFar, Whole, ValuesWhole,
                      ConfigNotAhead
  <2>. QED
    BY <2>1, <2>2, <2>3 DEF Next, Preparation
<1>. QED
  BY <1>2, <1>3 DEF ModuleInv, OutputsInv, SkeletonInv

(* What the properties rest on: config.cue is of an earlier run until the     *)
(* last step of a run, and that step finds everything else written.           *)
THEOREM Invariance == Spec => []ModuleInv
<1>1. Init => ModuleInv
  BY InitInvariant
<1>2. ModuleInv /\ [Next]_vars => ModuleInv'
  BY StepKeepsInvariant
<1>. QED
  BY <1>1, <1>2, PTL DEF Spec

(* module.go writes config.cue last: once it holds a run's objects, values.cue *)
(* and every template file of that run are whole, whatever fails, crashes or  *)
(* was on disk before.                                                        *)
THEOREM ConfigComesLast == Spec => []ConfigNotAhead
<1>1. ModuleInv => ConfigNotAhead
  BY DEF ModuleInv
<1>. QED
  BY <1>1, Invariance, PTL

(* init.go ends a run whose vendoring commands fail: one that goes on after    *)
(* it created the skeleton has both packages.                                 *)
THEOREM VendorFailureEnds == Spec => []VendorFailureEndsRun
<1>1. ModuleInv => VendorFailureEndsRun
  BY DEF ModuleInv
<1>. QED
  BY <1>1, Invariance, PTL

-----------------------------------------------------------------------------
(* timoni.cue                                                                *)

LEMMA StepKeepsTimoniCue ==
    ASSUME ModuleInv, Next, Exists("timoni.cue"), ~UserEdits
    PROVE  disk'["timoni.cue"] = disk["timoni.cue"]
<1>. DEFINE Kept == disk'["timoni.cue"] = disk["timoni.cue"]
<1>1. "timoni.cue" \in Skeleton /\ "timoni.cue" \in DOMAIN disk /\ TypeOK
  BY DEF Skeleton, ModuleInv, TypeOK, Paths
<1>2. pc \notin {"dirs", "timoni.cue"}
  BY DEF ModuleInv, NoTimoniCue
<1>3. ASSUME NEW q, q # "timoni.cue", NEW c, disk' \in {disk, [disk EXCEPT ![q] = c]}
      PROVE  Kept
  BY <1>1, <1>3
<1>4. CASE Begin \/ StatTimoniCue \/ Group \/ TemplatesWritten \/ Again
  BY <1>4 DEF Begin, StatTimoniCue, Group, Fail, TemplatesWritten, Again
<1>5. CASE MakeDirs \/ CreateTimoniCue
  BY <1>2, <1>5 DEF MakeDirs, CreateTimoniCue
<1>6. ASSUME NEW q, q # "timoni.cue", NEW next, CreateFile(q, next) \/ Vendor(q, next)
      PROVE  Kept
  <2>1. \E c : disk' \in {disk, [disk EXCEPT ![q] = c]}
    BY <1>6 DEF CreateFile, GoodWrite, BadWrite, Vendor
  <2>. QED
    BY <1>3, <1>6, <2>1
<1>7. CASE CreateIgnore \/ CreateModuleCue \/ VendorK8s \/ VendorTimoni
  BY <1>6, <1>7 DEF CreateIgnore, CreateModuleCue, VendorK8s, VendorTimoni
<1>8. CASE (\E f \in TemplateFiles : WriteTemplateFile(f)) \/ WriteValues \/ WriteConfig
  BY <1>1, <1>8, SkeletonKept
<1>9. CASE Crash
  <2>1. left \subseteq Outputs
    BY <1>1, GivenTypes, OutputsApart DEF TypeOK
  <2>2. "timoni.cue" \notin left /\ "timoni.cue" # ConfigFile
    BY <1>1, <2>1, OutputsApart
  <2>3. "timoni.cue" \notin Targets
    BY <1>2, <2>2 DEF Targets
  <2>. QED
    BY <1>3, <1>9, <2>3 DEF Crash
<1>. QED
  BY <1>4, <1>5, <1>7, <1>8, <1>9 DEF Next

(* README: timonify does not overwrite a timoni.cue that is there, in          *)
(* whichever state earlier runs or the user left the directory.               *)
THEOREM TimoniCueStays == Spec => TimoniCueKept
<1>1. ModuleInv /\ [Next]_vars
        => [Exists("timoni.cue") => disk'["timoni.cue"] = disk["timoni.cue"] \/ UserEdits]_vars
  BY StepKeepsTimoniCue
<1>. QED
  BY <1>1, Invariance, PTL DEF Spec, TimoniCueKept

-----------------------------------------------------------------------------
(* What a successful run leaves                                              *)

(* What a run leaves on disk when it reports success.                        *)
LEMMA DiskOfRun ==
    ASSUME ModuleInv, pc = "ok"
    PROVE  /\ disk[ConfigFile] = Content("config", run, given)
           /\ disk[ConfigFile].what = "config" /\ disk[ConfigFile].templates = given
           /\ \A f \in FilesOf(given) \ {ConfigFile} :
                 disk[f].what = "template" /\ disk[f].templates = TemplatesIn(given, f)
<1>1. disk[ConfigFile] = Content("config", run, given)
  BY DEF ModuleInv, WrittenSoFar
<1>2. /\ disk[ConfigFile].what = "config" /\ disk[ConfigFile].run = run
      /\ disk[ConfigFile].templates = given
  BY <1>1 DEF Content
<1>3. ASSUME NEW f \in FilesOf(given) \ {ConfigFile}
      PROVE  disk[f].what = "template" /\ disk[f].templates = TemplatesIn(given, f)
  <2>1. disk[f] = Content("template", run, TemplatesIn(given, f))
    BY <1>2 DEF ModuleInv, ConfigNotAhead
  <2>. QED
    BY <2>1 DEF Content
<1>. QED
  BY <1>1, <1>2, <1>3

(* Names that do not collide.                                                *)
LEMMA Apart ==
    ASSUME ~Collides
    PROVE  /\ \A i, j \in 1..Len(given) : given[i].file = given[j].file => i = j
           /\ \A i, j \in 1..Len(given) :
                 ObjectType(given[i]) = ObjectType(given[j]) => i = j
           /\ \A i, j \in 1..Len(given) :
                 ObjectLabel(given[i]) = ObjectLabel(given[j]) => i = j
           /\ FilesOf(given) \intersect ({ConfigFile} \union (TemplateFiles \ CueFiles)) = {}
           /\ \A t \in Range(given) :
                 /\ ObjectType(t) \notin OwnTypes
                 /\ ObjectLabel(t) # "config" /\ ObjectLabel(t) \in Identifiers
                 /\ \A f \in Leftovers : \A old \in Range(disk[f].templates) :
                       ObjectType(old) # ObjectType(t)
<1>1. Distinct(LAMBDA t : t.file) /\ Distinct(ObjectType) /\ Distinct(ObjectLabel)
  BY DEF Collides
<1>2. \A i, j \in 1..Len(given) : given[i].file = given[j].file => i = j
  BY <1>1 DEF Distinct
<1>3. \A i, j \in 1..Len(given) : ObjectType(given[i]) = ObjectType(given[j]) => i = j
  BY <1>1 DEF Distinct
<1>4. \A i, j \in 1..Len(given) : ObjectLabel(given[i]) = ObjectLabel(given[j]) => i = j
  BY <1>1 DEF Distinct
<1>. QED
  BY <1>2, <1>3, <1>4 DEF Collides

LEMMA PartOfGiven ==
    ASSUME TypeOK
    PROVE  /\ Range(given) = {given[i] : i \in 1..Len(given)}
           /\ \A f : Range(TemplatesIn(given, f)) = {t \in Range(given) : t.file = f}
<1>1. given \in Seq(Template)
  BY GivenTypes
<1>2. DOMAIN given = 1..Len(given)
  BY <1>1
<1>3. Range(given) = {given[i] : i \in 1..Len(given)}
  BY <1>2 DEF Range
<1>4. ASSUME NEW f
      PROVE  Range(TemplatesIn(given, f)) = {t \in Range(given) : t.file = f}
  <2> DEFINE places == {i \in 1..Len(given) : given[i].file = f}
  <2>1. TemplatesIn(given, f) = [i \in places |-> given[i]]
    BY DEF TemplatesIn, Restrict
  <2>2. Range(TemplatesIn(given, f)) = {given[i] : i \in places}
    BY <2>1 DEF Range
  <2>. QED
    BY <1>3, <2>2
<1>. QED
  BY <1>3, <1>4

LEMMA FilesLoad ==
    ASSUME ModuleInv, pc = "ok", ~Collides, \A f \in Leftovers : Loads(f),
           NEW f \in CueFiles \union {ConfigFile}, Exists(f)
    PROVE  Loads(f)
<1>1. CASE f = ConfigFile
  <2>1. disk[f].what = "config" /\ disk[f].templates = given
    BY <1>1, DiskOfRun
  <2>. QED
    BY <1>1, <2>1, Apart DEF Loads, Labels
<1>2. CASE f \in FilesOf(given) \ {ConfigFile}
  <2> DEFINE places == {i \in 1..Len(given) : given[i].file = f}
  <2>1. disk[f].what = "template" /\ disk[f].templates = TemplatesIn(given, f)
    BY <1>2, DiskOfRun
  <2>2. DOMAIN TemplatesIn(given, f) = places
    BY DEF TemplatesIn, Restrict
  <2>3. PICK i \in 1..Len(given) : given[i].file = f
    BY <1>2 DEF FilesOf
  <2>4. places = {i}
    BY <2>3, Apart
  <2>. QED
    BY <1>2, <2>1, <2>2, <2>3, <2>4 DEF Loads, HoldsOne
<1>3. CASE f \notin FilesOf(given) \union {ConfigFile}
  BY <1>3 DEF Leftovers
<1>. QED
  BY <1>1, <1>2, <1>3

(* The CUE files of the module define the types of this run's objects once.  *)
LEMMA DefinedOnce ==
    ASSUME ModuleInv, pc = "ok", ~Collides, NEW t \in Range(given)
    PROVE  Defined(ObjectType(t)) = {t}
<1>1. TypeOK
  BY DEF ModuleInv
<1>2. \A own \in Own : own.name # ObjectType(t)
  BY Apart DEF Own
<1>3. t \in Package
  <2> DEFINE f == t.file
  <2>1. f \in FilesOf(given) /\ f \in TemplateFiles
    BY <1>1, PartOfGiven, GivenTypes DEF FilesOf
  <2>2. f \in CueFiles \ {ConfigFile}
    BY <2>1, Apart
  <2>3. disk[f].templates = TemplatesIn(given, f)
    BY <2>1, <2>2, DiskOfRun
  <2>4. t \in Range(disk[f].templates)
    BY <1>1, <2>3, PartOfGiven
  <2>. QED
    BY <2>2, <2>4 DEF Package
<1>4. ASSUME NEW u \in Package, ObjectType(u) = ObjectType(t)
      PROVE  u = t
  <2>1. PICK f \in CueFiles \ {ConfigFile} : u \in Range(disk[f].templates)
    BY DEF Package
  <2>2. CASE f \in FilesOf(given)
    <3>1. disk[f].templates = TemplatesIn(given, f)
      BY <2>1, <2>2, DiskOfRun
    <3>2. u \in Range(given)
      BY <1>1, <2>1, <3>1, PartOfGiven
    <3>3. PICK i \in 1..Len(given), j \in 1..Len(given) : u = given[i] /\ t = given[j]
      BY <1>1, <3>2, PartOfGiven
    <3>. QED
      BY <1>4, <3>3, Apart
  <2>3. CASE f \notin FilesOf(given)
    <3>1. f \notin Leftovers
      BY <1>4, <2>1, Apart
    <3>2. disk[f] = Absent
      BY <2>1, <2>3, <3>1 DEF Leftovers, Exists
    <3>3. Range(disk[f].templates) = {}
      BY <3>2 DEF Absent, Content, Range
    <3>. QED
      BY <2>1, <3>3
  <2>. QED
    BY <2>2, <2>3
<1>. QED
  BY <1>2, <1>3, <1>4 DEF Defined

LEMMA OkIsRun == ASSUME ModuleInv PROVE InstanceIsRun
<1>. SUFFICES ASSUME pc = "ok", ~Collides, \A f \in Leftovers : Loads(f)
              PROVE  /\ \A f \in CueFiles \union {ConfigFile} : Exists(f) => Loads(f)
                     /\ Labels(disk[ConfigFile].templates) = Labels(given)
                     /\ "config" \notin Labels(disk[ConfigFile].templates)
                     /\ \A t \in Range(given) : Field(ObjectLabel(t)) = {t}
  BY DEF InstanceIsRun
<1>1. \A f \in CueFiles \union {ConfigFile} : Exists(f) => Loads(f)
  BY FilesLoad
<1>2. disk[ConfigFile].templates = given
  BY DiskOfRun
<1>3. "config" \notin Labels(given)
  BY Apart DEF Labels
<1>4. ASSUME NEW t \in Range(given)
      PROVE  Field(ObjectLabel(t)) = {t}
  <2>1. \A u \in Range(given) : ObjectLabel(u) = ObjectLabel(t) => u = t
    <3>1. TypeOK
      BY DEF ModuleInv
    <3>. QED
      BY <3>1, PartOfGiven, Apart
  <2>2. {u \in Range(given) : ObjectLabel(u) = ObjectLabel(t)} = {t}
    BY <2>1
  <2>3. Field(ObjectLabel(t)) = UNION {Defined(ObjectType(u)) : u \in {t}}
    BY <1>2, <2>2 DEF Field
  <2>. QED
    BY <2>3, DefinedOnce
<1>. QED
  BY <1>1, <1>2, <1>3, <1>4

(* module.go overwrites files and removes none: all the same a successful run  *)
(* whose names do not collide leaves a package whose instance is exactly the  *)
(* objects of that run, whatever runs came before and however they ended.     *)
THEOREM InstanceOfRun == Spec => []InstanceIsRun
<1>1. ModuleInv => InstanceIsRun
  BY OkIsRun
<1>. QED
  BY <1>1, Invariance, PTL

-----------------------------------------------------------------------------
(* Publication                                                               *)

(* The files of an earlier run's config.cue are outputs.                     *)
LEMMA ConfigFiles ==
    ASSUME TypeOK, disk[ConfigFile].what = "config"
    PROVE  FilesOf(disk[ConfigFile].templates) \subseteq TemplateFiles
<1>1. disk[ConfigFile].templates \in Inputs \union {<< >>}
  BY OutputsApart DEF TypeOK, IsContent
<1>2. disk[ConfigFile].templates \in Seq(Template)
  <2>1. << >> \in Seq(Template)
    OBVIOUS
  <2>. QED
    BY <1>1, <2>1, ModuleAssumption, Zenon
<1>3. \A i \in 1..Len(disk[ConfigFile].templates) :
         disk[ConfigFile].templates[i] \in Template
  BY <1>2
<1>. QED
  BY <1>3 DEF FilesOf, Template

(* Where no output changes, neither does the published module.               *)
LEMMA PublishedKept ==
    ASSUME TypeOK, \A p \in Outputs : disk'[p] = disk[p]
    PROVE  Published' = Published
<1>1. disk'[ConfigFile] = disk[ConfigFile] /\ disk'["values.cue"] = disk["values.cue"]
  BY OutputsApart
<1>2. disk[ConfigFile].what = "config" =>
         \A f \in FilesOf(disk[ConfigFile].templates) : disk'[f] = disk[f]
  BY ConfigFiles, OutputsApart
<1>3. WholeModule' = WholeModule
  BY <1>1, <1>2 DEF WholeModule, ConfigFile
<1>. QED
  BY <1>1, <1>3 DEF Published, ConfigFile

(* What a run writes before its last step completes no earlier run's module. *)
LEMMA OnlyUnpublishes ==
    ASSUME ModuleInv, pc \in Unfinished, NEW p, NEW c,
           c = Torn \/ (c.what # "config" /\ c.run = run),
           disk' \in {disk, [disk EXCEPT ![p] = c]}
    PROVE  Published' \in {Published, 0}
<1>. SUFFICES ASSUME WholeModule'
              PROVE  WholeModule /\ disk'[ConfigFile] = disk[ConfigFile]
  BY DEF Published, ConfigFile
<1>0. TypeOK /\ ConfigIsOlder
  BY DEF ModuleInv
<1>1. /\ disk'[ConfigFile].what = "config"
      /\ disk'["values.cue"] = Content("values", disk'[ConfigFile].run, << >>)
      /\ \A f \in FilesOf(disk'[ConfigFile].templates) \ {ConfigFile} :
            disk'[f] = Content("template", disk'[ConfigFile].run,
                               TemplatesIn(disk'[ConfigFile].templates, f))
  BY DEF WholeModule, ConfigFile
<1>2. c.what # "config"
  BY DEF Torn, Content
<1>3. ASSUME NEW q \in Paths, disk'[q] # disk[q]
      PROVE  disk'[q] = c
  BY <1>0, <1>3 DEF TypeOK
<1>4. disk'[ConfigFile] = disk[ConfigFile]
  BY <1>1, <1>2, <1>3, OutputsApart
<1>5. disk[ConfigFile].run < run /\ disk[ConfigFile].run \in Nat /\ run \in Nat
  BY <1>0, <1>1, <1>4, OutputsApart DEF ConfigIsOlder, TypeOK, IsContent
<1>6. \A what \in {"values", "template"} : \A templates :
          c # Content(what, disk[ConfigFile].run, templates)
  <2>1. c = Torn \/ c.run # disk[ConfigFile].run
    BY <1>5
  <2>. QED
    BY <2>1 DEF Torn, Content
<1>7. disk'["values.cue"] = disk["values.cue"]
  BY <1>1, <1>3, <1>4, <1>6, OutputsApart
<1>8. \A f \in FilesOf(disk[ConfigFile].templates) \ {ConfigFile} : disk'[f] = disk[f]
  <2>1. FilesOf(disk[ConfigFile].templates) \subseteq Paths
    BY <1>0, <1>1, <1>4, ConfigFiles, OutputsApart
  <2>. QED
    BY <1>1, <1>3, <1>4, <1>6, <2>1
<1>9. /\ disk[ConfigFile].what = "config"
      /\ disk["values.cue"] = Content("values", disk[ConfigFile].run, << >>)
      /\ \A f \in FilesOf(disk[ConfigFile].templates) \ {ConfigFile} :
            disk[f] = Content("template", disk[ConfigFile].run,
                              TemplatesIn(disk[ConfigFile].templates, f))
  BY <1>1, <1>4, <1>7, <1>8
<1>. QED
  BY <1>4, <1>9 DEF WholeModule

(* The last step finds no module published, and publishes the run's.         *)
LEMMA ConfigPublishes ==
    ASSUME ModuleInv, ModuleInv', WriteConfig, pc' = "ok"
    PROVE  Published = 0 /\ Published' = run
<1>1. run' = run /\ given' = given /\ pc = "config"
  BY DEF WriteConfig, runVars
<1>2. Published = 0
  <2>1. disk["values.cue"].run = run
    BY <1>1 DEF ModuleInv, WrittenSoFar, ValuesWhole, Content
  <2>2. disk[ConfigFile].what = "config" => disk[ConfigFile].run < run
    BY <1>1 DEF ModuleInv, ConfigIsOlder, Unfinished, Steps
  <2>3. run \in Nat
    BY DEF ModuleInv, TypeOK
  <2>4. ~WholeModule
    BY <2>1, <2>2, <2>3 DEF WholeModule, Content
  <2>. QED
    BY <2>4 DEF Published
<1>3. Published' = run
  <2>1. disk'[ConfigFile] = Content("config", run, given)
    BY <1>1 DEF ModuleInv, WrittenSoFar, ConfigFile
  <2>2. /\ disk'[ConfigFile].what = "config" /\ disk'[ConfigFile].run = run
        /\ disk'[ConfigFile].templates = given
    BY <2>1 DEF Content
  <2>3. /\ disk'["values.cue"] = Content("values", run, << >>)
        /\ \A f \in FilesOf(given) \ {ConfigFile} :
              disk'[f] = Content("template", run, TemplatesIn(given, f))
    BY <1>1, <2>2 DEF ModuleInv, ConfigNotAhead, ConfigFile
  <2>4. WholeModule'
    BY <2>2, <2>3 DEF WholeModule, ConfigFile
  <2>. QED
    BY <2>2, <2>4 DEF Published, ConfigFile
<1>. QED
  BY <1>2, <1>3

LEMMA InitRefines == ASSUME Init PROVE Promise!Init
<1>1. ConfigFile \in Paths /\ disk[ConfigFile].what # "config"
  BY OutputsApart DEF Init, Absent, Edited, Content, ConfigFile
<1>. QED
  BY <1>1 DEF Init, Promise!Init, Status, Published, WholeModule

LEMMA StepRefines ==
    ASSUME ModuleInv, ModuleInv', [Next]_vars
    PROVE  [Promise!Next]_(Promise!publicationVars)
<1>. USE DEF Promise!publicationVars
<1>0. TypeOK /\ (pc \in Unfinished <=> Status = "running") /\ pc \in Steps
  BY DEF ModuleInv, TypeOK, Status, Unfinished, Steps
<1>1. ASSUME Preparation
      PROVE  Published' = Published
  BY <1>0, <1>1, OutputsKept, PublishedKept
<1>2. CASE Begin
  <2>1. Promise!Begin
    BY <1>1, <1>2 DEF Begin, Preparation, Promise!Begin, Status
  <2>. QED
    BY <2>1 DEF Promise!Next
<1>3. CASE Again
  <2>1. Promise!Rest
    BY <1>1, <1>3 DEF Again, Preparation, Promise!Rest, Status, runVars
  <2>. QED
    BY <2>1 DEF Promise!Next
<1>4. CASE UserEdits
  BY <1>1, <1>4 DEF UserEdits, Preparation, Status, runVars
<1>5. ASSUME pc \in Unfinished, pc' \in Unfinished, run' = run, Published' = Published
      PROVE  UNCHANGED Promise!publicationVars
  BY <1>5 DEF Status, Unfinished
<1>6. ASSUME pc \in Unfinished, pc' \in {"failed", "idle"}, run' = run,
             Published' \in {Published, 0}
      PROVE  Promise!Next
  <2>1. Promise!GiveUp
    BY <1>6 DEF Promise!GiveUp, Status, Unfinished
  <2>. QED
    BY <2>1 DEF Promise!Next
<1>7. ASSUME pc \in Unfinished, pc' \in Unfinished, run' = run,
             Published' \in {Published, 0}
      PROVE  [Promise!Next]_(Promise!publicationVars)
  <2>1. CASE Published' = Published
    BY <1>5, <1>7, <2>1
  <2>2. CASE Published' = 0
    <3>1. Promise!Unpublish
      BY <1>7, <2>2 DEF Promise!Unpublish, Status, Unfinished
    <3>. QED
      BY <3>1 DEF Promise!Next
  <2>. QED
    BY <1>7, <2>1, <2>2
<1>8. ASSUME Preparation, ~Begin, ~Again, ~UserEdits
      PROVE  [Promise!Next]_(Promise!publicationVars)
  <2>1. pc \in Unfinished /\ pc' \in Unfinished \union {"failed"}
    BY <1>8 DEF Preparation, StatTimoniCue, MakeDirs, CreateTimoniCue, CreateIgnore,
                CreateModuleCue, CreateFile, VendorK8s, VendorTimoni, Vendor, AfterFailure,
                Group, TemplatesWritten, Fail, Unfinished, Steps
  <2>2. run' = run /\ Published' = Published
    BY <1>0, <1>1, <1>8, PreparationLeads
  <2>. QED
    BY <1>5, <1>6, <2>1, <2>2
<1>9. ASSUME NEW f \in TemplateFiles, WriteTemplateFile(f)
      PROVE  [Promise!Next]_(Promise!publicationVars)
  <2> DEFINE text == Content("template", run, TemplatesIn(given, f))
  <2>1. /\ pc \in Unfinished /\ pc' \in Unfinished \union {"failed"} /\ run' = run
        /\ disk' \in {disk, [disk EXCEPT ![f] = text]} \/ disk' \in {disk, [disk EXCEPT ![f] = Torn]}
    BY <1>9 DEF WriteTemplateFile, GoodWrite, BadWrite, Overwritten, Unfinished, Steps, runVars
  <2>2. text.what # "config" /\ text.run = run
    BY DEF Content
  <2>. HIDE DEF text
  <2>3. Published' \in {Published, 0}
    BY <2>1, <2>2, OnlyUnpublishes, Zenon
  <2>. QED
    BY <1>6, <1>7, <2>1, <2>3
<1>10. CASE WriteValues
  <2> DEFINE text == Content("values", run, << >>)
  <2>1. /\ pc \in Unfinished /\ pc' \in Unfinished \union {"failed"} /\ run' = run
        /\ \/ disk' \in {disk, [disk EXCEPT !["values.cue"] = text]}
           \/ disk' \in {disk, [disk EXCEPT !["values.cue"] = Torn]}
    BY <1>10 DEF WriteValues, GoodWrite, BadWrite, Unfinished, Steps, runVars
  <2>2. text.what # "config" /\ text.run = run
    BY DEF Content
  <2>. HIDE DEF text
  <2>3. Published' \in {Published, 0}
    BY <2>1, <2>2, OnlyUnpublishes, Zenon
  <2>. QED
    BY <1>6, <1>7, <2>1, <2>3
<1>11. CASE WriteConfig
  <2>1. run' = run /\ pc \in Unfinished /\ pc' \in {"ok", "failed"}
    BY <1>11 DEF WriteConfig, WriteFailed, runVars, Unfinished, Steps
  <2>2. CASE pc' = "ok"
    <3>1. Published = 0 /\ Published' = run
      BY <1>11, <2>2, ConfigPublishes
    <3>2. Promise!Publish
      BY <2>1, <2>2, <3>1 DEF Promise!Publish, Status, Unfinished
    <3>. QED
      BY <3>2 DEF Promise!Next
  <2>3. CASE pc' = "failed"
    <3>1. disk' \in {disk, [disk EXCEPT ![ConfigFile] = Torn]}
      BY <1>11, <2>3 DEF WriteConfig, BadWrite
    <3>2. Published' \in {Published, 0}
      BY <2>1, <3>1, OnlyUnpublishes, Zenon
    <3>. QED
      BY <1>6, <2>1, <2>3, <3>2
  <2>. QED
    BY <2>1, <2>2, <2>3
<1>12. CASE Crash
  <2>1. run' = run /\ pc \in Unfinished /\ pc' = "idle"
    BY <1>0, <1>12 DEF Crash, runVars, Unfinished
  <2>2. \E p : disk' \in {disk, [disk EXCEPT ![p] = Torn]}
    BY <1>12 DEF Crash
  <2>3. Published' \in {Published, 0}
    BY <2>1, <2>2, OnlyUnpublishes, Zenon
  <2>. QED
    BY <1>6, <2>1, <2>3
<1>13. CASE UNCHANGED vars
  <2>1. Published' = Published
    BY <1>0, <1>13, PublishedKept DEF vars
  <2>. QED
    BY <1>13, <2>1 DEF vars, Status
<1>. QED
  BY <1>2, <1>3, <1>4, <1>8, <1>9, <1>10, <1>11, <1>12, <1>13 DEF Next, Preparation

(* output.Create publishes a run's module with its last write, after it took   *)
(* the earlier one out of use; what it reports agrees with what is on disk.   *)
THEOREM Implementation == Spec => ImplementsPublication
<1>1. Init => Promise!Init
  BY InitRefines
<1>2. ModuleInv /\ ModuleInv' /\ [Next]_vars
        => [Promise!Next]_(Promise!publicationVars)
  BY StepRefines
<1>. QED
  BY <1>1, <1>2, Invariance, PTL DEF Spec, ImplementsPublication, Promise!Spec
=============================================================================
