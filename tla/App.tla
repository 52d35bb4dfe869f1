--------------------------------- MODULE App ---------------------------------
(***************************************************************************)
(* One run of timonify (cmd/timonify, pkg/app): the main goroutine loads     *)
(* every object of every input into the application context, then processes  *)
(* the objects one by one, and hands all the templates to the output; a      *)
(* signal handler may cancel the context at any time.                        *)
(*                                                                          *)
(* The module composes the walk over the files given (FileWalk), whose       *)
(* walkFunc ranges over the objects of a file, the decoder goroutine of the  *)
(* file (Decoder, one after another), and the metadata service (Metadata).   *)
(* What the output does with the templates is the subject of TimoniModule:   *)
(* here a single step stands for it.                                         *)
(***************************************************************************)
EXTENDS Integers, Sequences, FiniteSets

CONSTANTS
    Docs, Decodable, BufferSize, MaxDocs,               \* of Decoder
    Char, Separators, Names, Namespaces, OriginalName,  \* of Metadata
    MaxLoads,
    Entry, Requests, MaxGone,                           \* of FileWalk
    Object,          \* the object a decodable document decodes to
    Deployments,     \* the documents the deployment processor takes
    Faulty,          \* the documents whose processor returns an error
    DeploymentFile,  \* base name of the file of Deployments, "deployment"
    StdinStreams,    \* what stdin may hold: records [docs, ending]
    Contents         \* what the files hold: a function from paths to such records

Stdin == << >>

VARIABLES
    stdin,
    given, recursively, wpc, cur, left, handed, warned, gone,
    input, ending, available, read, gpc, held, res, stop, received, over,
    commonPrefix, namespace, names,           \* appContext.appMeta
    objects,     \* appContext.objects: <<stream, position>> of each object
    fileNames,   \* appContext.fileNames
    mpc,         \* where the main goroutine is
    idx,         \* the object it processes
    templates,   \* templates and filenames of CreateHelm
    filenames,
    created,     \* output.Create has been called
    pending,     \* a signal sits in the channel "done"
    handler      \* the handler goroutine: waiting or done

walkVars    == <<given, recursively, wpc, cur, left, handed, warned, gone>>
decoderVars == <<input, ending, available, read, gpc, held, res, stop, received, over>>
metaVars    == <<commonPrefix, namespace, names>>
contextVars == <<objects, fileNames>>
helmVars    == <<templates, filenames, created>>
signalVars  == <<pending, handler>>
vars == <<stdin, given, recursively, wpc, cur, left, handed, warned, gone,
          input, ending, available, read, gpc, held, res, stop, received, over,
          commonPrefix, namespace, names, objects, fileNames, mpc, idx,
          templates, filenames, created, pending, handler>>

(* Without -f the one stream is stdin, under no name; otherwise the streams   *)
(* are the files handed over so far.  A directory's every read fails.         *)
FromStdin == given = << >>
Opened == IF FromStdin THEN 1 ELSE Len(handed)
Stream(k) ==
    IF FromStdin THEN stdin
    ELSE LET p == Entry[handed[k].path].target
         IN  IF Entry[p].kind = "dir" THEN [docs |-> << >>, ending |-> "error"]
             ELSE Contents[p]
Filename(k) == IF FromStdin THEN Stdin ELSE <<handed[k].name>>

DocAt(o) == Stream(o[1]).docs[o[2]]
ObjectAt(o) == Object[DocAt(o)]

Files == INSTANCE FileWalk WITH pc <- wpc
Dec   == INSTANCE Decoder
Meta  == INSTANCE Metadata WITH loaded <- [i \in 1..Len(objects) |-> ObjectAt(objects[i])]

(* What a reader gives: documents, and what follows them.                     *)
Holdings == [docs : Seq(Docs), ending : Dec!Endings]

ASSUME AppAssumption ==
    /\ Files!FileWalkAssumption /\ Dec!DecoderAssumption /\ Meta!MetadataAssumption
    /\ StdinStreams \subseteq Holdings
    /\ \A p \in DOMAIN Contents : Contents[p] \in Holdings
    /\ Object \in [Decodable -> Meta!Objects]
    /\ Deployments \subseteq Decodable
    /\ Faulty \subseteq Decodable
    /\ \A d \in Deployments : Object[d].kind = "other"
    /\ DOMAIN Contents = {p \in DOMAIN Entry : Entry[p].kind = "file"}

Running == mpc \notin {"ok", "failed", "panic", "exited"}

-----------------------------------------------------------------------------
Init ==
    /\ Files!Init /\ (recursively => ~FromStdin)
    /\ stdin \in IF FromStdin THEN StdinStreams ELSE {[docs |-> << >>, ending |-> "eof"]}
    /\ input = << >> /\ ending = "eof" /\ available = 0 /\ stop = FALSE
    /\ read = 0 /\ gpc = "closed" /\ held = 0 /\ res = << >> /\ received = << >>
    /\ over = TRUE
    /\ commonPrefix = << >> /\ namespace = << >> /\ names = {}
    /\ objects = << >> /\ fileNames = << >>
    /\ mpc = "start" /\ idx = 1
    /\ templates = << >> /\ filenames = << >> /\ created = FALSE
    /\ pending = FALSE /\ handler = "none"

(* ReadFlags: -h, -help and -version print and exit.  The base name of the    *)
(* argument is the module's name, which Validate defaults and checks.         *)
Arguments == [exits : BOOLEAN, module : {"none", "valid", "invalid"}]
Validate(arg) == arg.module # "invalid"

(* main: without files stdin must not be a terminal.                         *)
NoInput(piped) == FromStdin /\ ~piped

(* The first lines of app.Start: the module name must be valid; then the      *)
(* handler is installed.                                                     *)
Start ==
    /\ mpc = "start"
    /\ \E arg \in Arguments, piped \in BOOLEAN :
          mpc' = IF arg.exits THEN "exited"
                 ELSE IF NoInput(piped) \/ ~Validate(arg) THEN "failed"
                 ELSE "open"
    /\ handler' = IF mpc' = "open" THEN "waiting" ELSE handler
    /\ UNCHANGED <<stdin, walkVars, decoderVars, metaVars, contextVars, idx, helmVars, pending>>

(* decoder.Decode on stdin, which arrives while it is read.                   *)
OpenStdin ==
    /\ mpc = "open"
    /\ FromStdin
    /\ Dec!Decode(stdin.docs, stdin.ending, 0)
    /\ mpc' = "range"
    /\ UNCHANGED <<stdin, walkVars, metaVars, contextVars, idx, helmVars, signalVars>>

(* A step of file.Walk; walkFunc decodes what it is handed, a fresh channel   *)
(* and a fresh goroutine for each file; a file is there as a whole.           *)
WalkFiles ==
    /\ mpc = "open"
    /\ ~FromStdin
    /\ Files!Walk
    /\ IF handed' = handed THEN UNCHANGED decoderVars
       ELSE LET s == Stream(Len(handed))' IN Dec!Decode(s.docs, s.ending, Len(s.docs))
    /\ mpc' = CASE wpc' = "panic" -> "panic"
                [] wpc' = "done" -> "process"
                [] handed' # handed -> "range"
                [] OTHER -> "open"
    /\ UNCHANGED <<stdin, metaVars, contextVars, idx, helmVars, signalVars>>

-----------------------------------------------------------------------------
(* appContext.process: the deployment processor takes Deployments, the       *)
(* default one the rest, and skips namespaces without a template.            *)

(* Mutant: an object that cannot be processed is skipped too.                *)
SkippedOrFaulty(d) ==
    d \in Faulty \/ (d \notin Deployments /\ Object[d].kind = "namespace")

Skipped(d) == d \notin Deployments /\ Object[d].kind = "namespace"
Fails(d) == ~Skipped(d) /\ d \in Faulty

(* The template of an object, of whose text the model keeps the name that    *)
(* ProcessObjMeta renders.                                                   *)
Template(o) == [object |-> o, name |-> Meta!TemplatedName(ObjectAt(o).name)]

(* Mutant: the file is named after the object as it is.                      *)
UntrimmedFilename(d) == IF d \in Deployments THEN DeploymentFile ELSE Object[d].name

TemplateFilename(d) ==
    IF d \in Deployments THEN DeploymentFile ELSE Meta!TrimName(Object[d].name)

(* Mutants: Add forgets the file name; Add processes the object at once.     *)
AddWithoutFilename(o) ==
    /\ objects' = Append(objects, o)
    /\ Meta!Load(ObjectAt(o))
    /\ UNCHANGED <<fileNames, helmVars>>
AddAndProcess(o) ==
    /\ objects' = Append(objects, o)
    /\ Meta!Load(ObjectAt(o))
    /\ fileNames' = Append(fileNames, Filename(o[1]))
    /\ templates' = Append(templates, Template(o))
    /\ filenames' = Append(filenames, Filename(o[1]))
    /\ UNCHANGED created

AddToContext(o) ==
    /\ objects' = Append(objects, o)
    /\ Meta!Load(ObjectAt(o))
    /\ fileNames' = Append(fileNames, Filename(o[1]))
    /\ UNCHANGED helmVars

(* for obj := range objects { appCtx.Add(obj, filename) }                    *)
Add ==
    /\ mpc = "range"
    /\ UNCHANGED <<stdin, walkVars, mpc, idx, signalVars>>
    /\ Dec!Receive
    /\ AddToContext(<<Opened, Head(res)>>)

(* The loop ends: of stdin, or of a file, and the walk goes on.              *)
StreamEnds ==
    /\ mpc = "range"
    /\ Dec!RangeEnds
    /\ mpc' = IF FromStdin THEN "process" ELSE "open"
    /\ UNCHANGED <<stdin, walkVars, metaVars, contextVars, idx, helmVars, signalVars>>

(* Mutant: the file name is taken at the template's index, not the object's. *)
FileNameByTemplate(i) ==
    LET f == fileNames[Len(templates) + 1]
    IN  IF f # Stdin THEN f ELSE TemplateFilename(DocAt(objects[i]))

FileName(i) ==
    IF fileNames[i] # Stdin THEN fileNames[i] ELSE TemplateFilename(DocAt(objects[i]))

ProcessObject ==
    /\ mpc = "process"
    /\ idx <= Len(objects)
    /\ LET d == DocAt(objects[idx])
       IN  \/ Fails(d) /\ mpc' = "failed" /\ UNCHANGED <<templates, filenames>>
           \/ Skipped(d) /\ mpc' = "check" /\ UNCHANGED <<templates, filenames>>
           \/ /\ ~Skipped(d) /\ ~Fails(d)
              /\ mpc' = "check"
              /\ templates' = Append(templates, Template(objects[idx]))
              /\ filenames' = Append(filenames, FileName(idx))
    /\ UNCHANGED <<stdin, walkVars, decoderVars, metaVars, contextVars, idx, created, signalVars>>

(* Mutant: CreateHelm does not look at stop.                                 *)
NeverStopped == FALSE

(* select { case <-stop: return nil; default: }                              *)
Stopped == stop
CheckStop ==
    /\ mpc = "check"
    /\ IF Stopped THEN mpc' = "ok" /\ UNCHANGED idx
                  ELSE mpc' = "process" /\ idx' = idx + 1
    /\ UNCHANGED <<stdin, walkVars, decoderVars, metaVars, contextVars, helmVars, signalVars>>

(* output.Create, whose error is the run's.                                  *)
Create ==
    /\ mpc = "process"
    /\ idx > Len(objects)
    /\ created' = TRUE
    /\ mpc' \in {"ok", "failed"}
    /\ UNCHANGED <<stdin, walkVars, decoderVars, metaVars, contextVars, idx, templates,
                   filenames, signalVars>>

Main == Start \/ OpenStdin \/ WalkFiles \/ Add \/ StreamEnds \/ ProcessObject
        \/ CheckStop \/ Create

-----------------------------------------------------------------------------
appVars == <<stdin, walkVars, metaVars, contextVars, mpc, idx, helmVars>>

(* The decoder goroutine of the current stream.                              *)
Decode ==
    /\ mpc = "range"
    /\ Dec!Goroutine
    /\ UNCHANGED <<appVars, signalVars>>

(* A signal comes: the channel holds one, further ones are dropped.  The     *)
(* handler takes one and cancels the context; a later one stays unread.      *)
Signal ==
    /\ Running
    /\ handler # "none"
    /\ ~pending
    /\ pending' = TRUE
    /\ UNCHANGED <<decoderVars, appVars, handler>>

HandleSignal ==
    /\ Running
    /\ handler = "waiting"
    /\ pending
    /\ pending' = FALSE
    /\ handler' = "done"
    /\ Dec!Cancel
    /\ UNCHANGED appVars

(* The writer at the other end of stdin; other processes on the file system. *)
StdinWriter ==
    /\ mpc = "range"
    /\ FromStdin
    /\ Dec!Arrive \/ Dec!WriterCloses
    /\ UNCHANGED <<appVars, signalVars>>

OtherProcess ==
    /\ Running
    /\ ~FromStdin
    /\ Files!RemovePath
    /\ UNCHANGED <<stdin, decoderVars, metaVars, contextVars, mpc, idx, helmVars, signalVars>>

Next == Main \/ Decode \/ Signal \/ HandleSignal \/ StdinWriter \/ OtherProcess

(* The Go scheduler runs each of the three goroutines when it can run.       *)
Fairness == WF_vars(Main) /\ WF_vars(Decode) /\ WF_vars(HandleSignal)

Spec == Init /\ [][Next]_vars /\ Fairness

-----------------------------------------------------------------------------
(* Properties                                                                *)

TypeOK ==
    /\ Files!TypeOK
    /\ Dec!TypeOK
    /\ Meta!TypeOK
    /\ Len(fileNames) = Len(objects)
    /\ mpc \in {"start", "open", "range", "process", "check",
               "ok", "failed", "panic", "exited"}
    /\ idx \in 1..Len(objects) + 1
    /\ created \in BOOLEAN /\ pending \in BOOLEAN
    /\ handler \in {"none", "waiting", "done"}

(* a comes before b in the input.                                            *)
Before(a, b) == a[1] < b[1] \/ (a[1] = b[1] /\ a[2] < b[2])

AllDecodable ==
    {o \in UNION {{k} \X (1..Len(Stream(k).docs)) : k \in 1..Opened} :
        DocAt(o) \in Decodable}

HoldsAllInput ==
    /\ {objects[i] : i \in 1..Len(objects)} = AllDecodable
    /\ \A i, j \in 1..Len(objects) : i < j => Before(objects[i], objects[j])
    /\ FromStdin \/ Files!AllTaken

(* The output is written from the whole input, each object once and in its    *)
(* order, every file asked for in it or its path warned of, never from the    *)
(* part read before an interrupt; the one exception is an interrupt that      *)
(* comes before any object was read (context.go looks at stop inside the      *)
(* loop over the objects only).                                               *)
OutputComplete ==
    created => HoldsAllInput \/ (stop /\ objects = << >>)

(* Every name of every template is rendered with the metadata of all the      *)
(* objects of the run, of those loaded later too: context.go:44 "we need to   *)
(* add all objects before start processing only to define app metadata".      *)
RenderedWithFinalMetadata ==
    \A i \in 1..Len(templates) :
        templates[i].name = Meta!TemplatedName(ObjectAt(templates[i].object).name)

(* context.go keeps three parallel lists (objects, fileNames, templates with  *)
(* filenames); when objects without a template are skipped, the i-th template *)
(* still goes to the file of its own object, and the templates keep the order *)
(* of the objects.                                                            *)
FilenamesMatchTemplates ==
    /\ Len(filenames) = Len(templates)
    /\ \A i \in 1..Len(templates) :
          LET o == templates[i].object
          IN  filenames[i] = IF FromStdin THEN TemplateFilename(DocAt(o))
                             ELSE <<handed[o[1]].name>>
    /\ \A i, j \in 1..Len(templates) :
          i < j => Before(templates[i].object, templates[j].object)

(* The output is all or nothing: it is written only when every object but the *)
(* namespaces has its template, so one object that cannot be processed keeps  *)
(* the whole module from being touched; and a run that ends well has either   *)
(* written it or was interrupted.                                             *)
AllOrNothing ==
    /\ created =>
          {templates[i].object : i \in 1..Len(templates)}
             = {objects[i] : i \in {k \in 1..Len(objects) :
                                      ObjectAt(objects[k]).kind # "namespace"}}
    /\ mpc = "ok" => created \/ stop

(* A run ends unless its input never does: it hangs only in a read nobody     *)
(* answers, or in reads a broken reader, such as a directory handed over      *)
(* through a link, answers with errors forever.                               *)
WaitsForInput == mpc = "range" /\ Dec!BlockedInRead
ReaderFails == mpc = "range" /\ read = Len(input) /\ ending = "error" /\ ~stop

EndsUnlessInputHangs ==
    <>(~Running) \/ <>[](WaitsForInput \/ ReaderFails)

(* A signal ends the run, unless the decoder sits in a read nobody answers.   *)
SignalEnds == pending /\ handler = "waiting" ~> (~Running \/ WaitsForInput)

(* app.go:33 "Received termination, signaling shutdown", and context.go:72-76 *)
(* returns before output.Create once stopped: an interrupted run writes no    *)
(* module from the part of the input it has read.                             *)
InterruptedWritesNothing == created => HoldsAllInput

(* A run implements Conversion: for whoever looks at the output only, it      *)
(* takes objects one by one and then writes, at once, what a function of      *)
(* them alone says, whatever the goroutines, the files and the signals do.    *)
Promise == INSTANCE Conversion
               WITH FileNames <- {Stdin} \union {<<p[Len(p)]>> : p \in DOMAIN Entry},
                    source <- [i \in 1..Len(objects) |->
                                  [doc |-> DocAt(objects[i]), stream |-> Filename(objects[i][1])]],
                    module <- IF created
                              THEN <<[i \in 1..Len(templates) |->
                                        [doc  |-> DocAt(templates[i].object),
                                         name |-> templates[i].name,
                                         file |-> filenames[i]]]>>
                              ELSE << >>,
                    ended  <- ~Running

ImplementsConversion == Promise!Spec
=============================================================================
