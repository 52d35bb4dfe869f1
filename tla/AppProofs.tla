------------------------------- MODULE AppProofs -------------------------------
(***************************************************************************)
(* Proofs about App, for every set of documents, every file system, every     *)
(* input, and every interleaving of the main goroutine, the decoder           *)
(* goroutines, the signal handler and other processes: its state is well      *)
(* formed; the output is written from the whole input, all of it or nothing;  *)
(* the templates are rendered with the final metadata, under the names of     *)
(* their own objects; and a run implements Conversion.  They rest on what is  *)
(* proved of the parts App is composed of: FileWalk, Decoder and Metadata.    *)
(***************************************************************************)
EXTENDS App, TLAPS

(* The same instances as in App, with the theorems of each part.             *)
FilesP == INSTANCE FileWalkProofs WITH pc <- wpc
DecP   == INSTANCE DecoderProofs
MetaP  == INSTANCE MetadataProofs WITH loaded <- [i \in 1..Len(objects) |-> ObjectAt(objects[i])]

-----------------------------------------------------------------------------
(* The inductive invariant                                                   *)

(* The streams opened, and the names they came under.                        *)
Streams   == [k \in 1..Opened |-> Stream(k)]
Filenames == [k \in 1..Opened |-> Filename(k)]

Loading    == mpc \in {"start", "open", "range"}
Processing == mpc \in {"process", "check"}

(* What each phase of a run has, and what it leaves for the next one.         *)
Phases ==
    /\ mpc \in {"start", "open", "range", "process", "check",
               "ok", "failed", "panic", "exited"}
    /\ idx \in 1..Len(objects) + 1
    /\ created \in BOOLEAN /\ pending \in BOOLEAN
    /\ handler \in {"none", "waiting", "done"}
    /\ Loading => templates = << >> /\ filenames = << >> /\ idx = 1
    /\ mpc = "start" => handed = << >> /\ objects = << >>
    /\ mpc = "open" /\ FromStdin => objects = << >>
    /\ mpc = "range" => Opened > 0 /\ input = Streams[Opened].docs
    /\ Processing \/ created => FromStdin \/ wpc = "done"
    /\ mpc = "check" => idx <= Len(objects)
    /\ created => mpc \in {"ok", "failed"} /\ idx > Len(objects)
    /\ mpc = "ok" => created \/ stop

(* The context holds decodable documents of the streams opened, in the order  *)
(* of the input, each with the name of its file.                              *)
Context ==
    /\ stdin \in Holdings
    /\ objects \in Seq(Nat \X Nat)
    /\ fileNames \in Seq(Seq(Nat)) /\ Len(fileNames) = Len(objects)
    /\ \A i \in 1..Len(objects) :
          objects[i] \in AllDecodable /\ fileNames[i] = Filenames[objects[i][1]]
    /\ \A i, j \in 1..Len(objects) : i < j => Before(objects[i], objects[j])

(* Of the stream it ranges over the context holds what the loop has had; of   *)
(* an earlier one everything, unless there was a signal.                      *)
Held(o) == \E i \in 1..Len(objects) : objects[i] = o
Ranging ==
    mpc = "range" =>
        /\ \A i \in 1..Len(objects) :
              objects[i][1] = Opened =>
                 \E r \in 1..Len(received) : received[r] = objects[i][2]
        /\ \A r \in 1..Len(received) : Held(<<Opened, received[r]>>)
Ended(k) == (mpc = "range" => k # Opened) /\ (mpc = "open" => ~FromStdin)
Earlier ==
    mpc \in {"open", "range"} /\ ~stop =>
        \A o \in AllDecodable : Ended(o[1]) => Held(o)

(* Once the objects are processed all the input is there, unless there was a  *)
(* signal; and only without one does the loop go on after the first object.   *)
Complete == \A o \in AllDecodable : Held(o)
Output ==
    /\ Processing => Complete \/ stop
    /\ mpc = "process" /\ idx > 1 => Complete
    /\ created => Complete \/ (stop /\ objects = << >>)

(* The templates so far are those of the objects so far, in their order: of   *)
(* all but the namespaces.                                                    *)
WithTemplate  == {k \in 1..Len(objects) : ObjectAt(objects[k]).kind # "namespace"}
Templates     == [k \in 1..Len(objects) |-> Template(objects[k])]
TemplateFiles == [k \in 1..Len(objects) |-> FileName(k)]
Processed(k)  == k < idx \/ (mpc # "process" /\ k = idx)
IsTemplateOf(i, k) == templates[i] = Templates[k] /\ filenames[i] = TemplateFiles[k]
Rendered ==
    /\ templates \in Seq({Templates[k] : k \in 1..Len(objects)})
    /\ filenames \in Seq({TemplateFiles[k] : k \in 1..Len(objects)})
    /\ Len(filenames) = Len(templates)
    /\ \A i \in 1..Len(templates) : \E k \in WithTemplate : IsTemplateOf(i, k) /\ Processed(k)
    /\ \A i, j \in 1..Len(templates) :
          i < j => Before(templates[i].object, templates[j].object)
    /\ Processing \/ created =>
          \A k \in WithTemplate : Processed(k) => \E i \in 1..Len(templates) : IsTemplateOf(i, k)

AppInv ==
    /\ FilesP!WalkInv /\ DecP!DecoderInv /\ Meta!TypeOK
    /\ Phases /\ Context /\ Ranging /\ Earlier /\ Output /\ Rendered
-----------------------------------------------------------------------------
(* The instances App takes its steps from are those the parts' theorems are   *)
(* about.                                                                     *)

LEMMA SameLookups ==
    /\ \A p : /\ (Files!Lstat(p) <=> FilesP!Lstat(p))
             /\ Files!Real(p) = FilesP!Real(p)
             /\ (Files!IsDir(p) <=> FilesP!IsDir(p))
             /\ (Files!Open(p) <=> FilesP!Open(p))
             /\ (Files!Stat(p) <=> FilesP!Stat(p))
             /\ (Files!List(p) <=> FilesP!List(p))
             /\ Files!Children(p) = FilesP!Children(p)
    /\ \A S : Files!First(S) = FilesP!First(S)
<1>1. \A p : /\ (Files!Lstat(p) <=> FilesP!Lstat(p))
            /\ Files!Real(p) = FilesP!Real(p)
            /\ (Files!IsDir(p) <=> FilesP!IsDir(p))
  BY DEF Files!Lstat, FilesP!Lstat, Files!Real, FilesP!Real, Files!IsDir, FilesP!IsDir,
         Files!IsPrefix, FilesP!IsPrefix
<1>2. \A p : /\ (Files!Open(p) <=> FilesP!Open(p))
            /\ (Files!Stat(p) <=> FilesP!Stat(p))
            /\ (Files!List(p) <=> FilesP!List(p))
  BY <1>1 DEF Files!Open, FilesP!Open, Files!Stat, FilesP!Stat, Files!List, FilesP!List
<1>3. \A p : Files!Children(p) = FilesP!Children(p)
  BY <1>1 DEF Files!Children, FilesP!Children, Files!IsPrefix, FilesP!IsPrefix
<1>4. \A S : Files!First(S) = FilesP!First(S)
  BY DEF Files!First, FilesP!First, Files!Precedes, FilesP!Precedes, Files!IsStrictPrefix,
         FilesP!IsStrictPrefix, Files!IsPrefix, FilesP!IsPrefix
<1>. QED
  BY <1>1, <1>2, <1>3, <1>4

LEMMA SameWalk == Files!Walk = FilesP!Walk
<1>. USE SameLookups DEF Files!NextPath, FilesP!NextPath, Files!Warn, FilesP!Warn,
         Files!Panic, FilesP!Panic, Files!Hand, FilesP!Hand, Files!Last, FilesP!Last
<1>1. Files!StatPath = FilesP!StatPath
  BY DEF Files!StatPath, FilesP!StatPath
<1>2. Files!SingleFile = FilesP!SingleFile
  BY DEF Files!SingleFile, FilesP!SingleFile
<1>3. Files!ListDir = FilesP!ListDir
  BY DEF Files!ListDir, FilesP!ListDir
<1>4. Files!OpenEntry = FilesP!OpenEntry
  BY DEF Files!OpenEntry, FilesP!OpenEntry, Files!SkippedEntry, FilesP!SkippedEntry
<1>5. Files!WalkEntry = FilesP!WalkEntry
  BY DEF Files!WalkEntry, FilesP!WalkEntry, Files!VisitDir, FilesP!VisitDir,
         Files!VisitFile, FilesP!VisitFile, Files!EntryFailed, FilesP!EntryFailed,
         Files!Fails, FilesP!Fails
<1>6. Files!PathDone = FilesP!PathDone
  BY DEF Files!PathDone, FilesP!PathDone
<1>7. Files!Done = FilesP!Done
  BY DEF Files!Done, FilesP!Done
<1>. QED
  BY <1>1, <1>2, <1>3, <1>4, <1>5, <1>6, <1>7 DEF Files!Walk, FilesP!Walk

LEMMA SameFiles ==
    /\ Files!Init = FilesP!Init
    /\ Files!RemovePath = FilesP!RemovePath
    /\ (Files!TypeOK <=> FilesP!TypeOK)
    /\ (Files!AllTaken <=> FilesP!AllTaken)
<1>1. Files!Init = FilesP!Init
  BY DEF Files!Init, FilesP!Init
<1>2. Files!RemovePath = FilesP!RemovePath
  BY SameLookups DEF Files!RemovePath, FilesP!RemovePath, Files!Cardinality, FilesP!Cardinality
<1>3. Files!TypeOK <=> FilesP!TypeOK
  BY DEF Files!TypeOK, FilesP!TypeOK
<1>4. Files!AllTaken <=> FilesP!AllTaken
  BY SameLookups DEF Files!AllTaken, FilesP!AllTaken, Files!FilesAt, FilesP!FilesAt,
         Files!StandsFor, FilesP!StandsFor, Files!HandedBy, FilesP!HandedBy,
         Files!LinkedDir, FilesP!LinkedDir, Files!IsStrictPrefix, FilesP!IsStrictPrefix,
         Files!IsPrefix, FilesP!IsPrefix, Files!Real, FilesP!Real
<1>. QED
  BY <1>1, <1>2, <1>3, <1>4

LEMMA SameDecoder ==
    /\ Dec!Goroutine = DecP!Goroutine
    /\ Dec!Receive = DecP!Receive
    /\ Dec!RangeEnds = DecP!RangeEnds
    /\ Dec!Arrive = DecP!Arrive
    /\ Dec!WriterCloses = DecP!WriterCloses
    /\ Dec!Cancel = DecP!Cancel
    /\ \A docs, end, arrived : Dec!Decode(docs, end, arrived) = DecP!Decode(docs, end, arrived)
    /\ Dec!Endings = DecP!Endings
    /\ (Dec!TypeOK <=> DecP!TypeOK)
<1>1. Dec!Goroutine = DecP!Goroutine
  BY DEF Dec!Goroutine, DecP!Goroutine, Dec!CheckStop, DecP!CheckStop, Dec!ReadDocument,
         DecP!ReadDocument, Dec!ReadEOF, DecP!ReadEOF, Dec!ReadError, DecP!ReadError,
         Dec!Send, DecP!Send, Dec!None, DecP!None
<1>2. Dec!Receive = DecP!Receive /\ Dec!RangeEnds = DecP!RangeEnds
  BY DEF Dec!Receive, DecP!Receive, Dec!RangeEnds, DecP!RangeEnds
<1>3. /\ Dec!Arrive = DecP!Arrive
      /\ Dec!WriterCloses = DecP!WriterCloses
      /\ Dec!Cancel = DecP!Cancel
  BY DEF Dec!Arrive, DecP!Arrive, Dec!WriterCloses, DecP!WriterCloses, Dec!Cancel, DecP!Cancel
<1>4. \A docs, end, arrived : Dec!Decode(docs, end, arrived) = DecP!Decode(docs, end, arrived)
  BY DEF Dec!Decode, DecP!Decode, Dec!None, DecP!None
<1>5. Dec!Endings = DecP!Endings
  BY DEF Dec!Endings, DecP!Endings
<1>6. Dec!TypeOK <=> DecP!TypeOK
  BY <1>5 DEF Dec!TypeOK, DecP!TypeOK
<1>. QED
  BY <1>1, <1>2, <1>3, <1>4, <1>5, <1>6

LEMMA SameMetadata ==
    /\ Meta!Objects = MetaP!Objects
    /\ (Meta!TypeOK <=> MetaP!TypeOK)
    /\ \A obj : Meta!Load(obj) = MetaP!Load(obj)
<1>1. Meta!Objects = MetaP!Objects
  BY DEF Meta!Objects, MetaP!Objects, Meta!Kinds, MetaP!Kinds
<1>2. Meta!TypeOK <=> MetaP!TypeOK
  BY <1>1 DEF Meta!TypeOK, MetaP!TypeOK
<1>3. \A obj : Meta!Load(obj) = MetaP!Load(obj)
  BY DEF Meta!Load, MetaP!Load, Meta!DetectCommonPrefix, MetaP!DetectCommonPrefix,
         Meta!ExtractAppNamespace, MetaP!ExtractAppNamespace, Meta!CommonPrefix,
         MetaP!CommonPrefix, Meta!NoName, MetaP!NoName, Meta!Min, MetaP!Min
<1>. QED
  BY <1>1, <1>2, <1>3

-----------------------------------------------------------------------------
(* What is proved of the parts, for the instances of App: their assumptions   *)
(* hold by App's.                                                            *)

LEMMA OfFileWalk ==
    /\ FilesP!Init => FilesP!WalkInv
    /\ FilesP!WalkInv /\ [FilesP!Next]_(FilesP!vars) => FilesP!WalkInv'
    /\ FilesP!WalkInv /\ FilesP!Walk =>
          /\ given' = given
          /\ Len(handed) \in Nat
          /\ handed' # handed =>
                /\ wpc' \notin {"done", "panic"}
                /\ Len(handed') = Len(handed) + 1
                /\ \A k \in 1..Len(handed) : handed'[k] = handed[k]
                /\ handed'[Len(handed')].path \in DOMAIN Entry
                /\ handed'[Len(handed')].name = FilesP!Last(handed'[Len(handed')].path)
    /\ FilesP!WalkInv /\ wpc = "done" => FilesP!AllTaken
<1>. USE AppAssumption DEF Files!FileWalkAssumption, Files!Path, FilesP!Path,
         Files!IsFiniteSet, FilesP!IsFiniteSet
<1>1. FilesP!Init => FilesP!WalkInv
  BY FilesP!WalkStarts
<1>2. FilesP!WalkInv /\ [FilesP!Next]_(FilesP!vars) => FilesP!WalkInv'
  BY FilesP!WalkGoesOn
<1>3. FilesP!WalkInv /\ FilesP!Walk =>
          /\ given' = given
          /\ Len(handed) \in Nat
          /\ handed' # handed =>
                /\ wpc' \notin {"done", "panic"}
                /\ Len(handed') = Len(handed) + 1
                /\ \A k \in 1..Len(handed) : handed'[k] = handed[k]
                /\ handed'[Len(handed')].path \in DOMAIN Entry
                /\ handed'[Len(handed')].name = FilesP!Last(handed'[Len(handed')].path)
  BY FilesP!WalkHandsOne
<1>4. FilesP!WalkInv /\ wpc = "done" => FilesP!AllTaken
  BY FilesP!WalkTakesAll
<1>. QED
  BY <1>1, <1>2, <1>3, <1>4

LEMMA OfDecoder ==
    /\ DecP!DecoderInv /\ [DecP!Next]_(DecP!decoderVars) => DecP!DecoderInv'
    /\ \A docs \in Seq(Docs), end \in DecP!Endings :
          \A arrived \in 0..Len(docs) :
             stop \in BOOLEAN /\ DecP!Decode(docs, end, arrived) => DecP!DecoderInv'
    /\ DecP!DecoderInv /\ res # << >> =>
          /\ Head(res) \in 1..Len(input) /\ input[Head(res)] \in Decodable
          /\ \A i \in 1..Len(received) : received[i] < Head(res)
    /\ DecP!DecoderInv /\ ~stop /\ gpc = "closed" /\ res = << >>
          => DecP!Elements(received) = DecP!DecodableUpTo(Len(input))
<1>. USE AppAssumption DEF Dec!DecoderAssumption
<1>1. DecP!DecoderInv /\ [DecP!Next]_(DecP!decoderVars) => DecP!DecoderInv'
  BY DecP!StepKeepsInv
<1>2. \A docs \in Seq(Docs), end \in DecP!Endings :
          \A arrived \in 0..Len(docs) :
             stop \in BOOLEAN /\ DecP!Decode(docs, end, arrived) => DecP!DecoderInv'
  BY DecP!DecodeEstablishes
<1>3. DecP!DecoderInv /\ res # << >> =>
          /\ Head(res) \in 1..Len(input) /\ input[Head(res)] \in Decodable
          /\ \A i \in 1..Len(received) : received[i] < Head(res)
  BY DecP!ReceivesNext
<1>4. DecP!DecoderInv /\ ~stop /\ gpc = "closed" /\ res = << >>
          => DecP!Elements(received) = DecP!DecodableUpTo(Len(input))
  BY DecP!DrainedIsComplete
<1>. QED
  BY <1>1, <1>2, <1>3, <1>4

LEMMA OfMetadata ==
    \A obj \in MetaP!Objects : MetaP!TypeOK /\ MetaP!Load(obj) => MetaP!TypeOK'
  BY AppAssumption, MetaP!LoadKeepsType DEF Meta!MetadataAssumption, Meta!NoName, MetaP!NoName

-----------------------------------------------------------------------------
(* The streams                                                               *)

(* What a file gives that walkFunc is handed under the path p.                *)
FileStream(p) ==
    LET t == Entry[p].target
    IN  IF Entry[t].kind = "dir" THEN [docs |-> << >>, ending |-> "error"] ELSE Contents[t]

LEMMA FileStreams ==
    /\ \A p \in DOMAIN Entry : FileStream(p) \in Holdings
    /\ \A k : Stream(k) = IF FromStdin THEN stdin ELSE FileStream(handed[k].path)
<1>1. ASSUME NEW p \in DOMAIN Entry
      PROVE  FileStream(p) \in Holdings
  <2> DEFINE t == Entry[p].target
  <2>1. t \in DOMAIN Entry /\ Entry[t].kind \in {"file", "dir"}
    BY AppAssumption DEF Files!FileWalkAssumption
  <2>2. CASE Entry[t].kind = "dir"
    BY <2>2 DEF FileStream, Holdings, Dec!Endings
  <2>3. CASE Entry[t].kind = "file"
    <3>1. t \in DOMAIN Contents
      BY <2>1, <2>3, AppAssumption
    <3>2. Contents[t] \in Holdings
      BY <3>1, AppAssumption
    <3>. QED
      BY <2>3, <3>2 DEF FileStream
  <2>. QED
    BY <2>1, <2>2, <2>3
<1>2. \A k : Stream(k) = IF FromStdin THEN stdin ELSE FileStream(handed[k].path)
  BY DEF Stream, FileStream
<1>. QED
  BY <1>1, <1>2

LEMMA StreamTypes ==
    ASSUME FilesP!WalkInv, Context
    PROVE  /\ Opened \in Nat
           /\ \A k \in 1..Opened : Stream(k) \in Holdings /\ Filename(k) \in Seq(Nat)
<1> DEFINE T == [path : DOMAIN Entry, name : Nat, by : 1..Len(given)]
<1>1. handed \in Seq(T)
  BY DEF FilesP!WalkInv, FilesP!TypeOK
<1>2. Len(handed) \in Nat /\ \A k \in 1..Len(handed) : handed[k] \in T
  <2>. HIDE DEF T
  <2>. QED
    BY <1>1
<1>3. \A k \in 1..Len(handed) : handed[k].path \in DOMAIN Entry /\ handed[k].name \in Nat
  BY <1>2
<1>4. \A k \in 1..Opened : Stream(k) \in Holdings
  BY <1>3, FileStreams DEF Context, Opened
<1>5. \A k \in 1..Opened : Filename(k) \in Seq(Nat)
  BY <1>3 DEF Opened, Filename, Stdin
<1>. QED
  BY <1>2, <1>4, <1>5 DEF Opened

LEMMA AllDecodableByPosition ==
    ASSUME FilesP!WalkInv, Context
    PROVE  \A o : o \in AllDecodable <=>
              /\ o \in Nat \X Nat
              /\ o[1] \in 1..Opened
              /\ o[2] \in 1..Len(Stream(o[1]).docs)
              /\ DocAt(o) \in Decodable
<1>1. Opened \in Nat /\ \A k \in 1..Opened : Len(Stream(k).docs) \in Nat
  BY StreamTypes DEF Holdings
<1>2. ASSUME NEW o \in AllDecodable
      PROVE  /\ o \in Nat \X Nat
             /\ o[1] \in 1..Opened
             /\ o[2] \in 1..Len(Stream(o[1]).docs)
             /\ DocAt(o) \in Decodable
  <2>1. DocAt(o) \in Decodable /\ \E k \in 1..Opened : o \in {k} \X (1..Len(Stream(k).docs))
    BY DEF AllDecodable
  <2>2. PICK k \in 1..Opened : o \in {k} \X (1..Len(Stream(k).docs))
    BY <2>1
  <2>. QED
    BY <1>1, <2>1, <2>2
<1>3. ASSUME NEW o \in Nat \X Nat, o[1] \in 1..Opened, o[2] \in 1..Len(Stream(o[1]).docs),
             DocAt(o) \in Decodable
      PROVE  o \in AllDecodable
  <2>1. o \in {o[1]} \X (1..Len(Stream(o[1]).docs))
    BY <1>3
  <2>. QED
    BY <1>3, <2>1 DEF AllDecodable
<1>. QED
  BY <1>2, <1>3

(* While no stream is opened nothing about the streams changes.               *)
LEMMA InputsStay ==
    ASSUME UNCHANGED <<stdin, given, handed>>
    PROVE  /\ FromStdin' = FromStdin /\ Opened' = Opened
           /\ \A k : Stream(k)' = Stream(k) /\ Filename(k)' = Filename(k)
           /\ \A o : DocAt(o)' = DocAt(o) /\ ObjectAt(o)' = ObjectAt(o)
           /\ AllDecodable' = AllDecodable
           /\ Streams' = Streams /\ Filenames' = Filenames
<1>1. FromStdin' = FromStdin /\ Opened' = Opened
  BY DEF FromStdin, Opened
<1>2. \A k : Stream(k)' = Stream(k) /\ Filename(k)' = Filename(k)
  BY <1>1 DEF Stream, Filename
<1>3. \A o : DocAt(o)' = DocAt(o) /\ ObjectAt(o)' = ObjectAt(o)
  BY <1>2 DEF DocAt, ObjectAt
<1>4. AllDecodable' = AllDecodable
  BY <1>1, <1>2, <1>3 DEF AllDecodable
<1>5. Streams' = Streams /\ Filenames' = Filenames
  BY <1>1, <1>2 DEF Streams, Filenames
<1>. QED
  BY <1>1, <1>2, <1>3, <1>4, <1>5

(* The walk opens one more, or none.                                         *)
LEMMA WalkOpensOne ==
    ASSUME FilesP!WalkInv, Files!Walk, UNCHANGED stdin, ~FromStdin
    PROVE  /\ ~FromStdin' /\ Opened \in Nat
           /\ handed' # handed =>
                 /\ wpc' \notin {"done", "panic"}
                 /\ Opened' = Opened + 1
                 /\ \A k \in 1..Opened : Stream(k)' = Stream(k) /\ Filename(k)' = Filename(k)
                 /\ Stream(Len(handed))' \in Holdings
                 /\ Stream(Len(handed))' = Streams'[Opened']
<1>1. /\ given' = given /\ Len(handed) \in Nat
      /\ handed' # handed =>
            /\ wpc' \notin {"done", "panic"}
            /\ Len(handed') = Len(handed) + 1
            /\ \A k \in 1..Len(handed) : handed'[k] = handed[k]
            /\ handed'[Len(handed')].path \in DOMAIN Entry
  BY SameWalk, OfFileWalk
<1>2. ~FromStdin' /\ Opened = Len(handed) /\ Opened' = Len(handed')
  BY <1>1 DEF FromStdin, Opened
<1>3. ASSUME handed' # handed, NEW k \in 1..Opened
      PROVE  Stream(k)' = Stream(k) /\ Filename(k)' = Filename(k)
  BY <1>1, <1>2, <1>3 DEF Stream, Filename
<1>4. ASSUME handed' # handed
      PROVE  Stream(Len(handed))' \in Holdings /\ Stream(Len(handed))' = Streams'[Opened']
  <2>1. Stream(Len(handed))' = FileStream(handed'[Len(handed')].path)
    BY <1>2 DEF Stream, FileStream
  <2>2. \A k : Stream(k)' = FileStream(handed'[k].path)
    BY <1>2 DEF Stream, FileStream
  <2>3. Opened' \in 1..Opened'
    BY <1>1, <1>2, <1>4
  <2>4. Streams'[Opened'] = FileStream(handed'[Opened'].path)
    BY <2>2, <2>3 DEF Streams
  <2>. QED
    BY <1>1, <1>2, <1>4, <2>1, <2>4, FileStreams
<1>. QED
  BY <1>1, <1>2, <1>3, <1>4

-----------------------------------------------------------------------------
(* The parts keep their invariants                                           *)

LEMMA WalkStep ==
    ASSUME FilesP!WalkInv, [Next]_vars
    PROVE  FilesP!WalkInv' /\ given' = given
<1>1. CASE WalkFiles
  BY <1>1, SameWalk, OfFileWalk DEF WalkFiles, FilesP!Next
<1>2. CASE OtherProcess
  <2>1. FilesP!WalkInv'
    BY <1>2, SameFiles, OfFileWalk DEF OtherProcess, FilesP!Next
  <2>. QED
    BY <1>2, <2>1 DEF OtherProcess, Files!RemovePath
<1>3. CASE UNCHANGED walkVars
  BY <1>3, OfFileWalk DEF walkVars, FilesP!vars
<1>4. ASSUME [Next]_vars, ~WalkFiles, ~OtherProcess
      PROVE  UNCHANGED walkVars
  BY <1>4 DEF Next, Main, vars, walkVars, appVars, Start, OpenStdin, Add, StreamEnds,
              ProcessObject, CheckStop, Create, Decode, Signal, HandleSignal, StdinWriter
<1>. QED
  BY <1>1, <1>2, <1>3, <1>4

LEMMA DecoderStep ==
    ASSUME FilesP!WalkInv, DecP!DecoderInv, Context, [Next]_vars
    PROVE  DecP!DecoderInv'
<1>0. stop \in BOOLEAN /\ \A h \in Holdings :
         h.docs \in Seq(Docs) /\ Len(h.docs) \in Nat /\ h.ending \in DecP!Endings
  BY SameDecoder DEF DecP!DecoderInv, DecP!TypeOK, Holdings
<1>1. CASE OpenStdin
  <2>1. DecP!Decode(stdin.docs, stdin.ending, 0) /\ stdin \in Holdings
    BY <1>1, SameDecoder DEF OpenStdin, Context
  <2>2. 0 \in 0..Len(stdin.docs)
    BY <1>0, <2>1
  <2>. QED
    BY <1>0, <2>1, <2>2, OfDecoder
<1>2. CASE WalkFiles
  <2>1. CASE handed' = handed
    BY <1>2, <2>1, OfDecoder DEF WalkFiles, decoderVars, DecP!decoderVars
  <2>2. CASE handed' # handed
    <3> DEFINE s == Stream(Len(handed))'
    <3>1. s \in Holdings /\ DecP!Decode(s.docs, s.ending, Len(s.docs))
      BY <1>2, <2>2, WalkOpensOne, SameDecoder DEF WalkFiles
    <3>. HIDE DEF s
    <3>2. Len(s.docs) \in 0..Len(s.docs)
      BY <1>0, <3>1
    <3>. QED
      BY <1>0, <3>1, <3>2, OfDecoder
  <2>. QED
    BY <2>1, <2>2
<1>3. CASE Add
  BY <1>3, SameDecoder, OfDecoder DEF Add, DecP!Next, DecP!Consumer
<1>4. CASE StreamEnds
  BY <1>4, SameDecoder, OfDecoder DEF StreamEnds, DecP!Next, DecP!Consumer
<1>5. CASE Decode
  BY <1>5, SameDecoder, OfDecoder DEF Decode, DecP!Next
<1>6. CASE HandleSignal
  BY <1>6, SameDecoder, OfDecoder DEF HandleSignal, DecP!Next, DecP!Environment
<1>7. CASE StdinWriter
  BY <1>7, SameDecoder, OfDecoder DEF StdinWriter, DecP!Next, DecP!Environment
<1>8. CASE UNCHANGED decoderVars
  BY <1>8, OfDecoder DEF decoderVars, DecP!decoderVars
<1>9. \/ OpenStdin \/ WalkFiles \/ Add \/ StreamEnds \/ Decode \/ HandleSignal \/ StdinWriter
      \/ UNCHANGED decoderVars
  BY DEF Next, Main, vars, decoderVars, Start, ProcessObject, CheckStop, Create, Signal,
         OtherProcess
<1>. QED
  BY <1>1, <1>2, <1>3, <1>4, <1>5, <1>6, <1>7, <1>8, <1>9

-----------------------------------------------------------------------------
(* The phases and the context                                                *)

LEMMA ContextTypes ==
    ASSUME Context
    PROVE  /\ Len(objects) \in Nat /\ Len(fileNames) \in Nat
           /\ \A i \in 1..Len(objects) :
                 objects[i] \in Nat \X Nat /\ fileNames[i] \in Seq(Nat)
  BY DEF Context

(* What Add puts into the context.                                           *)
LEMMA AddsNext ==
    ASSUME FilesP!WalkInv, DecP!DecoderInv, Phases, Context, Ranging, Add
    PROVE  LET o == <<Opened, Head(res)>>
           IN  /\ o \in Nat \X Nat /\ o \in AllDecodable
               /\ o[1] = Opened /\ o[2] = Head(res)
               /\ \A i \in 1..Len(objects) : Before(objects[i], o)
               /\ Filename(Opened) \in Seq(Nat)
<1> DEFINE o == <<Opened, Head(res)>>
<1>1. /\ Opened \in Nat /\ Opened > 0
      /\ input = Stream(Opened).docs /\ Filename(Opened) \in Seq(Nat)
  BY StreamTypes DEF Add, Phases, Streams
<1>2. /\ Head(res) \in 1..Len(input) /\ input[Head(res)] \in Decodable
      /\ \A i \in 1..Len(received) : received[i] < Head(res)
  BY OfDecoder DEF Add, Dec!Receive
<1>3. Len(input) \in Nat /\ Head(res) \in Nat
  BY <1>2 DEF DecP!DecoderInv, DecP!TypeOK
<1>4. o[1] = Opened /\ o[2] = Head(res) /\ o \in Nat \X Nat
  BY <1>1, <1>3
<1>5. o \in AllDecodable
  BY <1>1, <1>2, <1>4, AllDecodableByPosition DEF DocAt
<1>6. ASSUME NEW i \in 1..Len(objects)
      PROVE  Before(objects[i], o)
  <2>1. objects[i][1] \in 1..Opened /\ objects[i] \in Nat \X Nat
    BY AllDecodableByPosition DEF Context
  <2>2. CASE objects[i][1] = Opened
    <3>1. PICK r \in 1..Len(received) : received[r] = objects[i][2]
      BY <2>2 DEF Ranging, Add
    <3>. QED
      BY <1>2, <1>4, <2>2, <3>1 DEF Before
  <2>3. CASE objects[i][1] # Opened
    BY <1>1, <1>4, <2>1, <2>3 DEF Before
  <2>. QED
    BY <2>2, <2>3
<1>. QED
  BY <1>1, <1>4, <1>5, <1>6

LEMMA ContextAfterAdd ==
    ASSUME FilesP!WalkInv, DecP!DecoderInv, Phases, Context, Ranging, Add
    PROVE  /\ objects' = Append(objects, <<Opened, Head(res)>>)
           /\ objects' \in Seq(Nat \X Nat)
           /\ Len(objects') = Len(objects) + 1
           /\ objects'[Len(objects) + 1] = <<Opened, Head(res)>>
           /\ \A i \in 1..Len(objects) : objects'[i] = objects[i]
           /\ fileNames' \in Seq(Seq(Nat)) /\ Len(fileNames') = Len(objects')
           /\ fileNames'[Len(objects) + 1] = Filename(Opened)
           /\ \A i \in 1..Len(objects) : fileNames'[i] = fileNames[i]
<1> DEFINE o == <<Opened, Head(res)>>
           f == Filename(Opened)
<1>1. o \in Nat \X Nat /\ o[1] = Opened /\ f \in Seq(Nat)
  BY AddsNext
<1>2. objects' = Append(objects, o) /\ fileNames' = Append(fileNames, Filename(o[1]))
  BY DEF Add, AddToContext
<1>3. /\ objects \in Seq(Nat \X Nat) /\ fileNames \in Seq(Seq(Nat))
      /\ Len(fileNames) = Len(objects)
  BY DEF Context
<1>. HIDE DEF o, f
<1>4. fileNames' = Append(fileNames, f)
  BY <1>1, <1>2 DEF f
<1>5. /\ objects' \in Seq(Nat \X Nat)
      /\ Len(objects') = Len(objects) + 1
      /\ objects'[Len(objects) + 1] = o
      /\ \A i \in 1..Len(objects) : objects'[i] = objects[i]
  BY <1>1, <1>2, <1>3
<1>6. /\ fileNames' \in Seq(Seq(Nat)) /\ Len(fileNames') = Len(fileNames) + 1
      /\ fileNames'[Len(fileNames) + 1] = f
      /\ \A i \in 1..Len(fileNames) : fileNames'[i] = fileNames[i]
  BY <1>1, <1>3, <1>4
<1>. QED
  BY <1>2, <1>3, <1>5, <1>6 DEF o, f

(* Only Add changes the context, and what it holds stays what it was.         *)
LEMMA ContextKept ==
    ASSUME FilesP!WalkInv, Context, [Next]_vars
    PROVE  /\ FromStdin' = FromStdin /\ stdin' = stdin /\ given' = given
           /\ Opened \in Nat /\ Opened' \in Nat /\ Opened <= Opened'
           /\ \A k \in 1..Opened : Stream(k)' = Stream(k) /\ Filename(k)' = Filename(k)
           /\ \A k \in 1..Opened : Filenames'[k] = Filenames[k]
           /\ \A o \in AllDecodable : o \in AllDecodable' /\ DocAt(o)' = DocAt(o)
           /\ \A o \in AllDecodable' : o[1] \in 1..Opened => o \in AllDecodable
           /\ ~WalkFiles => handed' = handed
           /\ ~Add => UNCHANGED <<objects, fileNames, commonPrefix, namespace, names>>
<1>1. stdin' = stdin /\ given' = given /\ FromStdin' = FromStdin
  <2>1. stdin' = stdin
    BY DEF Next, Main, vars, appVars, Start, OpenStdin, WalkFiles, Add, StreamEnds,
           ProcessObject, CheckStop, Create, Decode, Signal, HandleSignal, StdinWriter,
           OtherProcess
  <2>. QED
    BY <2>1, WalkStep DEF FromStdin
<1>2. ASSUME ~WalkFiles
      PROVE  handed' = handed
  BY <1>2 DEF Next, Main, vars, appVars, walkVars, Start, OpenStdin, Add, StreamEnds,
       ProcessObject, CheckStop, Create, Decode, Signal, HandleSignal, StdinWriter,
       OtherProcess, Files!RemovePath
<1>3. ASSUME ~Add
      PROVE  UNCHANGED <<objects, fileNames, commonPrefix, namespace, names>>
  BY <1>3 DEF Next, Main, vars, appVars, contextVars, metaVars, Start, OpenStdin, WalkFiles,
       StreamEnds, ProcessObject, CheckStop, Create, Decode, Signal, HandleSignal,
       StdinWriter, OtherProcess
<1>4. /\ Opened \in Nat /\ Opened' \in Nat /\ Opened <= Opened'
      /\ \A k \in 1..Opened : Stream(k)' = Stream(k) /\ Filename(k)' = Filename(k)
  <2>1. CASE handed' = handed
    BY <1>1, <2>1, InputsStay, StreamTypes
  <2>2. CASE handed' # handed
    BY <1>1, <1>2, <2>2, WalkOpensOne DEF WalkFiles
  <2>. QED
    BY <2>1, <2>2
<1>5. \A k \in 1..Opened : Filenames'[k] = Filenames[k]
  BY <1>4 DEF Filenames
<1>6. ASSUME NEW o \in AllDecodable
      PROVE  o \in AllDecodable' /\ DocAt(o)' = DocAt(o)
  <2>1. PICK k \in 1..Opened : o \in {k} \X (1..Len(Stream(k).docs))
    BY DEF AllDecodable
  <2>2. o[1] = k /\ k \in 1..Opened' /\ Stream(k)' = Stream(k) /\ DocAt(o) \in Decodable
    BY <1>4, <2>1 DEF AllDecodable
  <2>3. DocAt(o)' = DocAt(o)
    BY <2>2 DEF DocAt
  <2>4. o \in {k} \X (1..Len(Stream(k)'.docs))
    BY <2>1, <2>2
  <2>. QED
    BY <2>2, <2>3, <2>4 DEF AllDecodable
<1>7. ASSUME NEW o \in AllDecodable', o[1] \in 1..Opened
      PROVE  o \in AllDecodable
  <2>1. PICK k \in 1..Opened' : o \in {k} \X (1..Len(Stream(k)'.docs))
    BY DEF AllDecodable
  <2>2. o[1] = k /\ k \in 1..Opened /\ Stream(k)' = Stream(k) /\ DocAt(o)' \in Decodable
    BY <1>4, <1>7, <2>1 DEF AllDecodable
  <2>3. DocAt(o)' = DocAt(o)
    BY <2>2 DEF DocAt
  <2>4. o \in {k} \X (1..Len(Stream(k).docs))
    BY <2>1, <2>2
  <2>. QED
    BY <2>2, <2>3, <2>4 DEF AllDecodable
<1>. QED
  BY <1>1, <1>2, <1>3, <1>4, <1>5, <1>6, <1>7

LEMMA ContextStep ==
    ASSUME FilesP!WalkInv, DecP!DecoderInv, Phases, Context, Ranging, [Next]_vars
    PROVE  Context'
<1>1. ASSUME NEW o \in AllDecodable
      PROVE  o \in AllDecodable' /\ Filenames'[o[1]] = Filenames[o[1]]
  BY ContextKept, AllDecodableByPosition
<1>2. CASE Add
  <2> DEFINE o == <<Opened, Head(res)>>
             n == Len(objects) + 1
  <2>1. /\ objects' \in Seq(Nat \X Nat) /\ Len(objects') = n
        /\ objects'[n] = o /\ \A i \in 1..Len(objects) : objects'[i] = objects[i]
        /\ fileNames' \in Seq(Seq(Nat)) /\ Len(fileNames') = Len(objects')
        /\ fileNames'[n] = Filename(Opened)
        /\ \A i \in 1..Len(objects) : fileNames'[i] = fileNames[i]
    BY <1>2, ContextAfterAdd
  <2>0. Opened \in 1..Opened
    BY <1>2, StreamTypes DEF Phases, Add
  <2>2. /\ o \in AllDecodable /\ o[1] = Opened
        /\ \A i \in 1..Len(objects) : Before(objects[i], o)
    BY <1>2, AddsNext
  <2>3. Filenames[o[1]] = Filename(Opened)
    BY <2>0, <2>2 DEF Filenames
  <2>. HIDE DEF o
  <2>4. Len(objects) \in Nat /\ \A i \in 1..n : i = n \/ i \in 1..Len(objects)
    BY ContextTypes
  <2>5. ASSUME NEW i \in 1..n
        PROVE  objects'[i] \in AllDecodable' /\ fileNames'[i] = Filenames'[objects'[i][1]]
    <3>1. CASE i = n
      BY <1>1, <2>1, <2>2, <2>3, <3>1
    <3>2. CASE i \in 1..Len(objects)
      BY <1>1, <2>1, <3>2 DEF Context
    <3>. QED
      BY <2>4, <3>1, <3>2
  <2>6. \A i, j \in 1..n : i < j => Before(objects'[i], objects'[j])
    <3>. TAKE i, j \in 1..n
    <3>. HAVE i < j
    <3>1. i \in 1..Len(objects)
      BY <2>4
    <3>2. CASE j = n
      BY <2>1, <2>2, <3>1, <3>2
    <3>3. CASE j # n
      BY <2>1, <2>4, <3>1, <3>3 DEF Context
    <3>. QED
      BY <3>2, <3>3
  <2>7. stdin' \in Holdings
    BY ContextKept DEF Context
  <2>. QED
    BY <2>1, <2>5, <2>6, <2>7 DEF Context, Before
<1>3. CASE ~Add
  <2>1. UNCHANGED <<objects, fileNames, stdin>>
    BY <1>3, ContextKept
  <2>2. \A i \in 1..Len(objects') :
           objects'[i] \in AllDecodable' /\ fileNames'[i] = Filenames'[objects'[i][1]]
    BY <1>1, <2>1 DEF Context
  <2>3. \A i, j \in 1..Len(objects') : i < j => Before(objects'[i], objects'[j])
    BY <2>1 DEF Context
  <2>. QED
    BY <2>1, <2>2, <2>3 DEF Context, Before
<1>. QED
  BY <1>2, <1>3

LoadedTyped == [i \in 1..Len(objects) |-> ObjectAt(objects[i])] \in Seq(Meta!Objects)

LEMMA LoadedTypes == Context => LoadedTyped
<1>. SUFFICES ASSUME Context
              PROVE  [i \in 1..Len(objects) |-> ObjectAt(objects[i])] \in Seq(Meta!Objects)
  BY DEF LoadedTyped
<1>1. \A i \in 1..Len(objects) : ObjectAt(objects[i]) \in Meta!Objects
  BY AppAssumption DEF Context, AllDecodable, ObjectAt
<1>. QED
  BY <1>1, ContextTypes

LEMMA LoadedTypesNext == Context' => LoadedTyped'
  BY LoadedTypes, PTL

LEMMA MetadataStep ==
    ASSUME FilesP!WalkInv, DecP!DecoderInv, Meta!TypeOK, Phases, Context, Ranging, [Next]_vars
    PROVE  Meta!TypeOK'
<1>1. CASE Add
  <2> DEFINE o == <<Opened, Head(res)>>
  <2>1. o \in AllDecodable
    BY <1>1, AddsNext
  <2>2. ObjectAt(o) \in Meta!Objects
    BY <2>1, AppAssumption DEF AllDecodable, ObjectAt
  <2>3. Meta!Load(ObjectAt(o))
    BY <1>1 DEF Add, AddToContext
  <2>4. \E obj \in MetaP!Objects : MetaP!Load(obj)
    BY <2>2, <2>3, SameMetadata, Zenon
  <2>5. MetaP!TypeOK'
    BY <2>4, OfMetadata, SameMetadata, Zenon
  <2>. QED
    BY <2>5 DEF Meta!TypeOK, MetaP!TypeOK, Meta!Objects, MetaP!Objects, Meta!Kinds, MetaP!Kinds
<1>2. CASE ~Add
  <2>1. UNCHANGED <<commonPrefix, namespace, names>>
    BY <1>2, ContextKept
  <2>. QED
    BY <2>1, ContextStep, LoadedTypesNext DEF Meta!TypeOK, LoadedTyped
<1>. QED
  BY <1>1, <1>2

LEMMA PhasesStep ==
    ASSUME FilesP!WalkInv, Phases, Context, [Next]_vars
    PROVE  Phases'
<1>. USE DEF Phases, Loading, Processing
<1>0. FromStdin' = FromStdin /\ Len(objects) \in Nat /\ Opened \in Nat
  BY ContextKept, ContextTypes
<1>1. CASE Start
  BY <1>0, <1>1 DEF Start, walkVars, contextVars, helmVars, decoderVars
<1>2. CASE OpenStdin
  <2>1. Opened' = 1 /\ Streams'[1] = stdin /\ input' = stdin.docs
    BY <1>0, <1>2 DEF OpenStdin, Opened, Streams, Stream, Dec!Decode
  <2>. QED
    BY <1>0, <1>2, <2>1 DEF OpenStdin, walkVars, contextVars, helmVars, signalVars, Dec!Decode
<1>3. CASE WalkFiles
  <2>1. CASE mpc' = "range"
    <3>1. handed' # handed
      BY <1>3, <2>1 DEF WalkFiles
    <3>2. Opened' > 0 /\ input' = Streams'[Opened'].docs
      BY <1>0, <1>3, <3>1, WalkOpensOne DEF WalkFiles, Dec!Decode
    <3>. QED
      BY <1>0, <1>3, <2>1, <3>2 DEF WalkFiles, contextVars, helmVars, signalVars
  <2>2. CASE mpc' # "range"
    BY <1>0, <1>3, <2>2 DEF WalkFiles, contextVars, helmVars, signalVars, decoderVars, Dec!Decode
  <2>. QED
    BY <2>1, <2>2
<1>4. CASE Add
  <2>1. Len(objects') = Len(objects) + 1
    BY <1>4 DEF Add, AddToContext, Context
  <2>2. Opened' = Opened /\ Streams' = Streams
    BY <1>4, InputsStay DEF Add, walkVars
  <2>. QED
    BY <1>0, <1>4, <2>1, <2>2 DEF Add, AddToContext, walkVars, helmVars, signalVars, Dec!Receive
<1>5. CASE StreamEnds
  BY <1>0, <1>5 DEF StreamEnds, walkVars, contextVars, helmVars, signalVars, Dec!RangeEnds
<1>6. CASE ProcessObject
  BY <1>0, <1>6 DEF ProcessObject, walkVars, contextVars, signalVars, decoderVars
<1>7. CASE CheckStop
  BY <1>0, <1>7 DEF CheckStop, Stopped, walkVars, contextVars, helmVars, signalVars, decoderVars
<1>8. CASE Create
  BY <1>0, <1>8 DEF Create, walkVars, contextVars, signalVars, decoderVars
<1>9. ASSUME UNCHANGED <<mpc, idx, wpc, objects, templates, filenames, created>>,
             mpc = "range" => input' = input, handed' = handed,
             mpc = "ok" => stop' = stop,
             pending' \in BOOLEAN, handler' \in {"none", "waiting", "done"}
      PROVE  Phases'
  <2>1. Opened' = Opened /\ Streams' = Streams
    BY <1>9, InputsStay, ContextKept
  <2>. QED
    BY <1>0, <1>9, <2>1
<1>10. CASE Decode
  BY <1>9, <1>10 DEF Decode, appVars, walkVars, contextVars, helmVars, signalVars,
       Dec!Goroutine, Dec!CheckStop, Dec!ReadDocument, Dec!ReadEOF, Dec!ReadError, Dec!Send
<1>11. CASE Signal
  BY <1>9, <1>11 DEF Signal, appVars, walkVars, contextVars, helmVars, decoderVars
<1>12. CASE HandleSignal
  BY <1>9, <1>12 DEF HandleSignal, Running, appVars, walkVars, contextVars, helmVars, Dec!Cancel
<1>13. CASE StdinWriter
  BY <1>9, <1>13 DEF StdinWriter, appVars, walkVars, contextVars, helmVars, signalVars,
       Dec!Arrive, Dec!WriterCloses
<1>14. CASE OtherProcess
  BY <1>9, <1>14 DEF OtherProcess, Files!RemovePath, contextVars, helmVars, signalVars,
       decoderVars
<1>15. CASE UNCHANGED vars
  BY <1>9, <1>15 DEF vars
<1>. QED
  BY <1>1, <1>2, <1>3, <1>4, <1>5, <1>6, <1>7, <1>8, <1>10, <1>11, <1>12, <1>13, <1>14, <1>15
     DEF Next, Main

-----------------------------------------------------------------------------
(* What the context has of the streams                                       *)

(* Nothing that is held is dropped again.                                    *)
LEMMA HeldStays ==
    ASSUME FilesP!WalkInv, DecP!DecoderInv, Phases, Context, Ranging, [Next]_vars,
           NEW o, Held(o)
    PROVE  Held(o)'
<1>1. Len(objects') \in Nat /\ Len(objects) <= Len(objects') /\ Len(objects) \in Nat
      /\ \A i \in 1..Len(objects) : objects'[i] = objects[i]
  BY ContextAfterAdd, ContextKept, ContextTypes
<1>. QED
  BY <1>1 DEF Held

LEMMA RangingStep ==
    ASSUME FilesP!WalkInv, DecP!DecoderInv, Phases, Context, Ranging, [Next]_vars
    PROVE  Ranging'
<1>. SUFFICES ASSUME mpc' = "range"
              PROVE  /\ \A i \in 1..Len(objects') :
                           objects'[i][1] = Opened' =>
                              \E r \in 1..Len(received') : received'[r] = objects'[i][2]
                     /\ \A r \in 1..Len(received') : Held(<<Opened, received[r]>>)'
  BY DEF Ranging
<1>1. CASE OpenStdin
  <2>1. Len(objects') = 0 /\ Len(received') = 0
    BY <1>1 DEF OpenStdin, Phases, contextVars, Dec!Decode
  <2>. QED
    BY <2>1
<1>2. CASE WalkFiles
  <2>1. handed' # handed /\ ~FromStdin /\ UNCHANGED <<objects, stdin>>
    BY <1>2 DEF WalkFiles, contextVars
  <2>2. Len(received') = 0
    BY <1>2, <2>1 DEF WalkFiles, Dec!Decode
  <2>3. Opened' = Opened + 1 /\ Opened \in Nat
    BY <1>2, <2>1, WalkOpensOne DEF WalkFiles
  <2>4. \A i \in 1..Len(objects) : objects[i][1] \in 1..Opened
    BY AllDecodableByPosition DEF Context
  <2>. QED
    BY <2>1, <2>2, <2>3, <2>4
<1>3. CASE Add
  <2> DEFINE o == <<Opened, Head(res)>>
  <2>1. /\ Len(objects') = Len(objects) + 1 /\ objects'[Len(objects) + 1] = o
        /\ Len(objects) \in Nat
        /\ \A i \in 1..Len(objects) : objects'[i] = objects[i]
    BY <1>3, ContextAfterAdd, ContextTypes
  <2>2. Opened' = Opened
    BY <1>3, InputsStay DEF Add, walkVars
  <2>3. received \in Seq(Nat) /\ received' = Append(received, Head(res)) /\ Head(res) \in Nat
    <3>1. received \in Seq(1..read) /\ res \in Seq(1..read) /\ read \in Nat /\ res # << >>
      BY <1>3 DEF DecP!DecoderInv, DecP!TypeOK, Add, Dec!Receive
    <3>2. Len(received) \in Nat /\ \A i \in 1..Len(received) : received[i] \in Nat
      BY <3>1
    <3>3. received = [i \in 1..Len(received) |-> received[i]]
      BY <3>1
    <3>4. received \in Seq(Nat)
      BY <3>2, <3>3
    <3>. QED
      BY <1>3, <3>1, <3>4 DEF Add, Dec!Receive
  <2>4. /\ Len(received') = Len(received) + 1 /\ Len(received) \in Nat
        /\ received'[Len(received) + 1] = Head(res)
        /\ \A r \in 1..Len(received) : received'[r] = received[r]
    BY <2>3
  <2>5. o[1] = Opened /\ o[2] = Head(res)
    OBVIOUS
  <2>6. mpc = "range"
    BY <1>3 DEF Add
  <2>7. ASSUME NEW i \in 1..Len(objects'), objects'[i][1] = Opened'
        PROVE  \E r \in 1..Len(received') : received'[r] = objects'[i][2]
    <3>1. CASE i = Len(objects) + 1
      BY <2>1, <2>4, <2>5, <3>1
    <3>2. CASE i # Len(objects) + 1
      <4>1. i \in 1..Len(objects) /\ objects'[i] = objects[i]
        BY <2>1, <3>2
      <4>2. PICK r \in 1..Len(received) : received[r] = objects[i][2]
        BY <2>2, <2>6, <2>7, <4>1 DEF Ranging
      <4>. QED
        BY <2>4, <4>1, <4>2
    <3>. QED
      BY <3>1, <3>2
  <2>8. ASSUME NEW r \in 1..Len(received')
        PROVE  Held(<<Opened, received[r]>>)'
    <3>1. CASE r = Len(received) + 1
      <4>1. objects'[Len(objects) + 1] = <<Opened', received'[r]>>
        BY <2>1, <2>2, <2>4, <3>1
      <4>. QED
        BY <2>1, <4>1 DEF Held
    <3>2. CASE r # Len(received) + 1
      <4>1. r \in 1..Len(received) /\ received'[r] = received[r]
        BY <2>4, <3>2
      <4>2. PICK i \in 1..Len(objects) : objects[i] = <<Opened, received[r]>>
        BY <2>6, <4>1 DEF Ranging, Held
      <4>3. objects'[i] = <<Opened', received'[r]>> /\ i \in 1..Len(objects')
        BY <2>1, <2>2, <4>1, <4>2
      <4>. QED
        BY <4>3 DEF Held
    <3>. QED
      BY <3>1, <3>2
  <2>. QED
    BY <2>7, <2>8
<1>4. ASSUME mpc = "range", UNCHANGED <<received, objects, handed>>
      PROVE  Ranging'
  <2>1. Opened' = Opened
    BY <1>4, InputsStay, ContextKept
  <2>. QED
    BY <1>4, <2>1 DEF Ranging, Held
<1>5. CASE ~OpenStdin /\ ~WalkFiles /\ ~Add
  <2>1. mpc = "range" /\ UNCHANGED received
    BY <1>5 DEF Next, Main, vars, appVars, decoderVars, Start, StreamEnds, ProcessObject,
         CheckStop, Create, Decode, Signal, HandleSignal, StdinWriter, OtherProcess,
         Dec!Goroutine, Dec!CheckStop, Dec!ReadDocument, Dec!ReadEOF, Dec!ReadError, Dec!Send,
         Dec!Arrive, Dec!WriterCloses, Dec!Cancel
  <2>. QED
    BY <1>4, <1>5, <2>1, ContextKept DEF Ranging
<1>. QED
  BY <1>1, <1>2, <1>3, <1>5

(* A stream whose loop has ended without a signal has given all it held.      *)
LEMMA StreamEndsComplete ==
    ASSUME FilesP!WalkInv, DecP!DecoderInv, Phases, Context, Ranging, Earlier,
           StreamEnds, ~stop
    PROVE  Complete
<1>. SUFFICES ASSUME NEW o \in AllDecodable
              PROVE  Held(o)
  BY DEF Complete
<1>1. /\ o \in Nat \X Nat /\ o[1] \in 1..Opened /\ o[2] \in 1..Len(Stream(o[1]).docs)
      /\ DocAt(o) \in Decodable /\ Opened \in Nat
  BY AllDecodableByPosition, StreamTypes
<1>2. CASE o[1] # Opened
  BY <1>2 DEF Earlier, StreamEnds, Ended
<1>3. CASE o[1] = Opened
  <2>1. input = Stream(Opened).docs
    BY <1>1 DEF StreamEnds, Phases, Streams
  <2>2. DecP!Elements(received) = DecP!DecodableUpTo(Len(input))
    BY OfDecoder DEF StreamEnds, Dec!RangeEnds
  <2>3. o[2] \in DecP!DecodableUpTo(Len(input))
    BY <1>1, <1>3, <2>1 DEF DecP!DecodableUpTo, DocAt
  <2>4. PICK r \in 1..Len(received) : received[r] = o[2]
    BY <2>2, <2>3 DEF DecP!Elements
  <2>5. o = <<Opened, received[r]>>
    BY <1>1, <1>3, <2>4
  <2>. QED
    BY <2>5 DEF Ranging, StreamEnds
<1>. QED
  BY <1>2, <1>3

LEMMA EarlierStep ==
    ASSUME FilesP!WalkInv, DecP!DecoderInv, Phases, Context, Ranging, Earlier, [Next]_vars
    PROVE  Earlier'
<1>. SUFFICES ASSUME mpc' \in {"open", "range"}, ~stop', NEW o \in AllDecodable', Ended(o[1])'
              PROVE  Held(o)'
  BY DEF Earlier
<1>0. /\ FromStdin' = FromStdin
      /\ o[1] \in 1..Opened => o \in AllDecodable
  BY ContextKept
<1>1. CASE Start
  <2>1. ~FromStdin /\ Opened' = 0
    BY <1>0, <1>1 DEF Start, Ended, Phases, walkVars, Opened, FromStdin
  <2>. QED
    BY <2>1 DEF AllDecodable
<1>2. CASE OpenStdin
  <2>1. Opened' = 1 /\ mpc' = "range"
    BY <1>0, <1>2 DEF OpenStdin, Opened
  <2>2. o[1] = 1
    BY <2>1 DEF AllDecodable
  <2>. QED
    BY <2>1, <2>2 DEF Ended
<1>3. CASE WalkFiles
  <2>0. mpc = "open" /\ ~FromStdin /\ ~stop
    BY <1>3 DEF WalkFiles, decoderVars, Dec!Decode
  <2>1. o \in AllDecodable
    <3>1. CASE handed' = handed
      BY <1>3, <3>1, InputsStay, ContextKept
    <3>2. CASE handed' # handed
      <4>1. Opened' = Opened + 1 /\ Opened \in Nat /\ mpc' = "range"
        BY <1>3, <3>2, WalkOpensOne DEF WalkFiles
      <4>2. o[1] \in 1..Opened' /\ o[1] # Opened'
        BY <4>1 DEF AllDecodable, Ended
      <4>. QED
        BY <1>0, <4>1, <4>2
    <3>. QED
      BY <3>1, <3>2
  <2>2. Ended(o[1])
    BY <2>0 DEF Ended
  <2>. QED
    BY <2>0, <2>1, <2>2, HeldStays DEF Earlier
<1>4. CASE StreamEnds
  <2>1. o \in AllDecodable /\ ~stop
    BY <1>4, InputsStay, ContextKept DEF StreamEnds, walkVars, Dec!RangeEnds
  <2>2. Held(o)
    BY <1>4, <2>1, StreamEndsComplete DEF Complete
  <2>. QED
    BY <2>2, HeldStays
<1>5. CASE ~Start /\ ~OpenStdin /\ ~WalkFiles /\ ~StreamEnds
  <2>1. mpc' = mpc /\ ~stop
    BY <1>5 DEF Next, Main, vars, appVars, signalVars, decoderVars, Add, ProcessObject,
         CheckStop, Create, Decode, Signal, HandleSignal, StdinWriter, OtherProcess,
         Dec!Receive, Dec!Goroutine, Dec!CheckStop, Dec!ReadDocument, Dec!ReadEOF,
         Dec!ReadError, Dec!Send, Dec!Arrive, Dec!WriterCloses, Dec!Cancel
  <2>2. Opened' = Opened /\ AllDecodable' = AllDecodable
    BY <1>5, InputsStay, ContextKept
  <2>3. o \in AllDecodable /\ Ended(o[1])
    BY <1>0, <2>1, <2>2 DEF Ended
  <2>. QED
    BY <2>1, <2>3, HeldStays DEF Earlier
<1>. QED
  BY <1>1, <1>2, <1>3, <1>4, <1>5

LEMMA OutputStep ==
    ASSUME FilesP!WalkInv, DecP!DecoderInv, Phases, Phases', Context, Ranging, Earlier, Output,
           [Next]_vars
    PROVE  Output'
<1>0. ASSUME Complete, AllDecodable' = AllDecodable
      PROVE  Complete'
  BY <1>0, HeldStays DEF Complete
<1>1. ASSUME Loading'
      PROVE  Output'
  BY <1>1 DEF Loading, Phases, Output, Processing
<1>2. CASE WalkFiles
  <2>1. CASE mpc' = "process"
    <3>1. wpc' = "done" /\ mpc = "open" /\ ~FromStdin
      BY <1>2, <2>1 DEF WalkFiles
    <3>2. handed' = handed
      BY <1>2, <3>1, WalkOpensOne DEF WalkFiles
    <3>3. AllDecodable' = AllDecodable /\ stop' = stop /\ idx' = 1 /\ ~created'
      BY <1>2, <2>1, <3>1, <3>2, InputsStay, ContextKept
         DEF WalkFiles, decoderVars, Phases, Loading, helmVars
    <3>4. Complete \/ stop
      BY <3>1 DEF Earlier, Ended, Complete
    <3>. QED
      BY <1>0, <2>1, <3>3, <3>4 DEF Output, Processing
  <2>2. CASE mpc' # "process"
    BY <1>1, <1>2, <2>2 DEF WalkFiles, Phases, Output, Processing, Loading
  <2>. QED
    BY <2>1, <2>2
<1>3. CASE StreamEnds
  <2>1. AllDecodable' = AllDecodable /\ stop' = stop
    BY <1>3, InputsStay, ContextKept DEF StreamEnds, walkVars, Dec!RangeEnds
  <2>2. Complete \/ stop
    BY <1>3, StreamEndsComplete
  <2>3. idx' = 1 /\ ~created'
    BY <1>3 DEF StreamEnds, Phases, Loading, helmVars
  <2>. QED
    BY <1>0, <2>1, <2>2, <2>3 DEF Output
<1>4. CASE Start
  BY <1>4 DEF Start, helmVars, Phases, Output, Processing
<1>5. CASE OpenStdin \/ Add
  BY <1>1, <1>5 DEF OpenStdin, Add, Loading
<1>6. CASE ProcessObject \/ CheckStop \/ Create
  <2>1. /\ AllDecodable' = AllDecodable /\ stop' = stop /\ objects' = objects
        /\ Len(objects) \in Nat /\ objects \in Seq(Nat \X Nat)
    BY <1>6, InputsStay, ContextKept, ContextTypes
       DEF ProcessObject, CheckStop, Create, walkVars, contextVars, decoderVars, Context
  <2>2. CASE ProcessObject
    BY <1>0, <2>1, <2>2 DEF ProcessObject, Phases, Output, Processing
  <2>3. CASE CheckStop
    BY <1>0, <2>1, <2>3 DEF CheckStop, Stopped, helmVars, Phases, Output, Processing
  <2>4. CASE Create
    <3>1. idx = 1 => objects = << >>
      BY <2>1, <2>4 DEF Create
    <3>2. Complete \/ (stop /\ objects = << >>)
      BY <2>4, <3>1 DEF Create, Output, Processing, Phases
    <3>3. mpc' \in {"ok", "failed"}
      BY <2>4 DEF Create
    <3>. QED
      BY <1>0, <2>1, <3>2, <3>3 DEF Output, Processing
  <2>. QED
    BY <1>6, <2>2, <2>3, <2>4
<1>7. CASE /\ ~Start /\ ~OpenStdin /\ ~WalkFiles /\ ~Add /\ ~StreamEnds
           /\ ~ProcessObject /\ ~CheckStop /\ ~Create
  <2>1. UNCHANGED <<mpc, idx, created>> /\ (stop => stop')
    BY <1>7 DEF Next, Main, vars, appVars, helmVars, signalVars, decoderVars,
         Decode, Signal, HandleSignal, StdinWriter, OtherProcess,
         Dec!Goroutine, Dec!CheckStop, Dec!ReadDocument, Dec!ReadEOF,
         Dec!ReadError, Dec!Send, Dec!Arrive, Dec!WriterCloses, Dec!Cancel
  <2>2. objects' = objects /\ AllDecodable' = AllDecodable
    BY <1>7, InputsStay, ContextKept
  <2>. QED
    BY <1>0, <2>1, <2>2 DEF Output, Processing
<1>. QED
  BY <1>2, <1>3, <1>4, <1>5, <1>6, <1>7

-----------------------------------------------------------------------------
(* The templates                                                             *)

(* What an object is rendered as does not change once all are loaded.         *)
LEMMA RenderingStays ==
    ASSUME UNCHANGED <<stdin, given, handed, objects, fileNames,
                       commonPrefix, namespace, names>>
    PROVE  /\ WithTemplate' = WithTemplate
           /\ Templates' = Templates
           /\ TemplateFiles' = TemplateFiles
<1>1. WithTemplate' = WithTemplate
  BY DEF WithTemplate, ObjectAt, DocAt, Stream, FromStdin
<1>2. Templates' = Templates
  BY DEF Templates, Template, Meta!TemplatedName, Meta!TrimName, Meta!TrimLeft,
         Meta!TrimPrefix, Meta!Templated, Meta!Verbatim, Meta!NoName, Meta!IsPrefix,
         Meta!Min, ObjectAt, DocAt, Stream, FromStdin
<1>3. TemplateFiles' = TemplateFiles
  BY DEF TemplateFiles, FileName, TemplateFilename, Meta!TrimName, Meta!TrimLeft,
         Meta!TrimPrefix, Meta!NoName, Meta!IsPrefix, Meta!Min, DocAt, Stream, FromStdin, Stdin
<1>. QED
  BY <1>1, <1>2, <1>3

(* The deployment processor takes no namespace, and the default one renders   *)
(* everything else.                                                          *)
LEMMA SkippedAreNamespaces ==
    ASSUME NEW d \in Decodable
    PROVE  Skipped(d) <=> Object[d].kind = "namespace"
  BY AppAssumption DEF Skipped

LEMMA RenderedStep ==
    ASSUME FilesP!WalkInv, DecP!DecoderInv, Phases, Phases', Context, Rendered, [Next]_vars
    PROVE  Rendered'
<1>1. ASSUME Loading'
      PROVE  Rendered'
  <2>1. templates' = << >> /\ filenames' = << >> /\ ~Processing' /\ ~created'
    BY <1>1 DEF Phases, Loading, Processing
  <2>. QED
    BY <2>1 DEF Rendered
<1>2. ASSUME Loading, ~Loading'
      PROVE  Rendered'
  <2>1. /\ templates' = << >> /\ filenames' = << >> /\ ~created'
        /\ (mpc' = "process" /\ idx' = 1) \/ mpc' \in {"failed", "exited", "panic"}
    BY <1>2 DEF Next, Main, vars, appVars, helmVars, Start, OpenStdin, WalkFiles, Add,
         StreamEnds, ProcessObject, CheckStop, Create, Decode, Signal, HandleSignal,
         StdinWriter, OtherProcess, Loading, Phases
  <2>2. \A k \in WithTemplate' : mpc' = "process" => ~(k < idx')
    BY <2>1 DEF WithTemplate
  <2>. QED
    BY <2>1, <2>2 DEF Rendered, Processing, Processed
<1>3. ASSUME ~Loading
      PROVE  /\ WithTemplate' = WithTemplate /\ Templates' = Templates
             /\ TemplateFiles' = TemplateFiles /\ objects' = objects
  <2>1. ~WalkFiles /\ ~Add
    BY <1>3 DEF WalkFiles, Add, Loading
  <2>. QED
    BY <2>1, ContextKept, RenderingStays
<1>4. ASSUME ~Loading, UNCHANGED <<templates, filenames>>,
             \A k \in WithTemplate : Processed(k) => Processed(k)',
             Processing' \/ created' => Processing \/ created,
             Processing' \/ created' => \A k \in WithTemplate : Processed(k)' => Processed(k)
      PROVE  Rendered'
  <2>1. \A i \in 1..Len(templates), k \in WithTemplate : IsTemplateOf(i, k)' = IsTemplateOf(i, k)
    BY <1>3, <1>4 DEF IsTemplateOf
  <2>2. \A i \in 1..Len(templates') : \E k \in WithTemplate' : IsTemplateOf(i, k)' /\ Processed(k)'
    BY <1>3, <1>4, <2>1 DEF Rendered
  <2>3. Processing' \/ created' =>
           \A k \in WithTemplate' : Processed(k)' =>
              \E i \in 1..Len(templates') : IsTemplateOf(i, k)'
    BY <1>3, <1>4, <2>1 DEF Rendered
  <2>4. /\ templates' \in Seq({Templates'[k] : k \in 1..Len(objects')})
        /\ filenames' \in Seq({TemplateFiles'[k] : k \in 1..Len(objects')})
        /\ Len(filenames') = Len(templates')
    BY <1>3, <1>4 DEF Rendered
  <2>5. \A i, j \in 1..Len(templates') :
           i < j => Before(templates'[i].object, templates'[j].object)
    BY <1>4 DEF Rendered
  <2>. QED
    BY <2>2, <2>3, <2>4, <2>5 DEF Rendered, Before
<1>5. CASE ProcessObject
  <2> DEFINE d == DocAt(objects[idx])
             n == Len(templates) + 1
  <2>1. /\ mpc = "process" /\ idx \in 1..Len(objects) /\ ~Loading /\ ~created
        /\ Len(objects) \in Nat /\ objects' = objects
        /\ idx' = idx /\ created' = created /\ mpc' \in {"failed", "check"}
    BY <1>3, <1>5, ContextTypes DEF ProcessObject, Phases, Loading
  <2>2. d \in Decodable /\ (idx \in WithTemplate <=> ~Skipped(d))
    <3>1. d \in Decodable
      BY <2>1 DEF Context, AllDecodable
    <3>. QED
      BY <2>1, <3>1, SkippedAreNamespaces DEF WithTemplate, ObjectAt
  <2>3. CASE mpc' = "failed"
    BY <1>4, <1>5, <2>1, <2>3 DEF ProcessObject, Processed, Processing
  <2>4. CASE Skipped(d) /\ mpc' = "check"
    <3>1. UNCHANGED <<templates, filenames>>
      BY <1>5, <2>4 DEF ProcessObject
    <3>2. \A k \in WithTemplate : (Processed(k)' <=> Processed(k))
      BY <2>1, <2>2, <2>4 DEF Processed, WithTemplate
    <3>. QED
      BY <1>4, <2>1, <3>1, <3>2 DEF Processing
  <2>5. CASE ~Skipped(d) /\ mpc' = "check"
    <3>1. /\ idx \in WithTemplate
          /\ templates' = Append(templates, Templates[idx])
          /\ filenames' = Append(filenames, TemplateFiles[idx])
      BY <1>5, <2>1, <2>2, <2>5 DEF ProcessObject, Templates, TemplateFiles
    <3> DEFINE T == {Templates[k] : k \in 1..Len(objects)}
               F == {TemplateFiles[k] : k \in 1..Len(objects)}
    <3>2. /\ templates \in Seq(T) /\ filenames \in Seq(F) /\ Len(filenames) = Len(templates)
          /\ Templates[idx] \in T /\ TemplateFiles[idx] \in F
      BY <2>1 DEF Rendered
    <3>. HIDE DEF T, F
    <3>3. /\ templates' \in Seq(T) /\ Len(templates') = n /\ Len(templates) \in Nat
          /\ templates'[n] = Templates[idx]
          /\ \A i \in 1..Len(templates) : templates'[i] = templates[i]
      BY <3>1, <3>2
    <3>4. /\ filenames' \in Seq(F) /\ Len(filenames') = n
          /\ filenames'[n] = TemplateFiles[idx]
          /\ \A i \in 1..Len(templates) : filenames'[i] = filenames[i]
      BY <3>1, <3>2
    <3>5. \A i \in 1..n : i = n \/ i \in 1..Len(templates)
      BY <3>3
    <3>6. /\ \A k \in 1..idx : Processed(k)'
          /\ \A k \in WithTemplate : Processed(k)' => k = idx \/ Processed(k)
          /\ \A k \in WithTemplate : Processed(k) <=> k < idx
      BY <2>1, <2>5 DEF Processed, WithTemplate
    <3>7. \A i \in 1..Len(templates), k \in WithTemplate :
             IsTemplateOf(i, k) => IsTemplateOf(i, k)'
      BY <1>3, <2>1, <3>3, <3>4 DEF IsTemplateOf
    <3>8. ASSUME NEW i, i = n, NEW k, k = idx
          PROVE  IsTemplateOf(i, k)'
      BY <1>3, <2>1, <3>3, <3>4, <3>8 DEF IsTemplateOf
    <3>9. ASSUME NEW i \in 1..n
          PROVE  \E k \in WithTemplate : IsTemplateOf(i, k)' /\ Processed(k)'
      <4>1. CASE i = n
        BY <2>1, <3>1, <3>6, <3>8, <4>1
      <4>2. CASE i \in 1..Len(templates)
        <5>1. PICK k \in WithTemplate : IsTemplateOf(i, k) /\ Processed(k)
          BY <4>2 DEF Rendered
        <5>2. k \in 1..idx
          BY <2>1, <3>6, <5>1 DEF WithTemplate
        <5>. QED
          BY <3>6, <3>7, <4>2, <5>1, <5>2
      <4>. QED
        BY <3>5, <4>1, <4>2
    <3>10. ASSUME NEW i \in 1..n, NEW j \in 1..n, i < j
           PROVE  Before(templates'[i].object, templates'[j].object)
      <4>1. i \in 1..Len(templates)
        BY <3>3, <3>10
      <4>2. CASE j = n
        <5>1. PICK k \in WithTemplate : IsTemplateOf(i, k) /\ Processed(k)
          BY <4>1 DEF Rendered
        <5>2. k \in 1..Len(objects) /\ k < idx
          BY <3>6, <5>1 DEF WithTemplate
        <5>3. templates'[i].object = objects[k] /\ templates'[j].object = objects[idx]
          BY <2>1, <3>3, <4>1, <4>2, <5>1, <5>2 DEF IsTemplateOf, Templates, Template
        <5>. QED
          BY <2>1, <5>2, <5>3 DEF Context
      <4>3. CASE j # n
        BY <3>3, <3>5, <3>10, <4>1, <4>3 DEF Rendered
      <4>. QED
        BY <4>2, <4>3
    <3>11. ASSUME NEW k \in WithTemplate, Processed(k)'
           PROVE  \E i \in 1..n : IsTemplateOf(i, k)'
      <4>1. CASE k = idx
        <5>1. n \in 1..n
          BY <3>3
        <5>. QED
          BY <3>8, <4>1, <5>1
      <4>2. CASE k # idx
        <5>1. Processed(k)
          BY <3>6, <3>11, <4>2
        <5>2. PICK i \in 1..Len(templates) : IsTemplateOf(i, k)
          BY <2>1, <5>1 DEF Rendered, Processing
        <5>3. i \in 1..n
          BY <3>3
        <5>. QED
          BY <3>7, <5>2, <5>3
      <4>. QED
        BY <4>1, <4>2
    <3>12. /\ T = {Templates'[k] : k \in 1..Len(objects')}
           /\ F = {TemplateFiles'[k] : k \in 1..Len(objects')}
      BY <1>3, <2>1 DEF T, F
    <3>13. WithTemplate' = WithTemplate
      BY <1>3, <2>1
    <3>. QED
      BY <3>3, <3>4, <3>9, <3>10, <3>11, <3>12, <3>13 DEF Rendered, Before
  <2>. QED
    BY <1>5, <2>1, <2>3, <2>4, <2>5 DEF ProcessObject
<1>6. CASE CheckStop
  <2>1. /\ mpc = "check" /\ ~Loading /\ UNCHANGED <<templates, filenames, created>>
        /\ Len(objects) \in Nat /\ idx \in Nat
        /\ (mpc' = "ok" /\ idx' = idx) \/ (mpc' = "process" /\ idx' = idx + 1)
    BY <1>6, ContextTypes DEF CheckStop, helmVars, Phases, Loading
  <2>2. \A k \in WithTemplate : (Processed(k)' <=> Processed(k))
    BY <2>1 DEF Processed, WithTemplate
  <2>. QED
    BY <1>4, <2>1, <2>2 DEF Processing
<1>7. CASE Create
  <2>1. /\ mpc = "process" /\ ~Loading /\ UNCHANGED <<templates, filenames, idx>>
        /\ Len(objects) \in Nat /\ idx \in Nat /\ idx > Len(objects) /\ mpc' # "process"
    BY <1>7, ContextTypes DEF Create, Phases, Loading
  <2>2. \A k \in WithTemplate : (Processed(k)' <=> Processed(k))
    BY <2>1 DEF Processed, WithTemplate
  <2>. QED
    BY <1>4, <2>1, <2>2 DEF Processing
<1>8. CASE ~Loading /\ ~ProcessObject /\ ~CheckStop /\ ~Create
  <2>1. UNCHANGED <<mpc, idx, templates, filenames, created>>
    BY <1>8 DEF Next, Main, vars, appVars, helmVars, Start, OpenStdin, WalkFiles, Add,
         StreamEnds, Decode, Signal, HandleSignal, StdinWriter, OtherProcess, Loading
  <2>2. \A k \in WithTemplate : (Processed(k)' <=> Processed(k))
    BY <2>1 DEF Processed
  <2>. QED
    BY <1>4, <1>8, <2>1, <2>2 DEF Processing
<1>. QED
  BY <1>1, <1>2, <1>5, <1>6, <1>7, <1>8

-----------------------------------------------------------------------------
(* The invariant                                                             *)

LEMMA DecoderStarts ==
    ASSUME Init
    PROVE  DecP!DecoderInv
<1>1. /\ input = << >> /\ read = 0 /\ gpc = "closed" /\ res = << >> /\ received = << >>
      /\ over = TRUE /\ ending = "eof" /\ available = 0 /\ stop = FALSE /\ held = 0
  BY DEF Init
<1>2. DecP!TypeOK
  <2>1. BufferSize \in Nat
    BY AppAssumption DEF Dec!DecoderAssumption
  <2>2. input \in Seq(Docs) /\ res \in Seq(1..read) /\ received \in Seq(1..read)
        /\ Len(input) = 0 /\ Len(res) = 0
    BY <1>1
  <2>3. available \in 0..Len(input) /\ read \in 0..available /\ held \in 0..read
    BY <1>1, <2>2
  <2>4. Len(res) <= BufferSize
    BY <2>1, <2>2
  <2>. QED
    BY <1>1, <2>2, <2>3, <2>4 DEF DecP!TypeOK, DecP!Endings
<1>3. DecP!Produced = << >> /\ Len(DecP!Produced) = 0
  BY <1>1 DEF DecP!Produced, DecP!InHand
<1>4. DecP!SortedInOrder
  BY <1>1, <1>3 DEF DecP!SortedInOrder, DecP!Sorted, DecP!Elements, DecP!DecodableUpTo
<1>. QED
  BY <1>1, <1>2, <1>4 DEF DecP!DecoderInv, DecP!HeldIsLast, DecP!EndsForAReason

LEMMA AppStarts ==
    ASSUME Init
    PROVE  AppInv
<1>1. FilesP!WalkInv /\ handed = << >>
  BY SameFiles, OfFileWalk DEF Init, FilesP!Init
<1>2. DecP!DecoderInv
  BY DecoderStarts
<1>3. /\ mpc = "start" /\ idx = 1 /\ created = FALSE /\ pending = FALSE /\ handler = "none"
      /\ objects = << >> /\ fileNames = << >> /\ templates = << >> /\ filenames = << >>
      /\ commonPrefix = << >> /\ namespace = << >> /\ names = {} /\ Len(objects) = 0
  BY DEF Init
<1>4. Meta!TypeOK
  BY <1>3, AppAssumption DEF Meta!TypeOK, Meta!MetadataAssumption, Meta!NoName
<1>5. stdin \in Holdings
  <2>1. stdin \in StdinStreams \/ stdin = [docs |-> << >>, ending |-> "eof"]
    BY DEF Init
  <2>2. [docs |-> << >>, ending |-> "eof"] \in Holdings
    BY DEF Holdings, Dec!Endings
  <2>3. StdinStreams \subseteq Holdings
    BY AppAssumption
  <2>. QED
    BY <2>1, <2>2, <2>3
<1>6. Context
  BY <1>3, <1>5 DEF Context
<1>7. Phases
  <2>1. idx \in 1..Len(objects) + 1
    BY <1>3
  <2>. QED
    BY <1>1, <1>3, <2>1 DEF Phases, Processing
<1>8. Ranging /\ Earlier /\ Output
  BY <1>3 DEF Ranging, Earlier, Output, Processing
<1>9. Rendered
  BY <1>3 DEF Rendered, Processing
<1>. QED
  BY <1>1, <1>2, <1>4, <1>6, <1>7, <1>8, <1>9 DEF AppInv

LEMMA AppGoesOn ==
    ASSUME AppInv, [Next]_vars
    PROVE  AppInv'
<1>1. /\ FilesP!WalkInv /\ DecP!DecoderInv /\ Meta!TypeOK
      /\ Phases /\ Context /\ Ranging /\ Earlier /\ Output /\ Rendered
  BY DEF AppInv
<1>2. FilesP!WalkInv' /\ DecP!DecoderInv' /\ Meta!TypeOK'
  BY <1>1, WalkStep, DecoderStep, MetadataStep
<1>3. Phases' /\ Context' /\ Ranging'
  BY <1>1, PhasesStep, ContextStep, RangingStep
<1>4. Earlier' /\ Output' /\ Rendered'
  BY <1>1, <1>3, EarlierStep, OutputStep, RenderedStep
<1>. QED
  BY <1>2, <1>3, <1>4 DEF AppInv

(* In every state of a run, whatever the decoders, signals and other          *)
(* processes do between the steps of the main goroutine, the context holds    *)
(* what the range loops have had of the streams opened, and the templates are *)
(* those of the objects processed (app.go Start, context.go Add and           *)
(* CreateHelm).                                                              *)
THEOREM Invariance == Spec => []AppInv
<1>1. Init => AppInv
  BY AppStarts
<1>2. AppInv /\ [Next]_vars => AppInv'
  BY AppGoesOn
<1>. QED
  BY <1>1, <1>2, PTL DEF Spec

(* The state of a run is well formed; the context's parallel lists are of one *)
(* length.                                                                   *)
THEOREM TypeCorrect == Spec => []TypeOK
<1>1. AppInv => TypeOK
  <2>. SUFFICES ASSUME AppInv PROVE TypeOK
    OBVIOUS
  <2>1. Files!TypeOK
    BY SameFiles DEF AppInv, FilesP!WalkInv
  <2>2. Dec!TypeOK
    BY SameDecoder DEF AppInv, DecP!DecoderInv
  <2>. QED
    BY <2>1, <2>2 DEF AppInv, Phases, Context, TypeOK
<1>. QED
  BY <1>1, Invariance, PTL

-----------------------------------------------------------------------------
(* The properties                                                            *)

(* The context holds all the input once every decodable object is in it and   *)
(* the walk is over.                                                         *)
LEMMA HoldsAll ==
    ASSUME FilesP!WalkInv, Context, Complete, FromStdin \/ wpc = "done"
    PROVE  HoldsAllInput
<1>1. {objects[i] : i \in 1..Len(objects)} = AllDecodable
  BY DEF Context, Complete, Held
<1>2. \A i, j \in 1..Len(objects) : i < j => Before(objects[i], objects[j])
  BY DEF Context
<1>3. FromStdin \/ Files!AllTaken
  BY SameFiles, OfFileWalk
<1>. QED
  BY <1>1, <1>2, <1>3 DEF HoldsAllInput

(* output.Create is called with the templates of the whole input, each object *)
(* once and in its order, and every file asked for is in it or its path has   *)
(* been warned of: an interrupt while objects are loaded or processed keeps   *)
(* it from being called (context.go:72-76), unless no object was read at all. *)
THEOREM WholeInputOrNothing == Spec => []OutputComplete
<1>1. AppInv => OutputComplete
  <2>. SUFFICES ASSUME AppInv, created PROVE HoldsAllInput \/ (stop /\ objects = << >>)
    BY DEF OutputComplete
  <2>. QED
    BY HoldsAll DEF AppInv, Output, Phases
<1>. QED
  BY <1>1, Invariance, PTL

(* Every template is rendered with the metadata of all the objects of the     *)
(* run: none is rendered before the last object is loaded (context.go:44).    *)
THEOREM FinalMetadata == Spec => []RenderedWithFinalMetadata
<1>1. AppInv => RenderedWithFinalMetadata
  <2>. SUFFICES ASSUME AppInv, NEW i \in 1..Len(templates)
                PROVE  templates[i].name
                          = Meta!TemplatedName(ObjectAt(templates[i].object).name)
    BY DEF RenderedWithFinalMetadata
  <2>1. PICK k \in WithTemplate : templates[i] = Templates[k]
    BY DEF AppInv, Rendered, IsTemplateOf
  <2>2. templates[i] = Template(objects[k])
    BY <2>1 DEF Templates, WithTemplate
  <2>. QED
    BY <2>2 DEF Template
<1>. QED
  BY <1>1, Invariance, PTL

(* The i-th template goes to the file of the object it was made from, however *)
(* many objects before it were skipped, and the templates are in the order of *)
(* the objects (context.go:66-80, three parallel lists).                      *)
THEOREM FilesOfTheirObjects == Spec => []FilenamesMatchTemplates
<1>1. AppInv => FilenamesMatchTemplates
  <2>. SUFFICES ASSUME AppInv
                PROVE  FilenamesMatchTemplates
    OBVIOUS
  <2>1. ASSUME NEW i \in 1..Len(templates)
        PROVE  LET o == templates[i].object
               IN  filenames[i] = IF FromStdin THEN TemplateFilename(DocAt(o))
                                  ELSE <<handed[o[1]].name>>
    <3>1. PICK k \in WithTemplate : IsTemplateOf(i, k)
      BY DEF AppInv, Rendered
    <3>2. k \in 1..Len(objects)
      BY <3>1 DEF WithTemplate
    <3>3. templates[i].object = objects[k] /\ filenames[i] = FileName(k)
      BY <3>1, <3>2 DEF IsTemplateOf, Templates, TemplateFiles, Template
    <3>4. objects[k][1] \in 1..Opened
      BY <3>2, AllDecodableByPosition DEF AppInv, Context
    <3>5. fileNames[k] = Filename(objects[k][1])
      BY <3>2, <3>4 DEF AppInv, Context, Filenames
    <3>. QED
      BY <3>3, <3>5 DEF FileName, Filename, Stdin
  <2>. QED
    BY <2>1 DEF AppInv, Rendered, FilenamesMatchTemplates
<1>. QED
  BY <1>1, Invariance, PTL

(* One object that cannot be processed keeps the whole module from being      *)
(* written: when output.Create is called every object but the namespaces has  *)
(* its template; a run that ends well has called it or was interrupted.       *)
THEOREM AllTemplatesOrNone == Spec => []AllOrNothing
<1>1. AppInv => AllOrNothing
  <2>. SUFFICES ASSUME AppInv
                PROVE  AllOrNothing
    OBVIOUS
  <2>1. ASSUME created
        PROVE  {templates[i].object : i \in 1..Len(templates)}
                  = {objects[k] : k \in WithTemplate}
    <3>1. \A k \in WithTemplate : Processed(k)
      BY <2>1, ContextTypes DEF AppInv, Phases, WithTemplate, Processed
    <3>2. \A i \in 1..Len(templates) : \E k \in WithTemplate : IsTemplateOf(i, k)
      BY DEF AppInv, Rendered
    <3>3. \A k \in WithTemplate : \E i \in 1..Len(templates) : IsTemplateOf(i, k)
      BY <2>1, <3>1 DEF AppInv, Rendered
    <3>4. \A i, k : k \in WithTemplate /\ IsTemplateOf(i, k) => templates[i].object = objects[k]
      BY DEF IsTemplateOf, Templates, Template, WithTemplate
    <3>. QED
      BY <3>2, <3>3, <3>4
  <2>2. mpc = "ok" => created \/ stop
    BY DEF AppInv, Phases
  <2>. QED
    BY <2>1, <2>2 DEF AllOrNothing, WithTemplate
<1>. QED
  BY <1>1, Invariance, PTL


-----------------------------------------------------------------------------
(* The refinement of Conversion                                              *)

(* The metadata service keeps what Conversion says of the objects at once.    *)
Detect(obj, prefix) == Meta!DetectCommonPrefix(obj, prefix)
ContextDocs == [i \in 1..Len(objects) |-> DocAt(objects[i])]
MetadataOfObjects ==
    /\ commonPrefix = Promise!PrefixOf(ContextDocs)
    /\ names = {ObjectAt(objects[i]).name : i \in 1..Len(objects)}

(* No object processed so far is one that fails, and what is read has the     *)
(* name of an entry of the file system.                                      *)
NoneFailed ==
    Processing => \A k \in 1..Len(objects) : Processed(k) => ~Fails(DocAt(objects[k]))
EntryNames ==
    \A k \in 1..Len(handed) : \E p \in DOMAIN Entry : handed[k].name = p[Len(p)]

PromiseInv == AppInv /\ MetadataOfObjects /\ NoneFailed /\ EntryNames

LEMMA SameDetect ==
    \A obj, prefix : Promise!Blank!DetectCommonPrefix(obj, prefix) = Detect(obj, prefix)
  BY DEF Promise!Blank!DetectCommonPrefix, Meta!DetectCommonPrefix, Promise!Blank!CommonPrefix,
         Meta!CommonPrefix, Promise!Blank!NoName, Meta!NoName, Promise!Blank!Min, Meta!Min, Detect

(* What holds for the first and passes to the next holds up to the last.      *)
LEMMA UpTo ==
    ASSUME NEW N \in Nat, NEW G, 0 \in G, \A n \in 0..N : n \in G /\ n < N => n + 1 \in G
    PROVE  \A n \in 0..N : n \in G
<1> DEFINE T == {n \in 0..N : n \notin G}
<1>1. SUFFICES ASSUME T # {} PROVE FALSE
  OBVIOUS
<1>2. T \in SUBSET Nat
  OBVIOUS
<1>3. PICK n \in T : \A m \in T : n <= m
  BY <1>1, <1>2, AppAssumption, FilesP!LeastNat
     DEF Files!FileWalkAssumption, Files!Path, FilesP!Path, Files!IsFiniteSet, FilesP!IsFiniteSet
<1>4. n # 0 /\ n \in 0..N /\ n \notin G
  OBVIOUS
<1>5. n - 1 \in 0..N /\ n - 1 < N /\ n - 1 < n /\ n - 1 + 1 = n
  BY <1>4
<1>6. n - 1 \notin G
  BY <1>4, <1>5
<1>. QED
  BY <1>3, <1>5, <1>6

(* PrefixOf takes one object after another.                                  *)
LEMMA PrefixStages ==
    ASSUME NEW docs, Len(docs) \in Nat
    PROVE  \E f : /\ f[0] = << >>
                  /\ \A n \in 1..Len(docs) : f[n] = Detect(Object[docs[n]], f[n - 1])
                  /\ Promise!PrefixOf(docs) = f[Len(docs)]
<1> DEFINE N == Len(docs)
           Step(u, n) == Detect(Object[docs[n]], u)
           IsStage(f, m) == f = [n \in 0..m |-> IF n = 0 THEN << >> ELSE Step(f[n - 1], n)]
           G == {m \in 0..N : \E f : IsStage(f, m)}
<1>. HIDE DEF Step
<1>1. 0 \in G
  <2> DEFINE g == [n \in 0..0 |-> << >>]
  <2>1. \A n \in 0..0 : n = 0 /\ g[n] = << >>
    OBVIOUS
  <2>2. g = [n \in 0..0 |-> g[n]]
    OBVIOUS
  <2>. HIDE DEF g
  <2>3. \A n \in 0..0 : g[n] = IF n = 0 THEN << >> ELSE Step(g[n - 1], n)
    BY <2>1
  <2>4. IsStage(g, 0)
    BY <2>2, <2>3
  <2>. QED
    BY <2>4
<1>2. ASSUME NEW m \in 0..N, m \in G, m < N
      PROVE  m + 1 \in G
  <2>1. PICK f : IsStage(f, m)
    BY <1>2
  <2> DEFINE g == [n \in 0..m + 1 |-> IF n <= m THEN f[n] ELSE Step(f[m], n)]
  <2>2. \A n \in 0..m : f[n] = IF n = 0 THEN << >> ELSE Step(f[n - 1], n)
    BY <2>1
  <2>3. \A n \in 0..m : g[n] = f[n]
    OBVIOUS
  <2>4. g[m + 1] = Step(f[m], m + 1)
    OBVIOUS
  <2>5. ASSUME NEW n \in 0..m + 1
        PROVE  g[n] = IF n = 0 THEN << >> ELSE Step(g[n - 1], n)
    <3>1. CASE n = m + 1
      <4>1. n # 0 /\ n - 1 = m /\ g[m] = f[m]
        BY <2>3, <3>1
      <4>. HIDE DEF g
      <4>. QED
        BY <2>4, <3>1, <4>1
    <3>2. CASE n \in 0..m
      <4>1. g[n] = f[n] /\ (n # 0 => n - 1 \in 0..m)
        BY <2>3, <3>2
      <4>2. n # 0 => g[n - 1] = f[n - 1]
        BY <2>3, <4>1
      <4>. HIDE DEF g
      <4>. QED
        BY <2>2, <3>2, <4>1, <4>2
    <3>. QED
      BY <3>1, <3>2
  <2>6. g = [n \in 0..m + 1 |-> g[n]]
    OBVIOUS
  <2>7. IsStage(g, m + 1)
    <3>. HIDE DEF g
    <3>. QED
      BY <2>5, <2>6
  <2>8. m + 1 \in 0..N
    BY <1>2
  <2>. QED
    BY <2>7, <2>8
<1>3. N \in G
  <2>. HIDE DEF G
  <2>1. \A n \in 0..N : n \in G /\ n < N => n + 1 \in G
    BY <1>2
  <2>2. N \in Nat /\ N \in 0..N
    OBVIOUS
  <2>. HIDE DEF N
  <2>. QED
    BY <1>1, <2>1, <2>2, UpTo
<1>4. \E f : IsStage(f, N)
  BY <1>3
<1> DEFINE prefix == CHOOSE f : IsStage(f, N)
<1>5. IsStage(prefix, N)
  <2>. HIDE DEF IsStage
  <2>. QED
    BY <1>4
<1>6. Promise!PrefixOf(docs) = prefix[N]
  BY SameDetect DEF Promise!PrefixOf, Step
<1>. HIDE DEF prefix
<1>7. prefix[0] = << >>
  BY <1>5
<1>8. \A n \in 1..N : prefix[n] = Step(prefix[n - 1], n)
  BY <1>5
<1>. QED
  BY <1>6, <1>7, <1>8 DEF Step

(* What one more object does to the prefix of the objects.                   *)
LEMMA PrefixExtends ==
    ASSUME NEW docs, NEW more, Len(docs) \in Nat, Len(more) = Len(docs) + 1,
           \A n \in 1..Len(docs) : more[n] = docs[n]
    PROVE  Promise!PrefixOf(more) = Detect(Object[more[Len(more)]], Promise!PrefixOf(docs))
<1> DEFINE N == Len(docs)
<1>1. PICK f : /\ f[0] = << >>
               /\ \A n \in 1..N : f[n] = Detect(Object[docs[n]], f[n - 1])
               /\ Promise!PrefixOf(docs) = f[N]
  BY PrefixStages
<1>2. PICK g : /\ g[0] = << >>
               /\ \A n \in 1..N + 1 : g[n] = Detect(Object[more[n]], g[n - 1])
               /\ Promise!PrefixOf(more) = g[N + 1]
  BY PrefixStages
<1> DEFINE G == {n \in 0..N : f[n] = g[n]}
<1>3. 0 \in G
  BY <1>1, <1>2
<1>4. ASSUME NEW n \in 0..N, n \in G, n < N
      PROVE  n + 1 \in G
  <2>1. n + 1 \in 1..N /\ n + 1 \in 1..N + 1 /\ n + 1 - 1 = n
    BY <1>4
  <2>2. f[n + 1] = Detect(Object[docs[n + 1]], f[n]) /\ g[n + 1] = Detect(Object[more[n + 1]], g[n])
    BY <1>1, <1>2, <2>1
  <2>3. more[n + 1] = docs[n + 1] /\ f[n] = g[n]
    BY <1>4, <2>1
  <2>. QED
    BY <2>1, <2>2, <2>3
<1>5. f[N] = g[N]
  <2>. HIDE DEF G
  <2>1. \A n \in 0..N : n \in G
    BY <1>3, <1>4, UpTo
  <2>. QED
    BY <2>1 DEF G
<1>6. g[N + 1] = Detect(Object[more[N + 1]], g[N])
  BY <1>2
<1>. QED
  BY <1>1, <1>2, <1>5, <1>6

(* The documents of the context stay what they are.                          *)
LEMMA DocsStay ==
    ASSUME AppInv, [Next]_vars
    PROVE  \A o : o \in AllDecodable =>
              /\ DocAt(o)' = DocAt(o) /\ ObjectAt(o)' = ObjectAt(o)
              /\ Filename(o[1])' = Filename(o[1])
<1>1. \A o \in AllDecodable : DocAt(o)' = DocAt(o) /\ o[1] \in 1..Opened
  BY ContextKept, AllDecodableByPosition DEF AppInv
<1>2. \A k \in 1..Opened : Filename(k)' = Filename(k)
  BY ContextKept DEF AppInv
<1>. QED
  BY <1>1, <1>2 DEF ObjectAt

LEMMA MetadataOfObjectsStep ==
    ASSUME AppInv, MetadataOfObjects, [Next]_vars
    PROVE  MetadataOfObjects'
<1> DEFINE N == Len(objects)
<1>0. N \in Nat /\ \A i \in 1..N : objects[i] \in AllDecodable
  BY ContextTypes DEF AppInv, Context
<1>1. CASE Add
  <2> DEFINE o == <<Opened, Head(res)>>
  <2>1. o \in AllDecodable
    BY <1>1, AddsNext DEF AppInv
  <2>2. /\ Len(objects') = N + 1 /\ objects'[N + 1] = o
        /\ \A i \in 1..N : objects'[i] = objects[i]
    BY <1>1, ContextAfterAdd DEF AppInv
  <2>3. Meta!Load(ObjectAt(o))
    BY <1>1 DEF Add, AddToContext
  <2>. HIDE DEF o
  <2>4. /\ commonPrefix' = Detect(ObjectAt(o), commonPrefix)
        /\ names' = names \union {ObjectAt(o).name}
    BY <2>3 DEF Meta!Load, Detect
  <2>5. \A i \in 1..N + 1 : objects'[i] \in AllDecodable
    BY <1>0, <2>1, <2>2
  <2>6. \A i \in 1..N + 1 :
           ContextDocs'[i] = DocAt(objects'[i]) /\ ObjectAt(objects[i])' = ObjectAt(objects'[i])
    BY <2>2, <2>5, DocsStay DEF ContextDocs
  <2>7. /\ ContextDocs'[N + 1] = DocAt(o)
        /\ \A i \in 1..N : ContextDocs'[i] = ContextDocs[i]
    BY <1>0, <2>2, <2>6 DEF ContextDocs
  <2>8. Len(ContextDocs) = N /\ Len(ContextDocs') = N + 1
    BY <1>0, <2>2 DEF ContextDocs
  <2>9. Promise!PrefixOf(ContextDocs')
           = Detect(Object[ContextDocs'[N + 1]], Promise!PrefixOf(ContextDocs))
    <3> DEFINE docs == ContextDocs
               more == ContextDocs'
    <3>1. /\ Len(docs) \in Nat /\ Len(more) = Len(docs) + 1 /\ Len(more) = N + 1
          /\ \A n \in 1..Len(docs) : more[n] = docs[n]
      BY <1>0, <2>7, <2>8
    <3>. HIDE DEF docs, more
    <3>2. Promise!PrefixOf(more) = Detect(Object[more[Len(more)]], Promise!PrefixOf(docs))
      BY <3>1, PrefixExtends
    <3>. QED
      BY <3>1, <3>2 DEF docs, more
  <2>10. commonPrefix' = Promise!PrefixOf(ContextDocs')
    BY <2>4, <2>7, <2>9 DEF MetadataOfObjects, ObjectAt
  <2>11. names' = {ObjectAt(objects'[i]).name : i \in 1..N + 1}
    BY <1>0, <2>2, <2>4 DEF MetadataOfObjects
  <2>12. names' = {ObjectAt(objects[i])'.name : i \in 1..N + 1}
    BY <2>6, <2>11
  <2>. QED
    BY <2>2, <2>10, <2>12 DEF MetadataOfObjects
<1>2. CASE ~Add
  <2>1. UNCHANGED <<objects, commonPrefix, names>>
    BY <1>2, ContextKept DEF AppInv
  <2>2. \A i \in 1..N : DocAt(objects[i])' = DocAt(objects[i])
                       /\ ObjectAt(objects[i])' = ObjectAt(objects[i])
    BY <1>0, <2>1, DocsStay
  <2>3. ContextDocs' = ContextDocs
    BY <2>1, <2>2 DEF ContextDocs
  <2>4. names' = {ObjectAt(objects[i])'.name : i \in 1..N}
    BY <2>1, <2>2 DEF MetadataOfObjects
  <2>. QED
    BY <2>1, <2>3, <2>4 DEF MetadataOfObjects
<1>. QED
  BY <1>1, <1>2

(* An object that fails ends the run before the next one is looked at.        *)
LEMMA NoneFailedStep ==
    ASSUME AppInv, AppInv', NoneFailed, [Next]_vars
    PROVE  NoneFailed'
<1>0. /\ Len(objects) \in Nat /\ \A i \in 1..Len(objects) : objects[i] \in AllDecodable
      /\ idx \in Nat
  BY ContextTypes DEF AppInv, Context, Phases
<1>1. ASSUME Loading
      PROVE  NoneFailed'
  <2>1. Processing' => mpc' = "process" /\ idx' = 1
    BY <1>1 DEF AppInv, Phases, Processing, Loading, Next, Main, vars, appVars, helmVars, Start,
         OpenStdin, WalkFiles, Add, StreamEnds, ProcessObject, CheckStop, Create, Decode,
         Signal, HandleSignal, StdinWriter, OtherProcess
  <2>. QED
    BY <2>1 DEF NoneFailed, Processed
<1>2. ASSUME ~Loading, Processing'
      PROVE  NoneFailed'
  <2>1. /\ Processing /\ objects' = objects
        /\ \/ ProcessObject \/ CheckStop \/ UNCHANGED <<mpc, idx>>
    BY <1>2, ContextKept DEF AppInv, Phases, Processing, Loading, Next, Main, vars, appVars, helmVars, Start,
         OpenStdin, WalkFiles, Add, StreamEnds, ProcessObject, CheckStop, Create, Decode,
         Signal, HandleSignal, StdinWriter, OtherProcess
  <2>2. \A k \in 1..Len(objects) : DocAt(objects[k])' = DocAt(objects[k])
    BY <1>0, <2>1, DocsStay
  <2>3. ASSUME NEW k \in 1..Len(objects), Processed(k)'
        PROVE  ~Fails(DocAt(objects[k]))
    <3>1. CASE Processed(k)
      BY <2>1, <3>1 DEF NoneFailed
    <3>2. CASE ~Processed(k)
      <4>1. ProcessObject /\ k = idx
        BY <1>0, <1>2, <2>1, <2>3, <3>2 DEF Processed, ProcessObject, CheckStop, Processing
      <4>. QED
        BY <1>2, <4>1 DEF ProcessObject, Processing, Fails
    <3>. QED
      BY <3>1, <3>2
  <2>. QED
    BY <2>1, <2>2, <2>3 DEF NoneFailed, Fails, Skipped
<1>. QED
  BY <1>1, <1>2 DEF NoneFailed

LEMMA EntryNamesStep ==
    ASSUME AppInv, EntryNames, [Next]_vars
    PROVE  EntryNames'
<1>1. CASE handed' = handed
  BY <1>1 DEF EntryNames
<1>2. CASE handed' # handed
  <2>1. FilesP!WalkInv /\ FilesP!Walk
    BY <1>2, ContextKept, SameWalk DEF AppInv, WalkFiles
  <2>2. /\ Len(handed) \in Nat /\ Len(handed') = Len(handed) + 1
        /\ \A k \in 1..Len(handed) : handed'[k] = handed[k]
        /\ handed'[Len(handed')].path \in DOMAIN Entry
        /\ handed'[Len(handed')].name = FilesP!Last(handed'[Len(handed')].path)
    BY <1>2, <2>1, OfFileWalk
  <2>3. ASSUME NEW k \in 1..Len(handed')
        PROVE  \E p \in DOMAIN Entry : handed'[k].name = p[Len(p)]
    <3>1. CASE k = Len(handed')
      BY <2>2, <3>1 DEF FilesP!Last
    <3>2. CASE k # Len(handed')
      <4>1. k \in 1..Len(handed)
        BY <2>2, <3>2
      <4>. QED
        BY <2>2, <4>1 DEF EntryNames
    <3>. QED
      BY <3>1, <3>2
  <2>. QED
    BY <2>3 DEF EntryNames
<1>. QED
  BY <1>1, <1>2

-----------------------------------------------------------------------------
(* What whoever looks at the output sees of a state.                          *)
Source == [i \in 1..Len(objects) |->
              [doc |-> DocAt(objects[i]), stream |-> Filename(objects[i][1])]]
Module == IF created
          THEN <<[i \in 1..Len(templates) |->
                    [doc  |-> DocAt(templates[i].object),
                     name |-> templates[i].name,
                     file |-> filenames[i]]]>>
          ELSE << >>

(* Names are rendered as Conversion says.                                    *)
LEMMA SameRendering ==
    ASSUME Context, MetadataOfObjects
    PROVE  \A n : /\ Promise!Final!TemplatedName(n) = Meta!TemplatedName(n)
                  /\ Promise!Final!TrimName(n) = Meta!TrimName(n)
<1>0. Len(objects) \in Nat
  BY ContextTypes
<1>1. Promise!SourceDocs = ContextDocs
  <2>1. Len(Source) = Len(objects)
    BY <1>0 DEF Source
  <2>2. \A i \in 1..Len(objects) : Source[i].doc = DocAt(objects[i])
    BY DEF Source
  <2>3. [i \in 1..Len(Source) |-> Source[i].doc] = [i \in 1..Len(objects) |-> DocAt(objects[i])]
    BY <2>1, <2>2
  <2>. QED
    BY <2>3 DEF Promise!SourceDocs, ContextDocs, Source
<1>2. commonPrefix = Promise!PrefixOf(Promise!SourceDocs)
  BY <1>1 DEF MetadataOfObjects
<1>3. names = {Object[d].name : d \in Promise!ToSet(Promise!SourceDocs)}
  <2>1. Len(ContextDocs) = Len(objects) /\ \A i \in 1..Len(objects) : ContextDocs[i] = DocAt(objects[i])
    BY <1>0 DEF ContextDocs
  <2>2. Promise!ToSet(ContextDocs) = {DocAt(objects[i]) : i \in 1..Len(objects)}
    BY <2>1 DEF Promise!ToSet
  <2>. QED
    BY <1>1, <2>2 DEF MetadataOfObjects, ObjectAt
<1>4. \A n : Promise!Final!TrimName(n) = Meta!TrimName(n)
  BY <1>2 DEF Promise!Final!TrimName, Meta!TrimName, Promise!Final!TrimLeft, Meta!TrimLeft,
     Promise!Final!TrimPrefix, Meta!TrimPrefix, Promise!Final!NoName, Meta!NoName,
     Promise!Final!IsPrefix, Meta!IsPrefix, Promise!Final!Min, Meta!Min
<1>5. \A n : Promise!Final!TemplatedName(n) = Meta!TemplatedName(n)
  BY <1>3, <1>4 DEF Promise!Final!TemplatedName, Meta!TemplatedName,
    Promise!Final!Templated, Meta!Templated, Promise!Final!Verbatim, Meta!Verbatim
<1>. QED
  BY <1>4, <1>5

(* Where the templates come from: they are those of the objects that have     *)
(* one, in their order.                                                      *)
LEMMA TemplatesInOrder ==
    ASSUME AppInv, mpc = "process", idx > Len(objects)
    PROVE  \E order \in [1..Len(templates) -> WithTemplate] :
              /\ Len(templates) \in 0..Len(objects)
              /\ \A i \in 1..Len(templates) : IsTemplateOf(i, order[i])
              /\ WithTemplate \subseteq {order[i] : i \in 1..Len(templates)}
              /\ \A i, j \in 1..Len(templates) : i < j => order[i] < order[j]
<1> DEFINE N == Len(objects)
           M == Len(templates)
           order == [i \in 1..M |-> CHOOSE k \in WithTemplate : IsTemplateOf(i, k)]
<1>0. /\ N \in Nat /\ M \in Nat
      /\ \A i \in 1..N : objects[i] \in Nat \X Nat
      /\ \A k \in WithTemplate : k \in 1..N
  BY ContextTypes DEF AppInv, Rendered, WithTemplate
<1>1. \A i \in 1..M : order[i] \in WithTemplate /\ IsTemplateOf(i, order[i])
  BY DEF AppInv, Rendered
<1>2. order \in [1..M -> WithTemplate]
  BY <1>1
<1>. HIDE DEF order
<1>3. \A i \in 1..M : \A k \in WithTemplate : IsTemplateOf(i, k) => templates[i].object = objects[k]
  BY DEF IsTemplateOf, Templates, Template, WithTemplate
<1>4. \A i, j \in 1..N : objects[i] = objects[j] => i = j
  <2>. SUFFICES ASSUME NEW i \in 1..N, NEW j \in 1..N, objects[i] = objects[j], i # j
                PROVE  FALSE
    OBVIOUS
  <2>1. Before(objects[i], objects[j]) \/ Before(objects[j], objects[i])
    BY <1>0 DEF AppInv, Context
  <2>. QED
    BY <1>0, <2>1 DEF Before
<1>5. \A i, j \in 1..N : Before(objects[i], objects[j]) => i < j
  <2>. SUFFICES ASSUME NEW i \in 1..N, NEW j \in 1..N, Before(objects[i], objects[j]), ~(i < j)
                PROVE  FALSE
    OBVIOUS
  <2>1. j < i => Before(objects[j], objects[i])
    BY DEF AppInv, Context
  <2>2. i = j \/ j < i
    BY <1>0
  <2>. QED
    BY <1>0, <2>1, <2>2 DEF Before
<1>6. \A i, j \in 1..M : i < j => order[i] < order[j]
  <2>. SUFFICES ASSUME NEW i \in 1..M, NEW j \in 1..M, i < j
                PROVE  order[i] < order[j]
    OBVIOUS
  <2>1. Before(templates[i].object, templates[j].object)
    BY DEF AppInv, Rendered
  <2>. QED
    BY <1>0, <1>1, <1>3, <1>5, <2>1
<1>7. WithTemplate \subseteq {order[i] : i \in 1..M}
  <2>. SUFFICES ASSUME NEW k \in WithTemplate
                PROVE  \E i \in 1..M : order[i] = k
    OBVIOUS
  <2>1. Processed(k)
    <3>1. idx \in Nat /\ k \in 1..N
      BY <1>0 DEF AppInv, Phases
    <3>. QED
      BY <1>0, <3>1 DEF Processed
  <2>2. PICK i \in 1..M : IsTemplateOf(i, k)
    BY <2>1 DEF AppInv, Rendered, Processing
  <2>3. objects[order[i]] = objects[k]
    BY <1>1, <1>3, <2>2
  <2>. QED
    BY <1>0, <1>1, <1>4, <2>3
<1>8. M <= N
  <2> DEFINE G == {n \in 0..M : n = 0 \/ n <= order[n]}
  <2>1. ASSUME NEW n \in 0..M, n \in G, n < M
        PROVE  n + 1 \in G
    <3>1. n + 1 \in 1..M /\ order[n + 1] \in 1..N
      BY <1>0, <1>1, <2>1
    <3>2. CASE n = 0
      BY <1>0, <3>1, <3>2
    <3>3. CASE n # 0
      <4>1. n \in 1..M /\ order[n] \in 1..N /\ n <= order[n]
        BY <1>0, <1>1, <2>1, <3>3
      <4>2. order[n] < order[n + 1]
        BY <1>0, <1>6, <3>1, <4>1
      <4>. QED
        BY <1>0, <3>1, <4>1, <4>2
    <3>. QED
      BY <3>2, <3>3
  <2>2. 0 \in G
    BY <1>0
  <2>3. M \in G
    <3>. HIDE DEF G
    <3>1. \A n \in 0..M : n \in G
      BY <1>0, <2>1, <2>2, UpTo
    <3>. QED
      BY <1>0, <3>1
  <2>4. M = 0 \/ (M \in 1..M /\ M <= order[M])
    BY <1>0, <2>3
  <2>. QED
    BY <1>0, <1>1, <2>4
<1>. QED
  BY <1>0, <1>1, <1>2, <1>6, <1>7, <1>8

(* output.Create writes what Conversion says.                                 *)
LEMMA CreateConverts ==
    ASSUME PromiseInv, Create
    PROVE  Promise!Convert
<1> DEFINE N == Len(objects)
           M == Len(templates)
<1>0. /\ N \in Nat /\ Len(Source) = N /\ mpc = "process" /\ idx > N
      /\ \A i \in 1..N : objects[i] \in AllDecodable
      /\ AppInv /\ Context
  <2>1. AppInv /\ Context /\ mpc = "process" /\ idx > N
    BY DEF PromiseInv, AppInv, Create
  <2>2. N \in Nat /\ \A i \in 1..N : objects[i] \in AllDecodable
    BY <2>1, ContextTypes DEF Context
  <2>3. Len(Source) = N
    BY <2>2 DEF Source
  <2>. QED
    BY <2>1, <2>2, <2>3
<1>1. /\ UNCHANGED <<stdin, given, handed, objects, templates, filenames>>
      /\ created' /\ ~Running'
  BY DEF Create, walkVars, contextVars, Running
<1>2. /\ \A o : DocAt(o)' = DocAt(o) /\ Filename(o[1])' = Filename(o[1])
  BY <1>1, InputsStay
<1>3. Source' = Source
  BY <1>1, <1>2 DEF Source
<1>4. \A i \in 1..N :
         /\ Source[i].doc = DocAt(objects[i]) /\ Source[i].stream = Filename(objects[i][1])
         /\ DocAt(objects[i]) \in Decodable
  BY <1>0 DEF Source, AllDecodable
<1>5. Promise!Kept = WithTemplate
  <2>1. \A i \in 1..N : Promise!HasTemplate(Source[i].doc) <=> ObjectAt(objects[i]).kind # "namespace"
    BY <1>4, AppAssumption DEF Promise!HasTemplate, ObjectAt
  <2>2. Promise!Kept = {i \in 1..Len(Source) : Promise!HasTemplate(Source[i].doc)}
    BY DEF Promise!Kept, Source
  <2>. QED
    BY <1>0, <2>1, <2>2 DEF WithTemplate
<1>6. \A i \in WithTemplate : Source[i].doc \notin Faulty
  <2>. SUFFICES ASSUME NEW i \in WithTemplate
                PROVE  DocAt(objects[i]) \notin Faulty
    BY <1>4 DEF WithTemplate
  <2>1. i \in 1..N /\ idx \in Nat /\ ObjectAt(objects[i]).kind # "namespace"
    BY <1>0 DEF AppInv, Phases, WithTemplate
  <2>2. Processed(i) /\ Processing
    BY <1>0, <2>1 DEF Processed, Processing
  <2>3. ~Fails(DocAt(objects[i]))
    BY <2>1, <2>2 DEF PromiseInv, NoneFailed
  <2>. QED
    BY <2>1, <2>3 DEF Fails, Skipped, ObjectAt
<1>7. PICK order \in [1..M -> WithTemplate] :
         /\ M \in 0..N
         /\ \A i \in 1..M : IsTemplateOf(i, order[i])
         /\ WithTemplate \subseteq {order[i] : i \in 1..M}
         /\ \A i, j \in 1..M : i < j => order[i] < order[j]
  BY <1>0, TemplatesInOrder
<1>8. ASSUME NEW i \in 1..M
      PROVE  Promise!Written(Source[order[i]])
                = [doc  |-> DocAt(templates[i].object), name |-> templates[i].name,
                   file |-> filenames[i]]
  <2>1. PICK k \in 1..N : k = order[i] /\ IsTemplateOf(i, k)
    BY <1>7 DEF WithTemplate
  <2>2. /\ templates[i].object = objects[k]
        /\ templates[i].name = Meta!TemplatedName(Object[DocAt(objects[k])].name)
        /\ filenames[i] = IF fileNames[k] # Stdin THEN fileNames[k]
                          ELSE TemplateFilename(DocAt(objects[k]))
    BY <2>1 DEF IsTemplateOf, Templates, TemplateFiles, Template, FileName, ObjectAt
  <2>3. fileNames[k] = Source[k].stream
    <3>1. objects[k][1] \in 1..Opened /\ fileNames[k] = Filenames[objects[k][1]]
      BY <1>0, AllDecodableByPosition DEF AppInv, Context
    <3>. QED
      BY <1>4, <3>1 DEF Filenames
  <2> DEFINE s == Source[k]
  <2>4. s.doc = DocAt(objects[k])
    BY <1>4
  <2>5. \A n : /\ Promise!Final!TemplatedName(n) = Meta!TemplatedName(n)
               /\ Promise!Final!TrimName(n) = Meta!TrimName(n)
    BY <1>0, SameRendering DEF PromiseInv
  <2>. HIDE DEF s
  <2>6. Promise!Written(s) =
           [doc |-> s.doc, name |-> Meta!TemplatedName(Object[s.doc].name),
            file |-> IF s.stream # Stdin THEN s.stream ELSE TemplateFilename(s.doc)]
    BY <2>5 DEF Promise!Written, Promise!NoFile, Stdin, TemplateFilename
  <2>. QED
    BY <2>1, <2>2, <2>3, <2>4, <2>6 DEF s
<1>9. Module' = <<[i \in 1..M |-> Promise!Written(Source[order[i]])]>>
  <2>1. Module' = <<[i \in 1..M |-> [doc  |-> DocAt(templates[i].object), name |-> templates[i].name,
                                     file |-> filenames[i]]]>>
    BY <1>1, <1>2 DEF Module
  <2>2. [i \in 1..M |-> [doc  |-> DocAt(templates[i].object), name |-> templates[i].name,
                         file |-> filenames[i]]]
           = [i \in 1..M |-> Promise!Written(Source[order[i]])]
    BY <1>8
  <2>. QED
    BY <2>1, <2>2
<1>10. order \in Promise!InOrder(Promise!Kept, M)
  BY <1>5, <1>7 DEF Promise!InOrder
<1>11. \E n \in 0..Len(Source) : \E f \in Promise!InOrder(Promise!Kept, n) :
          Module' = <<[i \in 1..n |-> Promise!Written(Source[f[i]])]>>
  BY <1>0, <1>7, <1>9, <1>10
<1>12. Running
  BY <1>0 DEF Running
<1>. QED
  BY <1>1, <1>3, <1>5, <1>6, <1>11, <1>12 DEF Promise!Convert, Source, Module

(* Add takes an object.                                                      *)
LEMMA AddTakes ==
    ASSUME PromiseInv, Add, [Next]_vars
    PROVE  Promise!Take
<1> DEFINE N == Len(objects)
           o == <<Opened, Head(res)>>
           taken == [doc |-> DocAt(o), stream |-> Filename(o[1])]
<1>0. AppInv /\ FilesP!WalkInv /\ DecP!DecoderInv /\ Phases /\ Context /\ Ranging
  BY DEF PromiseInv, AppInv
<1>1. N \in Nat /\ \A i \in 1..N : objects[i] \in AllDecodable
  BY <1>0, ContextTypes DEF Context
<1>2. o \in AllDecodable /\ o[1] \in 1..Opened
  BY <1>0, AddsNext, AllDecodableByPosition
<1>3. /\ Len(objects') = N + 1 /\ objects'[N + 1] = o
      /\ \A i \in 1..N : objects'[i] = objects[i]
  BY <1>0, ContextAfterAdd
<1>. HIDE DEF o
<1>4. \A i \in 1..N + 1 :
         /\ DocAt(objects[i])' = DocAt(objects'[i])
         /\ Filename(objects[i][1])' = Filename(objects'[i][1])
  <2>1. \A i \in 1..N + 1 : objects'[i] \in AllDecodable
    BY <1>1, <1>2, <1>3
  <2>. QED
    BY <1>0, <2>1, DocsStay
<1>5. Source' = Append(Source, taken)
  <2>1. Source' = [i \in 1..N + 1 |-> [doc |-> DocAt(objects'[i]), stream |-> Filename(objects'[i][1])]]
    BY <1>3, <1>4 DEF Source
  <2>2. Len(Source) = N
    BY <1>1 DEF Source
  <2>3. Append(Source, taken) = [i \in 1..N + 1 |-> IF i \in 1..N THEN Source[i] ELSE taken]
    <3> DEFINE S == {Source[i] : i \in 1..N} \union {taken}
               more == Append(Source, taken)
    <3>1. Source \in Seq(S)
      BY <1>1 DEF Source
    <3>2. taken \in S
      OBVIOUS
    <3>. HIDE DEF taken, S
    <3>3. /\ more \in Seq(S) /\ Len(more) = N + 1 /\ more[N + 1] = taken
          /\ \A i \in 1..N : more[i] = Source[i]
      BY <1>1, <2>2, <3>1, <3>2
    <3>. HIDE DEF more
    <3>4. more = [i \in 1..N + 1 |-> more[i]]
      BY <3>3
    <3>5. \A i \in 1..N + 1 : more[i] = IF i \in 1..N THEN Source[i] ELSE taken
      BY <1>1, <3>3
    <3>6. more = [i \in 1..N + 1 |-> IF i \in 1..N THEN Source[i] ELSE taken]
      BY <3>4, <3>5
    <3>. QED
      BY <3>6 DEF more
  <2>4. \A i \in 1..N + 1 :
           [doc |-> DocAt(objects'[i]), stream |-> Filename(objects'[i][1])]
              = IF i \in 1..N THEN Source[i] ELSE taken
    BY <1>1, <1>3 DEF Source
  <2>. QED
    BY <2>1, <2>3, <2>4
<1>6. DocAt(o) \in Decodable
  BY <1>2 DEF AllDecodable
<1>7. Filename(o[1]) \in {Stdin} \union {<<p[Len(p)]>> : p \in DOMAIN Entry}
  BY <1>2 DEF PromiseInv, EntryNames, Filename, Opened
<1>8. Running /\ Running' /\ ~created /\ ~created' /\ mpc' = mpc
  BY <1>0 DEF Running, Add, AddToContext, helmVars, Phases
<1>9. Module' = Module
  BY <1>8 DEF Module
<1>10. \E d \in Decodable, f \in {Stdin} \union {<<p[Len(p)]>> : p \in DOMAIN Entry} :
          Source' = Append(Source, [doc |-> d, stream |-> f])
  BY <1>5, <1>6, <1>7
<1>. QED
  BY <1>8, <1>9, <1>10 DEF Promise!Take, Source, Module

(* Every step of a run is one of the promise, or nobody sees it.              *)
LEMMA StepRefines ==
    ASSUME PromiseInv, [Next]_vars
    PROVE  [Promise!Next]_(Promise!conversionVars)
<1>0. AppInv /\ Context /\ FilesP!WalkInv /\ Phases
  BY DEF PromiseInv, AppInv
<1>1. CASE Add
  BY <1>1, AddTakes DEF Promise!Next
<1>2. CASE Create
  BY <1>2, CreateConverts DEF Promise!Next
<1>3. CASE ~Add /\ ~Create
  <2>1. Source' = Source
    <3>1. objects' = objects /\ \A i \in 1..Len(objects) : objects[i] \in AllDecodable
      BY <1>0, <1>3, ContextKept DEF Context
    <3>2. \A i \in 1..Len(objects) :
             DocAt(objects[i])' = DocAt(objects[i])
             /\ Filename(objects[i][1])' = Filename(objects[i][1])
      BY <1>0, <3>1, DocsStay
    <3>. QED
      BY <3>1, <3>2 DEF Source
  <2>2. created' = created
    BY <1>3 DEF Next, Main, vars, appVars, helmVars, Start, OpenStdin, WalkFiles, StreamEnds,
         ProcessObject, CheckStop, Decode, Signal, HandleSignal, StdinWriter, OtherProcess
  <2>3. (vars' = vars /\ ~Running) \/ Running
    BY DEF Next, Main, vars, Running, Start, OpenStdin, WalkFiles, Add, StreamEnds,
         ProcessObject, CheckStop, Create, Decode, Signal, HandleSignal, StdinWriter, OtherProcess
  <2>4. CASE vars' = vars
    <3>1. Module' = Module /\ (Running' <=> Running)
      <4>1. UNCHANGED <<stdin, given, handed, created, templates, filenames, mpc>>
        BY <2>4 DEF vars
      <4>. QED
        BY <4>1, InputsStay DEF Module, Running
    <3>. QED
      BY <2>1, <3>1 DEF Promise!conversionVars, Source, Module
  <2>5. CASE Running
    <3>1. ~created /\ ~created'
      BY <1>0, <2>2, <2>5 DEF Running, Phases
    <3>2. Module' = Module
      BY <3>1 DEF Module
    <3>3. CASE Running'
      BY <2>1, <2>5, <3>2, <3>3 DEF Promise!conversionVars, Source, Module
    <3>4. CASE ~Running'
      BY <2>1, <2>5, <3>2, <3>4 DEF Promise!Next, Promise!GiveUp, Source, Module
    <3>. QED
      BY <3>3, <3>4
  <2>. QED
    BY <2>3, <2>4, <2>5
<1>. QED
  BY <1>1, <1>2, <1>3

LEMMA PromiseStarts ==
    ASSUME Init
    PROVE  PromiseInv /\ Promise!Init
<1>1. AppInv
  BY AppStarts
<1>2. objects = << >> /\ handed = << >> /\ commonPrefix = << >> /\ names = {}
      /\ mpc = "start" /\ created = FALSE /\ Len(objects) = 0
  BY DEF Init, Files!Init
<1>3. MetadataOfObjects
  <2>1. Len(ContextDocs) = 0
    BY <1>2 DEF ContextDocs
  <2>2. Promise!PrefixOf(ContextDocs) = << >>
    <3> DEFINE docs == ContextDocs
    <3>. HIDE DEF docs
    <3>1. Len(docs) = 0
      BY <2>1 DEF docs
    <3>2. Promise!PrefixOf(docs) = << >>
      BY <3>1, PrefixStages
    <3>. QED
      BY <3>2 DEF docs
  <2>. QED
    BY <1>2, <2>2 DEF MetadataOfObjects
<1>4. NoneFailed /\ EntryNames
  BY <1>2 DEF NoneFailed, EntryNames, Processing
<1>5. Promise!Init
  BY <1>2 DEF Promise!Init, Running
<1>. QED
  BY <1>1, <1>3, <1>4, <1>5 DEF PromiseInv

(* Whoever looks at the output of a run sees objects taken one after another, *)
(* and then nothing, or at once what a function of the objects alone says,    *)
(* with the prefix and the names of all of them: the interleaving of walk,    *)
(* decoders and signals, and the metadata kept object by object, do not show  *)
(* (app.go Start, context.go Add and CreateHelm, metadata.go Load).           *)
THEOREM Implementation == Spec => ImplementsConversion
<1>1. Init => PromiseInv /\ Promise!Init
  BY PromiseStarts
<1>2. PromiseInv /\ [Next]_vars => PromiseInv'
  <2>. SUFFICES ASSUME PromiseInv, [Next]_vars PROVE PromiseInv'
    OBVIOUS
  <2>1. AppInv /\ AppInv'
    BY AppGoesOn DEF PromiseInv
  <2>2. MetadataOfObjects' /\ EntryNames'
    BY <2>1, MetadataOfObjectsStep, EntryNamesStep DEF PromiseInv
  <2>3. NoneFailed'
    BY <2>1, NoneFailedStep DEF PromiseInv
  <2>. QED
    BY <2>1, <2>2, <2>3 DEF PromiseInv
<1>3. PromiseInv /\ [Next]_vars => [Promise!Next]_(Promise!conversionVars)
  BY StepRefines
<1>. QED
  BY <1>1, <1>2, <1>3, PTL DEF Spec, ImplementsConversion, Promise!Spec
===============================================================================
