------------------------------- MODULE FileWalk -------------------------------
(***************************************************************************)
(* file.Walk (pkg/file/reader.go): the files and directories given with -f,  *)
(* one after another, each opened and handed to walkFunc, which decodes it.  *)
(*                                                                          *)
(* A path is the sequence of its names, a name a number, in lexical order.   *)
(* Other processes may remove files and directories while they are walked.   *)
(***************************************************************************)
EXTENDS Naturals, Sequences, FiniteSets, SequencesExt

CONSTANTS
    Entry,      \* the file system: a function from paths to entries
    Requests,   \* what -f may be given: sequences of paths
    MaxGone     \* bound: how many removals

Path == Seq(Nat) \ {<< >>}

(* What is in a directory is there with the directory.  A link has the path   *)
(* it points to as its target, anything else itself.  A fault: it cannot be   *)
(* opened; it is a directory that cannot be listed.                          *)
ASSUME FileWalkAssumption ==
    /\ IsFiniteSet(DOMAIN Entry)
    /\ DOMAIN Entry \subseteq Path
    /\ \A p \in DOMAIN Entry :
          /\ \A n \in 1..Len(p) - 1 :
                SubSeq(p, 1, n) \in DOMAIN Entry /\ Entry[SubSeq(p, 1, n)].kind = "dir"
          /\ Entry[p].kind \in {"file", "dir", "link"}
          /\ Entry[p].fault \in {"none", "open", "list"}
          /\ Entry[p].target \in DOMAIN Entry
          /\ Entry[p].kind # "link" => Entry[p].target = p
          /\ Entry[Entry[p].target].kind # "link"
    /\ Requests \subseteq Seq(Path)
    /\ MaxGone \in Nat

VARIABLES
    given,        \* paths
    recursively,  \* the -r flag
    pc,           \* the branch of Walk the path is in
    cur,          \* which path it is
    left,         \* what of it is still to be visited
    handed,       \* what walkFunc was given
    warned,       \* the paths a warning was logged of
    gone          \* what other processes removed

vars == <<given, recursively, pc, cur, left, handed, warned, gone>>

-----------------------------------------------------------------------------
(* os.Lstat, os.Stat and os.Open.  What is listed in a directory keeps the    *)
(* kind it was listed with.                                                  *)
Lstat(p) == p \in DOMAIN Entry /\ \A q \in gone : ~IsPrefix(q, p)
Real(p)  == Entry[p].target
Stat(p)  == Lstat(p) /\ Lstat(Real(p))
Open(p)  == Stat(p) /\ Entry[Real(p)].fault # "open"
List(p)  == Open(p) /\ Entry[Real(p)].fault # "list"
Children(p) ==
    {q \in DOMAIN Entry : Len(q) = Len(Real(p)) + 1 /\ IsPrefix(Real(p), q) /\ Lstat(q)}

(* Mutant: a link to a directory is taken for one.                            *)
IsDirBehindLinks(p) == Entry[Real(p)].kind = "dir"

(* DirEntry.IsDir, which looks at no link's target; FileInfo.IsDir, of what   *)
(* os.Stat found there.                                                      *)
IsDir(p) == Entry[p].kind = "dir"

(* The lexical order, in which WalkDir visits: a directory before what is    *)
(* in it, and that before what follows the directory.                        *)
Precedes(p, q) ==
    \/ IsStrictPrefix(p, q)
    \/ \E i \in 1..Len(p) :
          i <= Len(q) /\ p[i] < q[i] /\ \A j \in 1..i - 1 : p[j] = q[j]

(* Mutant: the walk goes through the entries as they come.                   *)
AnyOf(S) == CHOOSE p \in S : TRUE

First(S) == CHOOSE p \in S : \A q \in S \ {p} : Precedes(p, q)

Init ==
    /\ given \in Requests
    /\ recursively \in BOOLEAN
    /\ pc = "path" /\ cur = 1
    /\ left = {} /\ handed = << >> /\ warned = {} /\ gone = {}

(* walkFunc(name, file), under the base name.                                *)
Hand(p) ==
    handed' = Append(handed, [path |-> p, name |-> Last(p), by |-> cur])

(* continue, with the next path, after a warning or without.                 *)
NextPath == pc' = "path" /\ cur' = cur + 1 /\ left' = {}
Warn == warned' = warned \union {cur}

(* The warning of a file that did not open asks the nil file for its name.   *)
Panic == pc' = "panic" /\ UNCHANGED <<cur, left, handed, warned>>

StatPath ==
    LET p == given[cur]
    IN  /\ pc = "path"
        /\ cur <= Len(given)
        /\ \/ ~Stat(p) /\ Warn /\ NextPath
           \/ /\ Stat(p)
              /\ pc' = IF ~IsDir(Real(p)) THEN "file"
                       ELSE IF recursively THEN "walk" ELSE "list"
              /\ left' = {p}
              /\ UNCHANGED <<cur, warned>>
        /\ UNCHANGED <<given, recursively, handed, gone>>

SingleFile ==
    /\ pc = "file"
    /\ \/ Open(given[cur]) /\ Hand(given[cur]) /\ NextPath /\ UNCHANGED warned
       \/ ~Open(given[cur]) /\ Panic
    /\ UNCHANGED <<given, recursively, gone>>

ListDir ==
    LET p == given[cur]
    IN  /\ pc = "list"
        /\ \/ /\ List(p)
              /\ pc' = "entries" /\ left' = Children(p)
              /\ UNCHANGED <<cur, handed, warned>>
           \/ Open(p) /\ ~List(p) /\ Warn /\ NextPath /\ UNCHANGED handed
           \/ ~Open(p) /\ Panic
        /\ UNCHANGED <<given, recursively, gone>>

(* Mutant: directories in the directory are opened like files.               *)
NoneSkipped(p) == FALSE

SkippedEntry(p) == IsDir(p)

(* The entries of a directory, in whatever order it lists them.              *)
OpenEntry ==
    /\ pc = "entries"
    /\ \E p \in left :
          \/ SkippedEntry(p) /\ left' = left \ {p} /\ UNCHANGED <<pc, cur, handed, warned>>
          \/ /\ ~SkippedEntry(p) /\ Open(p)
             /\ Hand(p) /\ left' = left \ {p} /\ UNCHANGED <<pc, cur, warned>>
          \/ ~SkippedEntry(p) /\ ~Open(p) /\ Panic
    /\ UNCHANGED <<given, recursively, gone>>

VisitDir(p) ==
    /\ IsDir(p) /\ List(p)
    /\ left' = (left \ {p}) \union Children(p)
    /\ UNCHANGED <<pc, cur, handed, warned>>
VisitFile(p) ==
    /\ ~IsDir(p) /\ Open(p)
    /\ Hand(p)
    /\ left' = left \ {p}
    /\ UNCHANGED <<pc, cur, warned>>
Fails(p) == IF IsDir(p) THEN ~List(p) ELSE ~Open(p)

(* Mutants: an entry that fails is left out, and nothing said of it; it is   *)
(* reported like the other ones, by its nil file; what was left of a failed  *)
(* walk is not forgotten.                                                    *)
EntryDropped(p)   == left' = left \ {p} /\ UNCHANGED <<pc, cur, handed, warned>>
EntryPanics(p)    == Panic
EntryKeepsLeft(p) ==
    Warn /\ pc' = "path" /\ cur' = cur + 1 /\ UNCHANGED <<left, handed>>

(* The first error ends the walk of the path, which is warned of.            *)
EntryFailed(p) == Warn /\ NextPath /\ UNCHANGED handed

(* filepath.WalkDir, which follows no links.                                 *)
WalkEntry ==
    /\ pc = "walk" /\ left # {}
    /\ LET p == First(left)
       IN  VisitDir(p) \/ VisitFile(p) \/ (Fails(p) /\ EntryFailed(p))
    /\ UNCHANGED <<given, recursively, gone>>

PathDone ==
    /\ pc \in {"entries", "walk"}
    /\ left = {}
    /\ NextPath
    /\ UNCHANGED <<given, recursively, handed, warned, gone>>

Done ==
    /\ pc = "path"
    /\ cur > Len(given)
    /\ pc' = "done"
    /\ UNCHANGED <<given, recursively, cur, left, handed, warned, gone>>

Walk == StatPath \/ SingleFile \/ ListDir \/ OpenEntry \/ WalkEntry \/ PathDone \/ Done

(* Another process removes a file, or a directory with all there is in it.   *)
RemovePath ==
    /\ pc \notin {"done", "panic"}
    /\ Cardinality(gone) < MaxGone
    /\ \E p \in DOMAIN Entry :
          Lstat(p) /\ Entry[p].kind # "link" /\ gone' = gone \union {p}
    /\ UNCHANGED <<given, recursively, pc, cur, left, handed, warned>>

Next == Walk \/ RemovePath

(* Nothing but Walk runs in its goroutine (what reads the file it hands over  *)
(* is App's to say), so it goes on as long as it can.                         *)
Fairness == WF_vars(Walk)

Spec == Init /\ [][Next]_vars /\ Fairness

-----------------------------------------------------------------------------
(* Properties                                                                *)

(* Nothing is left of one path when the next is looked at.                   *)
TypeOK ==
    /\ given \in Requests
    /\ recursively \in BOOLEAN
    /\ pc \in {"path", "file", "list", "entries", "walk", "done", "panic"}
    /\ cur \in 1..Len(given) + 1
    /\ left \subseteq DOMAIN Entry
    /\ pc \in {"path", "done"} => left = {}
    /\ handed \in Seq([path : DOMAIN Entry, name : Nat, by : 1..Len(given)])
    /\ warned \subseteq 1..Len(given)
    /\ gone \subseteq DOMAIN Entry

(* What a path stands for: itself, what is in it, or, with -r, below it.      *)
StandsFor(i, p) ==
    LET top == Real(given[i])
    IN  \/ p = given[i] \/ p = top
        \/ IsStrictPrefix(top, p) /\ (recursively \/ Len(p) = Len(top) + 1)
FilesAt(i) ==
    {p \in DOMAIN Entry :
        Entry[p].kind = "file" /\ given[i] \in DOMAIN Entry /\ StandsFor(i, p)}
HandedBy(i) == {Real(handed[k].path) : k \in {k \in 1..Len(handed) : handed[k].by = i}}

(* A link to a directory, which filepath.WalkDir does not walk.              *)
LinkedDir(p) == p \in DOMAIN Entry /\ p # Real(p) /\ IsDir(Real(p))

(* Whatever fails or vanishes under one path, no file of another one is lost, *)
(* and no file at all without a warning that names the path it was to be      *)
(* found under; a link to a directory given with -r excepted, which is handed  *)
(* over itself, nothing of what is in it being read.                          *)
AllTaken ==
    \A i \in 1..Len(given) \ warned :
        \/ recursively /\ LinkedDir(given[i])
        \/ {p \in FilesAt(i) : Lstat(p)} \subseteq HandedBy(i)
NoFileLostQuietly == pc = "done" => AllTaken

(* What walkFunc reads is a file: a directory, whose every read fails, would   *)
(* keep the decoder reading for ever (decoder.go 40-43).  Links to            *)
(* directories, which no check of Walk tells from files, excepted.            *)
StreamsAreFiles ==
    \A k \in 1..Len(handed) :
        Entry[Real(handed[k].path)].kind = "file" \/ LinkedDir(handed[k].path)

(* No file is handed over that no path asks for, none twice for one path, and *)
(* the files come path after path, with -r in lexical order: the order in     *)
(* which metadata sees their objects is one the user can tell.                *)
HandedAsAsked ==
    /\ \A k \in 1..Len(handed) : StandsFor(handed[k].by, handed[k].path)
    /\ \A k, l \in 1..Len(handed) : k < l =>
          /\ handed[k].by <= handed[l].by
          /\ handed[k].by = handed[l].by =>
                IF recursively THEN Precedes(handed[k].path, handed[l].path)
                               ELSE handed[k].path # handed[l].path

(* Walk panics only for something that was there when it looked and does not  *)
(* open, and never within a recursive walk, whose errors are returned.        *)
PanicsOnlyUnopened ==
    pc = "panic" =>
        /\ \E p \in left : ~Open(p)
        /\ recursively => ~IsDir(Real(given[cur]))

(* A walk ends, also of a directory with links to itself or to one it is in,  *)
(* and whatever is removed meanwhile: reader.go:64 takes WalkDir, which lists *)
(* a directory once and does not enter a link.                               *)
WalkEnds == <>(pc \in {"done", "panic"})
=============================================================================
