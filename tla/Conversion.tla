----------------------------- MODULE Conversion -----------------------------
(***************************************************************************)
(* What a run of timonify promises whoever looks at its output: it takes     *)
(* objects, one after another, and then either gives up, nothing written, or *)
(* writes once the module that a function of the objects alone says.         *)
(***************************************************************************)
EXTENDS Naturals, Sequences, SequencesExt

CONSTANTS
    Char, Separators, Names, Namespaces, OriginalName, MaxLoads,
    Decodable, Object, Deployments, Faulty, DeploymentFile,
    FileNames  \* what the files read may be called, NoFile for stdin

NoFile == << >>

VARIABLES
    source,  \* the objects taken: the document of each and its file
    module,  \* << >>, or <<what is written>>
    ended

conversionVars == <<source, module, ended>>

(* The common prefix of a sequence of documents' objects.                    *)
Blank == INSTANCE Metadata
             WITH commonPrefix <- << >>, namespace <- << >>, names <- {}, loaded <- << >>
PrefixOf(docs) ==
    LET prefix[n \in 0..Len(docs)] ==
            IF n = 0 THEN << >>
            ELSE Blank!DetectCommonPrefix(Object[docs[n]], prefix[n - 1])
    IN  prefix[Len(docs)]

SourceDocs == [i \in 1..Len(source) |-> source[i].doc]

(* What the metadata service says once all the objects are known.            *)
Final == INSTANCE Metadata
             WITH commonPrefix <- PrefixOf(SourceDocs), namespace <- << >>,
                  names <- {Object[d].name : d \in ToSet(SourceDocs)}, loaded <- << >>

HasTemplate(d) == d \in Deployments \/ Object[d].kind # "namespace"
Written(taken) ==
    [doc  |-> taken.doc,
     name |-> Final!TemplatedName(Object[taken.doc].name),
     file |-> IF taken.stream # NoFile THEN taken.stream
              ELSE IF taken.doc \in Deployments THEN DeploymentFile
              ELSE Final!TrimName(Object[taken.doc].name)]

-----------------------------------------------------------------------------
Init == source = << >> /\ module = << >> /\ ended = FALSE

Take ==
    /\ ~ended
    /\ \E d \in Decodable, f \in FileNames :
          source' = Append(source, [doc |-> d, stream |-> f])
    /\ UNCHANGED <<module, ended>>

(* One object that cannot be processed, and nothing is written; otherwise all *)
(* that have a template are, in their order.                                 *)
Kept == {i \in 1..Len(source) : HasTemplate(source[i].doc)}
InOrder(S, n) ==
    {order \in [1..n -> S] :
        S \subseteq {order[i] : i \in 1..n} /\ \A i, j \in 1..n : i < j => order[i] < order[j]}
Convert ==
    /\ ~ended
    /\ \A i \in Kept : source[i].doc \notin Faulty
    /\ \E n \in 0..Len(source) : \E order \in InOrder(Kept, n) :
          module' = <<[i \in 1..n |-> Written(source[order[i]])]>>
    /\ ended' = TRUE
    /\ UNCHANGED source

GiveUp ==
    /\ ~ended
    /\ ended' = TRUE
    /\ UNCHANGED <<source, module>>

Next == Take \/ Convert \/ GiveUp

Spec == Init /\ [][Next]_conversionVars
=============================================================================
