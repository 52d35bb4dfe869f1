------------------------------- MODULE ImageRef -------------------------------
(***************************************************************************)
(* How processPodContainer (pkg/processor/pod/pod.go) cuts an image into the *)
(* repository, tag and digest of timoniv1.#Image, and how #Image puts them   *)
(* together again.  An image is a sequence of characters; a deployment's     *)
(* strings have been quoted when the pod is processed (format.              *)
(* QuoteStringsInStruct).                                                    *)
(***************************************************************************)
EXTENDS Naturals, Sequences, FiniteSets, SequencesExt, FiniteSetsExt

Mark == "\""
Quote(s) == IF s = << >> THEN s ELSE <<Mark>> \o s \o <<Mark>>

(* strconv.Unquote fails on what is not quoted; the model's strings hold     *)
(* nothing to escape.                                                        *)
IsQuoted(s) == Len(s) >= 2 /\ Head(s) = Mark /\ Last(s) = Mark
Unquote(s) == SubSeq(s, 2, Len(s) - 1)

Indices(s, char) == {i \in 1..Len(s) : s[i] = char}
LastIndex(s, char) ==
    IF Indices(s, char) = {} THEN 0 ELSE Max(Indices(s, char))

HasDigest(image) == "@" \in ToSet(image) /\ Cardinality(Indices(image, ":")) >= 2

(* Mutant: the first colon separates the tag.                                *)
SeparatorFirst(quoted) ==
    LET colons == Indices(Unquote(quoted), ":")
    IN  IF colons = {} THEN 0 ELSE Min(colons)

(* With a digest the position is one in the quoted image, the colon before   *)
(* the last.                                                                 *)
Separator(quoted) ==
    LET image == Unquote(quoted)
        last  == LastIndex(quoted, ":")
    IN  IF HasDigest(image)
        THEN LastIndex(SubSeq(quoted, 1, last - 1), ":")
        ELSE LastIndex(image, ":")

(* The first lines of processPodContainer.                                   *)
Splittable(quoted) == IsQuoted(quoted) /\ Separator(quoted) > 0
Split(quoted) ==
    LET image  == Unquote(quoted)
        before == SubSeq(image, 1, Separator(quoted) - 1)
        after  == SubSeq(image, Separator(quoted) + 1, Len(image))
    IN  [repository |-> before,
         tag        |-> IF HasDigest(image) THEN << >> ELSE after,
         digest     |-> IF HasDigest(image) THEN after ELSE << >>]

(* timoniv1.#Image.reference                                                 *)
Reference(parts) ==
    parts.repository
        \o (IF parts.tag # << >> THEN <<":">> \o parts.tag ELSE << >>)
        \o (IF parts.digest # << >> THEN <<"@">> \o parts.digest ELSE << >>)
        \o (IF parts.tag = << >> /\ parts.digest = << >> THEN <<":", "latest">> ELSE << >>)
=============================================================================
