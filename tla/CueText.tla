------------------------------- MODULE CueText --------------------------------
(***************************************************************************)
(* How texts become CUE (pkg/cue/cue.go, pkg/format/quote_strings.go).  A    *)
(* processor keeps the texts of a manifest and the #config references it     *)
(* puts among them in the same strings; Marshal parses each string as a CUE  *)
(* expression.  The texts must be quoted by then, so that what they parse to *)
(* is a string again, and the references must not be.                        *)
(***************************************************************************)
EXTENDS ImageRef

CONSTANT Expressions   \* the texts that are CUE expressions when not quoted

Text(s)       == [as |-> "text", of |-> s]
Expression(s) == [as |-> "expression", of |-> s]

(* strconv.Quote, of the empty text too, which QuoteStringsInStruct leaves.  *)
StrconvQuote(s) == <<Mark>> \o s \o <<Mark>>

(* parseStringLits, of one literal wherever it is in the tree: one that does *)
(* not parse stays a string.                                                 *)
ParseStringLit(s) ==
    IF IsQuoted(s) THEN Text(Unquote(s))
    ELSE IF s \in Expressions THEN Expression(s)
    ELSE Text(s)

Marshal(s, parse) == IF parse THEN ParseStringLit(s) ELSE Text(s)

(* strings.ReplaceAll(spec, "'", ""), which returns what has none as it is.  *)
Apostrophe == "'"
WithoutApostrophes(s) ==
    IF Apostrophe \in ToSet(s) THEN SelectSeq(s, LAMBDA c : c # Apostrophe) ELSE s
=============================================================================
