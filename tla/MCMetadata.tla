----------------------------- MODULE MCMetadata -----------------------------
(* Small instance of Metadata for TLC: names over two letters and one        *)
(* separator.  MCNames holds names that share a prefix, names that do not,   *)
(* names that are nothing but the prefix, and the empty name.                *)
EXTENDS Metadata

MCChar == {"a", "b", "-"}
MCSeparators == {"-"}
MCNames == {<< >>, <<"a">>, <<"a", "-">>, <<"a", "-", "b">>,
            <<"a", "-", "a", "b">>, <<"a", "b">>, <<"b">>}
MCNamespaces == {<< >>, <<"a">>, <<"b", "a">>}

(* Without the empty name, for the runs about the documented promises.       *)
MCSetNames == MCNames \ {<< >>}

(* The names of the documentation's example: one word in common, followed by *)
(* words that begin with the same letter (my-app-service1, my-app-secret).   *)
MCWordNames == {<<"a", "-", "b", "a">>, <<"a", "-", "b", "b">>,
                <<"a", "-", "a", "b">>}
=============================================================================
