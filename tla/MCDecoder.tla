----------------------------- MODULE MCDecoder ------------------------------
(* Small instance of Decoder: streams of up to MaxDocs documents, each        *)
(* decodable or not.                                                          *)
EXTENDS Decoder

MCDocs == {"object", "garbage"}
MCDecodable == {"object"}
=============================================================================
