---------------------------- MODULE ObjectStream ----------------------------
(***************************************************************************)
(* What decoder.Decode promises the code that ranges over its channel: the   *)
(* decodable documents of the reader, once each and in their order, until    *)
(* the reader is exhausted or the caller stops it; and after a stop no more  *)
(* than Late further objects, in whatever state the stop found the decoder.  *)
(***************************************************************************)
EXTENDS Naturals, Sequences

CONSTANTS
    Docs,       \* kinds of documents
    Decodable,  \* those that decode to an object
    Late        \* how many objects may still come after a stop

VARIABLES
    input,      \* the documents of the reader
    delivered,  \* positions in input of the objects handed over so far
    stopped,    \* the caller asked to stop
    quota,      \* objects that may still come, once stopped
    over        \* the range loop has ended

streamVars == <<input, delivered, stopped, quota, over>>

Last == IF delivered = << >> THEN 0 ELSE delivered[Len(delivered)]

(* p is the next decodable document after the last one delivered.            *)
IsNext(p) ==
    /\ p \in Last + 1 .. Len(input)
    /\ input[p] \in Decodable
    /\ \A q \in Last + 1 .. p - 1 : input[q] \notin Decodable

Init ==
    /\ input \in Seq(Docs)
    /\ delivered = << >>
    /\ stopped = FALSE
    /\ quota = Late
    /\ over = FALSE

Deliver(p) ==
    /\ ~over
    /\ IsNext(p)
    /\ delivered' = Append(delivered, p)
    /\ IF stopped THEN quota' < quota /\ quota' \in 0..Late ELSE UNCHANGED quota
    /\ UNCHANGED <<input, stopped, over>>

Stop ==
    /\ ~stopped
    /\ stopped' = TRUE
    /\ quota' \in 0..Late
    /\ UNCHANGED <<input, delivered, over>>

(* An object that was on its way turns out not to exist.                     *)
GiveUp ==
    /\ stopped
    /\ quota' < quota
    /\ quota' \in 0..Late
    /\ UNCHANGED <<input, delivered, stopped, over>>

Finish ==
    /\ ~over
    /\ stopped \/ ~ \E p \in 1..Len(input) : IsNext(p)
    /\ over' = TRUE
    /\ UNCHANGED <<input, delivered, stopped, quota>>

Next == (\E p \in 1..Len(input) : Deliver(p)) \/ Stop \/ GiveUp \/ Finish

Spec == Init /\ [][Next]_streamVars
=============================================================================
