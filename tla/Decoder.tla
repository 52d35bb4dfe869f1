------------------------------- MODULE Decoder -------------------------------
(***************************************************************************)
(* decoder.Decode (pkg/decoder/decoder.go) and the loop that ranges over its *)
(* channel (pkg/app/app.go): a goroutine reads a YAML stream document by     *)
(* document and sends every decodable one over a channel of capacity         *)
(* decoderResultChannelBufferSize; it ends, closing the channel, at the end  *)
(* of the stream or when it sees the stop channel closed.                    *)
(*                                                                          *)
(* A document is known by its position in the stream.  The stream may come   *)
(* from a pipe, so documents arrive over time; it ends in EOF, in a reader   *)
(* that answers every further read with an error (a directory, a broken JSON *)
(* stream), or not at all (a pipe held open).                                *)
(***************************************************************************)
EXTENDS Naturals, Sequences

CONSTANTS
    Docs,        \* kinds of documents
    Decodable,   \* those yaml, serializer and converter all accept
    BufferSize,  \* decoderResultChannelBufferSize
    MaxDocs      \* bound: documents of a stream

ASSUME DecoderAssumption ==
    /\ Decodable \subseteq Docs
    /\ BufferSize \in Nat \ {0}
    /\ MaxDocs \in Nat

Endings == {"eof", "error", "open"}
None == 0

VARIABLES
    input,      \* the documents of the stream
    ending,     \* what follows them
    available,  \* how many of them have reached the reader
    read,       \* how many of them the goroutine has read
    gpc,        \* where the goroutine is: select, read, send or closed
    held,       \* the document it is about to send, or None
    res,        \* the channel's buffer
    stop,       \* the stop channel (ctx.Done()) is closed
    received,   \* what the range loop got so far
    over        \* the range loop has ended

streamVars  == <<input, ending>>
decoderVars == <<input, ending, available, read, gpc, held, res, stop, received, over>>

Streams == UNION {[1..n -> Docs] : n \in 0..MaxDocs}

(* The decodable documents among the first n.                                *)
DecodableUpTo(n) == {i \in 1..n : input[i] \in Decodable}

-----------------------------------------------------------------------------
Init ==
    /\ input \in Streams
    /\ ending \in Endings
    /\ available \in 0..Len(input)
    /\ read = 0
    /\ gpc = "select"
    /\ held = None
    /\ res = << >>
    /\ stop = FALSE
    /\ received = << >>
    /\ over = FALSE

(* Decode called on another reader (by the modules that read several): a new *)
(* channel and a new goroutine, under the same stop channel.                 *)
Decode(docs, end, arrived) ==
    /\ input' = docs
    /\ ending' = end
    /\ available' = arrived
    /\ read' = 0
    /\ gpc' = "select"
    /\ held' = None
    /\ res' = << >>
    /\ received' = << >>
    /\ over' = FALSE
    /\ UNCHANGED stop

(* Mutant: the goroutine never looks at stop.                                *)
CheckStopNever ==
    /\ gpc = "select"
    /\ gpc' = "read"
    /\ UNCHANGED <<input, ending, available, read, held, res, stop, received, over>>

(* select { case <-stop: return; default: }                                  *)
CheckStop ==
    /\ gpc = "select"
    /\ gpc' = IF stop THEN "closed" ELSE "read"
    /\ UNCHANGED <<input, ending, available, read, held, res, stop, received, over>>

(* Mutant: a document that does not decode ends the stream.                  *)
ReadDocumentOrReturn ==
    /\ gpc = "read"
    /\ read < available
    /\ read' = read + 1
    /\ IF input[read + 1] \in Decodable
       THEN gpc' = "send" /\ held' = read + 1
       ELSE gpc' = "closed" /\ held' = None
    /\ UNCHANGED <<input, ending, available, res, stop, received, over>>

(* decoder.Decode returns a document: it is held for sending, or logged and  *)
(* skipped when one of the three decoding steps fails.                       *)
ReadDocument ==
    /\ gpc = "read"
    /\ read < available
    /\ read' = read + 1
    /\ IF input[read + 1] \in Decodable
       THEN gpc' = "send" /\ held' = read + 1
       ELSE gpc' = "select" /\ held' = None
    /\ UNCHANGED <<input, ending, available, res, stop, received, over>>

(* Mutant: io.EOF is handled like any other error.                           *)
ReadEOFGoesOn ==
    /\ gpc = "read"
    /\ read = Len(input)
    /\ ending = "eof"
    /\ gpc' = "select"
    /\ UNCHANGED <<input, ending, available, read, held, res, stop, received, over>>

(* decoder.Decode returns io.EOF: the deferred close(res) runs.              *)
ReadEOF ==
    /\ gpc = "read"
    /\ read = Len(input)
    /\ ending = "eof"
    /\ gpc' = "closed"
    /\ UNCHANGED <<input, ending, available, read, held, res, stop, received, over>>

(* decoder.Decode returns another error: logged, and the loop goes on.       *)
ReadError ==
    /\ gpc = "read"
    /\ read = Len(input)
    /\ ending = "error"
    /\ gpc' = "select"
    /\ UNCHANGED <<input, ending, available, read, held, res, stop, received, over>>

(* Mutants: a send that drops the object when the channel is full; a channel *)
(* that grows.                                                               *)
SendOrDrop ==
    /\ gpc = "send"
    /\ res' = IF Len(res) < BufferSize THEN Append(res, held) ELSE res
    /\ held' = None
    /\ gpc' = "select"
    /\ UNCHANGED <<input, ending, available, read, stop, received, over>>
SendUnbounded ==
    /\ gpc = "send"
    /\ res' = Append(res, held)
    /\ held' = None
    /\ gpc' = "select"
    /\ UNCHANGED <<input, ending, available, read, stop, received, over>>

(* res <- object                                                             *)
Send ==
    /\ gpc = "send"
    /\ Len(res) < BufferSize
    /\ res' = Append(res, held)
    /\ held' = None
    /\ gpc' = "select"
    /\ UNCHANGED <<input, ending, available, read, stop, received, over>>

(* for obj := range objects { ... }: a closed channel still gives what its   *)
(* buffer holds.                                                             *)
Receive ==
    /\ ~over
    /\ res # << >>
    /\ received' = Append(received, Head(res))
    /\ res' = Tail(res)
    /\ UNCHANGED <<input, ending, available, read, gpc, held, stop, over>>

(* Mutant: the loop ends with the channel's closing, its buffer not drained. *)
RangeEndsOnClose ==
    /\ ~over
    /\ gpc = "closed"
    /\ over' = TRUE
    /\ UNCHANGED <<input, ending, available, read, gpc, held, res, stop, received>>

RangeEnds ==
    /\ ~over
    /\ res = << >>
    /\ gpc = "closed"
    /\ over' = TRUE
    /\ UNCHANGED <<input, ending, available, read, gpc, held, res, stop, received>>

(* The environment: a document reaches the reader; the writer of an open     *)
(* pipe closes it; somebody cancels the context.                             *)
Arrive ==
    /\ available < Len(input)
    /\ available' = available + 1
    /\ UNCHANGED <<input, ending, read, gpc, held, res, stop, received, over>>

WriterCloses ==
    /\ ending = "open"
    /\ ending' = "eof"
    /\ UNCHANGED <<input, available, read, gpc, held, res, stop, received, over>>

Cancel ==
    /\ ~stop
    /\ stop' = TRUE
    /\ UNCHANGED <<input, ending, available, read, gpc, held, res, received, over>>

Goroutine == CheckStop \/ ReadDocument \/ ReadEOF \/ ReadError \/ Send
Consumer == Receive \/ RangeEnds
Environment == Arrive \/ WriterCloses \/ Cancel

Next == Goroutine \/ Consumer \/ Environment

(* The Go scheduler runs the goroutine and the ranging loop whenever they    *)
(* can run; nothing is assumed of the writer of the stream or of signals.    *)
Fairness == WF_decoderVars(Goroutine) /\ WF_decoderVars(Consumer)

Spec == Init /\ [][Next]_decoderVars /\ Fairness

-----------------------------------------------------------------------------
(* Properties                                                                *)

TypeOK ==
    /\ input \in Seq(Docs)
    /\ ending \in Endings
    /\ available \in 0..Len(input)
    /\ read \in 0..available
    /\ gpc \in {"select", "read", "send", "closed"}
    /\ held \in 0..read
    /\ res \in Seq(1..read) /\ Len(res) <= BufferSize
    /\ stop \in BOOLEAN
    /\ received \in Seq(1..read)
    /\ over \in BOOLEAN

(* The objects the goroutine has produced, oldest first: with the range loop, *)
(* in the channel, in its hands.                                              *)
InHand == IF gpc = "send" THEN <<held>> ELSE << >>
Produced == received \o res \o InHand

(* No object is lost, duplicated or reordered on its way to the range loop,   *)
(* whatever the interleaving: what has been produced is the decodable         *)
(* documents read so far, in the order of the stream (decoder.go 27-61).      *)
InOrderNoLoss ==
    /\ \A i, j \in 1..Len(Produced) : i < j => Produced[i] < Produced[j]
    /\ {Produced[i] : i \in 1..Len(Produced)} = DecodableUpTo(read)

(* When the loop over the channel ends without a stop it has seen every       *)
(* decodable document: the channel is closed only on io.EOF                   *)
(* (decoder.go:20, "Closes channel on io.EOF") and drained before the loop    *)
(* ends.                                                                      *)
CompleteUnlessStopped ==
    over /\ ~stop => {received[i] : i \in 1..Len(received)} = DecodableUpTo(Len(input))

(* A stream whose documents have all arrived and which ends in EOF is always  *)
(* read to its end, or abandoned because of a stop, and the loop ends.        *)
EndedStreamEnds ==
    (ending = "eof" /\ available = Len(input)) ~> over

(* After a stop the goroutine ends and the loop with it, unless the goroutine *)
(* sits in a read that gets no answer: decoder.go looks at stop only between  *)
(* reads.                                                                     *)
BlockedInRead ==
    gpc = "read" /\ read = available /\ (available < Len(input) \/ ending = "open")

StopEnds == stop ~> (over \/ BlockedInRead)

(* Decode implements the promise its caller relies on.                        *)
StreamQuota ==
    IF stop THEN Len(res) + (IF gpc \in {"read", "send"} THEN 1 ELSE 0)
            ELSE BufferSize + 1

Promise == INSTANCE ObjectStream
               WITH delivered <- received, stopped <- stop,
                    quota <- StreamQuota, Late <- BufferSize + 1

ImplementsObjectStream == Promise!Spec
=============================================================================
