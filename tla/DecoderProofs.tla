---------------------------- MODULE DecoderProofs -----------------------------
(***************************************************************************)
(* Proofs about Decoder, for every set of documents, every stream and every  *)
(* capacity of the channel: the safety properties of the goroutine and its   *)
(* range loop, and that the two implement ObjectStream.                      *)
(***************************************************************************)
EXTENDS Decoder, TLAPS

-----------------------------------------------------------------------------
(* Lemmas on sequences                                                       *)

Sorted(s) == \A i, j \in 1..Len(s) : i < j => s[i] < s[j]
Elements(s) == {s[i] : i \in 1..Len(s)}

(* A send moves an object from the goroutine's hands to the channel's end.    *)
LEMMA ConcatAppend ==
    ASSUME NEW S, NEW s \in Seq(S), NEW t \in Seq(S), NEW e \in S
    PROVE  s \o Append(t, e) \o << >> = s \o t \o <<e>>
<1> DEFINE left == s \o Append(t, e) \o << >>
           right == s \o t \o <<e>>
<1>1. left \in Seq(S) /\ right \in Seq(S) /\ Len(left) = Len(right)
  OBVIOUS
<1>2. \A i \in 1..Len(left) : left[i] = right[i]
  OBVIOUS
<1>. QED
  BY <1>1, <1>2

(* A receive moves one from the channel's head to the range loop.             *)
LEMMA ConcatHeadTail ==
    ASSUME NEW S, NEW s \in Seq(S), NEW t \in Seq(S), t # << >>
    PROVE  Append(s, Head(t)) \o Tail(t) = s \o t
<1> DEFINE left == Append(s, Head(t)) \o Tail(t)
           right == s \o t
<1>1. left \in Seq(S) /\ right \in Seq(S) /\ Len(left) = Len(right)
  OBVIOUS
<1>2. \A i \in 1..Len(left) : left[i] = right[i]
  OBVIOUS
<1>. QED
  BY <1>1, <1>2

(* A larger last element keeps a sequence sorted.                             *)
LEMMA SortedExtends ==
    ASSUME NEW n \in Nat, NEW s \in Seq(1..n), Sorted(s)
    PROVE  /\ Sorted(s \o <<n + 1>>)
           /\ Elements(s \o <<n + 1>>) = Elements(s) \union {n + 1}
<1> DEFINE longer == s \o <<n + 1>>
<1>1. /\ Len(longer) = Len(s) + 1 /\ Len(s) \in Nat
      /\ \A i \in 1..Len(s) : longer[i] = s[i] /\ s[i] \in 1..n
      /\ longer[Len(s) + 1] = n + 1
  OBVIOUS
<1>. HIDE DEF longer
<1>2. Sorted(longer)
  BY <1>1 DEF Sorted
<1>3. Elements(longer) = Elements(s) \union {n + 1}
  BY <1>1 DEF Elements
<1>. QED
  BY <1>2, <1>3 DEF longer

(* Sequences over a set of positions are sequences over a larger one.         *)
LEMMA SeqGrows ==
    ASSUME NEW m \in Nat, NEW n \in Nat, m <= n, NEW s \in Seq(1..m)
    PROVE  s \in Seq(1..n)
<1>1. Len(s) \in Nat /\ \A i \in 1..Len(s) : s[i] \in 1..n
  OBVIOUS
<1>2. s = [i \in 1..Len(s) |-> s[i]]
  OBVIOUS
<1>. QED
  BY <1>1, <1>2

-----------------------------------------------------------------------------
(* The inductive invariant                                                   *)

(* What the goroutine is about to send is the document it has just read.      *)
HeldIsLast == gpc = "send" => held = read /\ read > 0

(* The goroutine ends because of a stop or at the end of the stream, and the  *)
(* range loop after it, with an empty channel.                                *)
EndsForAReason ==
    /\ gpc = "closed" => stop \/ read = Len(input)
    /\ over => gpc = "closed" /\ res = << >>

SortedInOrder == Sorted(Produced) /\ Elements(Produced) = DecodableUpTo(read)

DecoderInv == TypeOK /\ HeldIsLast /\ EndsForAReason /\ SortedInOrder

LEMMA ProducedType ==
    ASSUME TypeOK, HeldIsLast
    PROVE  /\ Produced \in Seq(1..read)
           /\ Len(Produced) = Len(received) + Len(res) + Len(InHand)
           /\ InHand \in Seq(1..read)
<1>1. InHand \in Seq(1..read)
  <2>1. CASE gpc = "send"
    <3>1. held \in 1..read
      BY <2>1 DEF TypeOK, HeldIsLast
    <3>. QED
      BY <2>1, <3>1 DEF InHand
  <2>2. CASE gpc # "send"
    BY <2>2 DEF InHand
  <2>. QED
    BY <2>1, <2>2
<1>. QED
  BY <1>1 DEF TypeOK, Produced

(* What has been received and what is still on its way are the two ends of   *)
(* one sorted sequence, of all decodable documents read.                      *)
LEMMA ProducedParts ==
    ASSUME DecoderInv
    PROVE  /\ Len(received) \in Nat /\ Len(Produced) \in Nat /\ Len(received) <= Len(Produced)
           /\ \A i \in 1..Len(received) : Produced[i] = received[i]
           /\ res # << >> =>
                /\ Len(received) < Len(Produced)
                /\ Produced[Len(received) + 1] = Head(res)
           /\ \A i \in 1..Len(Produced) : Produced[i] \in 1..read
<1>1. /\ InHand \in Seq(1..read) /\ Produced \in Seq(1..read)
      /\ Len(Produced) = Len(received) + Len(res) + Len(InHand)
  BY ProducedType DEF DecoderInv
<1>2. received \in Seq(1..read) /\ res \in Seq(1..read)
  BY DEF DecoderInv, TypeOK
<1>3. Len(received) \in Nat /\ Len(res) \in Nat /\ Len(InHand) \in Nat /\ Len(Produced) \in Nat
  BY <1>1, <1>2
<1>4. \A i \in 1..Len(received) : Produced[i] = received[i]
  BY <1>1, <1>2 DEF Produced
<1>5. ASSUME res # << >>
      PROVE  Len(received) < Len(Produced) /\ Produced[Len(received) + 1] = Head(res)
  <2>1. Len(res) > 0 /\ Head(res) = res[1]
    BY <1>2, <1>5
  <2>2. (received \o res)[Len(received) + 1] = res[1] /\ received \o res \in Seq(1..read)
    BY <1>2, <2>1
  <2>3. Len(received) + 1 \in 1..Len(received \o res)
    BY <1>2, <2>1
  <2>4. Produced[Len(received) + 1] = (received \o res)[Len(received) + 1]
    BY <1>1, <2>2, <2>3 DEF Produced
  <2>. QED
    BY <1>1, <1>3, <2>1, <2>2, <2>4
<1>6. \A i \in 1..Len(Produced) : Produced[i] \in 1..read
  <2>1. ASSUME NEW S, NEW s \in Seq(S), NEW i \in 1..Len(s)
        PROVE  s[i] \in S
    BY <2>1
  <2>. QED
    BY <1>1, <2>1, Zenon
<1>. QED
  BY <1>1, <1>3, <1>4, <1>5, <1>6

(* The channel's head is a decodable document, and comes after all the loop    *)
(* has had.                                                                   *)
LEMMA ReceivesNext ==
    DecoderInv /\ res # << >> =>
        /\ Head(res) \in 1..Len(input) /\ input[Head(res)] \in Decodable
        /\ \A i \in 1..Len(received) : received[i] < Head(res)
<1>. SUFFICES ASSUME DecoderInv, res # << >>
              PROVE  /\ Head(res) \in 1..Len(input) /\ input[Head(res)] \in Decodable
                     /\ \A i \in 1..Len(received) : received[i] < Head(res)
  OBVIOUS
<1>1. /\ Len(received) \in Nat /\ Len(received) + 1 \in 1..Len(Produced)
      /\ Produced[Len(received) + 1] = Head(res)
      /\ read \in Nat /\ read <= Len(input) /\ Len(input) \in Nat
  BY ProducedParts DEF DecoderInv, TypeOK
<1>2. Sorted(Produced) /\ Elements(Produced) = DecodableUpTo(read)
  BY DEF DecoderInv, SortedInOrder
<1>3. Head(res) \in DecodableUpTo(read)
  BY <1>1, <1>2 DEF Elements
<1>4. \A i \in 1..Len(received) : received[i] < Head(res)
  <2>. TAKE i \in 1..Len(received)
  <2>1. i \in 1..Len(Produced) /\ i < Len(received) + 1 /\ Produced[i] = received[i]
    BY <1>1, ProducedParts
  <2>. QED
    BY <1>1, <1>2, <2>1 DEF Sorted
<1>. QED
  BY <1>1, <1>3, <1>4 DEF DecodableUpTo

(* A closed and empty channel, unless closed by a stop, has given the loop     *)
(* every decodable document.                                                  *)
LEMMA DrainedIsComplete ==
    DecoderInv /\ ~stop /\ gpc = "closed" /\ res = << >>
        => Elements(received) = DecodableUpTo(Len(input))
<1>. SUFFICES ASSUME DecoderInv, ~stop, gpc = "closed", res = << >>
              PROVE  Elements(received) = DecodableUpTo(Len(input))
  OBVIOUS
<1>1. read = Len(input)
  BY DEF DecoderInv, EndsForAReason
<1>2. Produced = received
  BY DEF Produced, InHand, DecoderInv, TypeOK
<1>. QED
  BY <1>1, <1>2 DEF DecoderInv, SortedInOrder

LEMMA InitEstablishes == ASSUME Init PROVE DecoderInv
<1>1. input \in Seq(Docs)
  BY DEF Init, Streams
<1>2. TypeOK
  <2>1. << >> \in Seq(1..0) /\ Len(<< >>) = 0
    OBVIOUS
  <2>2. /\ read = 0 /\ held = 0 /\ res = << >> /\ received = << >>
        /\ available \in 0..Len(input) /\ ending \in Endings
        /\ gpc = "select" /\ stop = FALSE /\ over = FALSE
    BY DEF Init, None
  <2>3. read \in 0..available /\ held \in 0..read
    BY <1>1, <2>2
  <2>4. res \in Seq(1..read) /\ received \in Seq(1..read)
    BY <2>1, <2>2, Zenon
  <2>5. Len(res) <= BufferSize
    BY <2>1, <2>2, DecoderAssumption
  <2>. QED
    BY <1>1, <2>2, <2>3, <2>4, <2>5 DEF TypeOK
<1>3. HeldIsLast /\ EndsForAReason
  BY DEF Init, HeldIsLast, EndsForAReason
<1>4. Produced = << >>
  BY DEF Init, Produced, InHand
<1>5. SortedInOrder
  BY <1>1, <1>4 DEF Init, SortedInOrder, Sorted, Elements, DecodableUpTo
<1>. QED
  BY <1>2, <1>3, <1>5 DEF DecoderInv

(* TypeOK and the two facts on program counters, action by action.           *)
LEMMA StepKeepsShape ==
    ASSUME DecoderInv, [Next]_decoderVars
    PROVE  TypeOK' /\ HeldIsLast' /\ EndsForAReason'
<1>. USE DecoderAssumption DEF DecoderInv, TypeOK, HeldIsLast, EndsForAReason
<1>1. CASE CheckStop
  BY <1>1 DEF CheckStop
<1>2. CASE ReadDocument
  <2>1. read + 1 \in Nat /\ read <= read + 1 /\ read' = read + 1
    BY <1>2 DEF ReadDocument
  <2>2. res' \in Seq(1..read') /\ received' \in Seq(1..read')
    BY <1>2, <2>1, SeqGrows DEF ReadDocument
  <2>3. /\ input' \in Seq(Docs) /\ ending' \in Endings /\ available' \in 0..Len(input')
        /\ gpc' \in {"select", "send"} /\ Len(res') <= BufferSize
        /\ stop' \in BOOLEAN /\ over' \in BOOLEAN
    BY <1>2 DEF ReadDocument
  <2>4. read' \in 0..available' /\ held' \in 0..read'
    BY <1>2 DEF ReadDocument, None
  <2>5. TypeOK'
    BY <2>2, <2>3, <2>4
  <2>6. HeldIsLast' /\ EndsForAReason'
    BY <1>2, <2>1 DEF ReadDocument
  <2>. QED
    BY <2>5, <2>6
<1>3. CASE ReadEOF
  BY <1>3 DEF ReadEOF
<1>4. CASE ReadError
  BY <1>4 DEF ReadError
<1>5. CASE Send
  <2>1. held \in 1..read /\ held' = 0 /\ gpc' = "select"
    BY <1>5 DEF Send, None
  <2>2. res' \in Seq(1..read) /\ Len(res') = Len(res) + 1 /\ Len(res) < BufferSize
    BY <1>5, <2>1 DEF Send
  <2>. QED
    BY <1>5, <2>1, <2>2 DEF Send
<1>6. CASE Receive
  BY <1>6 DEF Receive
<1>7. CASE RangeEnds
  BY <1>7 DEF RangeEnds
<1>8. CASE Arrive
  BY <1>8 DEF Arrive
<1>9. CASE WriterCloses
  BY <1>9 DEF WriterCloses, Endings
<1>10. CASE Cancel
  BY <1>10 DEF Cancel
<1>11. CASE UNCHANGED decoderVars
  BY <1>11 DEF decoderVars
<1>. QED
  BY <1>1, <1>2, <1>3, <1>4, <1>5, <1>6, <1>7, <1>8, <1>9, <1>10, <1>11
     DEF Next, Goroutine, Consumer, Environment

(* Only a decodable document read makes what has been produced longer; every *)
(* other step moves it along, or leaves it.                                   *)
LEMMA StepKeepsOrder ==
    ASSUME DecoderInv, [Next]_decoderVars
    PROVE  SortedInOrder'
<1>. USE DEF DecoderInv
<1>1. Produced \in Seq(1..read) /\ read \in Nat /\ read <= Len(input)
  BY ProducedType DEF TypeOK
<1>2. ASSUME Produced' = Produced, read' = read, input' = input
      PROVE  SortedInOrder'
  BY <1>2 DEF SortedInOrder, Sorted, Elements, DecodableUpTo
<1>3. CASE ReadDocument
  <2>1. /\ Produced = received \o res \o << >>
        /\ Produced' = received \o res \o InHand'
        /\ read' = read + 1 /\ input' = input
    BY <1>3 DEF ReadDocument, Produced, InHand
  <2>2. CASE input[read + 1] \in Decodable
    <3>1. Produced' = Produced \o <<read + 1>>
      <4>1. InHand' = <<read + 1>>
        BY <1>3, <2>2 DEF ReadDocument, InHand
      <4>. QED
        BY <2>1, <4>1 DEF TypeOK
    <3>2. Sorted(Produced') /\ Elements(Produced') = Elements(Produced) \union {read + 1}
      BY <1>1, <3>1, SortedExtends DEF SortedInOrder
    <3>3. DecodableUpTo(read)' = DecodableUpTo(read) \union {read + 1}
      BY <1>1, <2>1, <2>2 DEF DecodableUpTo
    <3>. QED
      BY <3>2, <3>3 DEF SortedInOrder, Sorted, Elements
  <2>3. CASE input[read + 1] \notin Decodable
    <3>1. Produced' = Produced
      BY <1>3, <2>1, <2>3 DEF ReadDocument, InHand
    <3>2. DecodableUpTo(read)' = DecodableUpTo(read)
      BY <1>1, <2>1, <2>3 DEF DecodableUpTo
    <3>. QED
      BY <3>1, <3>2 DEF SortedInOrder, Sorted, Elements
  <2>. QED
    BY <2>2, <2>3
<1>4. CASE Send
  <2>1. held \in 1..read /\ res \in Seq(1..read) /\ received \in Seq(1..read)
    BY <1>4 DEF Send, HeldIsLast, TypeOK
  <2>2. /\ Produced = received \o res \o <<held>>
        /\ Produced' = received \o Append(res, held) \o << >>
    BY <1>4 DEF Send, Produced, InHand
  <2>3. Produced' = Produced
    BY <2>1, <2>2, ConcatAppend
  <2>. QED
    BY <1>2, <1>4, <2>3 DEF Send
<1>5. CASE Receive
  <2>1. /\ Produced = received \o res \o InHand
        /\ Produced' = Append(received, Head(res)) \o Tail(res) \o InHand
    BY <1>5 DEF Receive, Produced, InHand
  <2>2. Produced' = Produced
    BY <1>5, <2>1, ConcatHeadTail DEF Receive, TypeOK
  <2>. QED
    BY <1>2, <1>5, <2>2 DEF Receive
<1>6. CASE CheckStop
  BY <1>2, <1>6 DEF CheckStop, Produced, InHand
<1>7. CASE ReadEOF
  BY <1>2, <1>7 DEF ReadEOF, Produced, InHand
<1>8. CASE ReadError
  BY <1>2, <1>8 DEF ReadError, Produced, InHand
<1>9. CASE RangeEnds
  BY <1>2, <1>9 DEF RangeEnds, Produced, InHand
<1>10. CASE Arrive
  BY <1>2, <1>10 DEF Arrive, Produced, InHand
<1>11. CASE WriterCloses
  BY <1>2, <1>11 DEF WriterCloses, Produced, InHand
<1>12. CASE Cancel
  BY <1>2, <1>12 DEF Cancel, Produced, InHand
<1>13. CASE UNCHANGED decoderVars
  BY <1>2, <1>13 DEF decoderVars, Produced, InHand
<1>. QED
  BY <1>3, <1>4, <1>5, <1>6, <1>7, <1>8, <1>9, <1>10, <1>11, <1>12, <1>13
     DEF Next, Goroutine, Consumer, Environment

LEMMA StepKeepsInv == DecoderInv /\ [Next]_decoderVars => DecoderInv'
  BY StepKeepsShape, StepKeepsOrder DEF DecoderInv

(* A stream opened after another one is as good a start as the first.         *)
LEMMA DecodeEstablishes ==
    \A docs \in Seq(Docs), end \in Endings :
        \A arrived \in 0..Len(docs) :
            stop \in BOOLEAN /\ Decode(docs, end, arrived) => DecoderInv'
<1>. SUFFICES ASSUME NEW docs \in Seq(Docs), NEW end \in Endings,
                     NEW arrived \in 0..Len(docs), stop \in BOOLEAN,
                     Decode(docs, end, arrived)
              PROVE  DecoderInv'
  OBVIOUS
<1>1. /\ input' = docs /\ ending' = end /\ available' = arrived /\ read' = 0
      /\ gpc' = "select" /\ held' = 0 /\ res' = << >> /\ received' = << >>
      /\ over' = FALSE /\ stop' = stop
  BY DEF Decode, None
<1>2. TypeOK'
  <2>1. << >> \in Seq(1..0) /\ Len(<< >>) = 0
    OBVIOUS
  <2>2. res' \in Seq(1..read') /\ received' \in Seq(1..read')
    BY <1>1, <2>1, Zenon
  <2>3. Len(res') <= BufferSize
    BY <1>1, <2>1, DecoderAssumption
  <2>4. /\ input' \in Seq(Docs) /\ available' \in 0..Len(input') /\ read' \in 0..available'
        /\ held' \in 0..read'
    BY <1>1
  <2>5. /\ ending' \in Endings /\ stop' \in BOOLEAN /\ over' \in BOOLEAN
        /\ gpc' \in {"select", "read", "send", "closed"}
    BY <1>1
  <2>. QED
    BY <2>2, <2>3, <2>4, <2>5 DEF TypeOK
<1>3. HeldIsLast' /\ EndsForAReason'
  BY <1>1 DEF HeldIsLast, EndsForAReason
<1>4. Produced' = << >>
  BY <1>1 DEF Produced, InHand
<1>5. SortedInOrder'
  BY <1>1, <1>4 DEF SortedInOrder, Sorted, Elements, DecodableUpTo
<1>. QED
  BY <1>2, <1>3, <1>5 DEF DecoderInv

THEOREM Invariance == Spec => []DecoderInv
<1>1. Init => DecoderInv
  BY InitEstablishes
<1>. QED
  BY <1>1, StepKeepsInv, PTL DEF Spec

-----------------------------------------------------------------------------
(* The properties                                                            *)

(* The state of the goroutine, the channel and the loop is well formed.       *)
THEOREM TypeCorrect == Spec => []TypeOK
<1>1. DecoderInv => TypeOK
  BY DEF DecoderInv
<1>. QED
  BY <1>1, Invariance, PTL

(* decoder.go 27-61: whatever the interleaving, the channel and the loop hold *)
(* the decodable documents read so far, each once and in their order.         *)
THEOREM NothingLost == Spec => []InOrderNoLoss
<1>1. DecoderInv => InOrderNoLoss
  BY DEF DecoderInv, SortedInOrder, InOrderNoLoss, Sorted, Elements
<1>. QED
  BY <1>1, Invariance, PTL

(* decoder.go:20: a loop that ends without a stop has seen every decodable    *)
(* document of the stream.                                                    *)
THEOREM LoopComplete == Spec => []CompleteUnlessStopped
<1>1. DecoderInv => CompleteUnlessStopped
  BY DrainedIsComplete DEF CompleteUnlessStopped, Elements, DecoderInv, EndsForAReason
<1>. QED
  BY <1>1, Invariance, PTL
-----------------------------------------------------------------------------
(* Decode and its range loop implement ObjectStream                          *)

LastReceived == Promise!Last

(* The channel's head is the next decodable document for the range loop.      *)
LEMMA HeadIsNext ==
    ASSUME DecoderInv, res # << >>
    PROVE  Promise!IsNext(Head(res))
<1> DEFINE n == Len(received)
           p == Head(res)
<1>1. /\ n \in Nat /\ n + 1 \in 1..Len(Produced) /\ Produced[n + 1] = p
      /\ read \in Nat /\ read <= Len(input) /\ Len(input) \in Nat
      /\ p \in 1..read
  BY ProducedParts DEF DecoderInv, TypeOK
<1>2. Sorted(Produced) /\ Elements(Produced) = DecodableUpTo(read)
  BY DEF DecoderInv, SortedInOrder
<1>3. p \in DecodableUpTo(read)
  BY <1>1, <1>2 DEF Elements
<1>4. LastReceived = (IF n = 0 THEN 0 ELSE Produced[n])
  BY ProducedParts DEF LastReceived, Promise!Last, DecoderInv, TypeOK
<1>5. LastReceived \in 0..p - 1
  <2>1. CASE n = 0
    BY <1>1, <1>4, <2>1
  <2>2. CASE n # 0
    <3>1. n \in 1..Len(Produced) /\ Produced[n] \in 1..read
      BY <1>1, <2>2, ProducedParts
    <3>2. Produced[n] < p
      BY <1>1, <1>2, <3>1 DEF Sorted
    <3>. QED
      BY <1>1, <1>4, <2>2, <3>1, <3>2
  <2>. QED
    BY <2>1, <2>2
<1>6. ASSUME NEW q \in LastReceived + 1 .. p - 1, input[q] \in Decodable
      PROVE  FALSE
  <2>1. q \in DecodableUpTo(read)
    BY <1>1, <1>5, <1>6 DEF DecodableUpTo
  <2>2. PICK k \in 1..Len(Produced) : Produced[k] = q
    BY <1>2, <2>1 DEF Elements
  <2>3. k < n + 1
    BY <1>1, <1>2, <1>5, <2>2, ProducedParts DEF Sorted
  <2>4. CASE n = 0
    BY <1>1, <2>3, <2>4
  <2>5. CASE n # 0
    <3>1. n \in 1..Len(Produced) /\ LastReceived = Produced[n]
      BY <1>1, <1>4, <2>5
    <3>2. k = n \/ k < n
      BY <1>1, <2>3
    <3>3. Produced[k] <= Produced[n]
      BY <1>2, <3>1, <3>2, ProducedParts DEF Sorted
    <3>. QED
      BY <1>5, <2>2, <3>1, <3>3
  <2>. QED
    BY <2>4, <2>5
<1>. QED
  BY <1>1, <1>3, <1>5, <1>6 DEF Promise!IsNext, LastReceived, DecodableUpTo

(* Nothing is left to deliver when the whole stream has been received.        *)
LEMMA NothingNext ==
    ASSUME DecoderInv, gpc = "closed", res = << >>, ~stop, NEW p \in 1..Len(input)
    PROVE  ~Promise!IsNext(p)
<1>1. Produced = received /\ read = Len(input)
  BY DEF DecoderInv, TypeOK, EndsForAReason, Produced, InHand
<1>2. SUFFICES ASSUME p \in LastReceived + 1 .. Len(input), input[p] \in Decodable
               PROVE  FALSE
  BY DEF Promise!IsNext, LastReceived
<1>3. Sorted(received) /\ Elements(received) = DecodableUpTo(read)
  BY <1>1 DEF DecoderInv, SortedInOrder
<1>4. PICK k \in 1..Len(received) : received[k] = p
  BY <1>1, <1>2, <1>3 DEF DecodableUpTo, Elements
<1>5. Len(received) \in Nat /\ \A i \in 1..Len(received) : received[i] \in Nat
  BY DEF DecoderInv, TypeOK
<1>6. LastReceived = received[Len(received)]
  BY <1>4, <1>5 DEF LastReceived, Promise!Last, DecoderInv, TypeOK
<1>7. k = Len(received) \/ k < Len(received)
  BY <1>5
<1>8. received[k] <= received[Len(received)]
  BY <1>3, <1>5, <1>7 DEF Sorted
<1>. QED
  BY <1>2, <1>4, <1>5, <1>6, <1>8

(* How many objects a stop finds on their way is bounded by the channel and   *)
(* the goroutine's hands.                                                     *)
LEMMA QuotaType ==
    ASSUME TypeOK
    PROVE  StreamQuota \in 0..BufferSize + 1
  BY DecoderAssumption DEF TypeOK, StreamQuota

LEMMA InitRefines == ASSUME Init PROVE Promise!Init
<1>1. input \in Seq(Docs)
  BY DEF Init, Streams
<1>. QED
  BY <1>1 DEF Init, Promise!Init, StreamQuota

(* Every step of the goroutine, the loop or the environment is one of the     *)
(* promise, or none.                                                          *)
LEMMA StepRefines ==
    ASSUME DecoderInv, DecoderInv', [Next]_decoderVars
    PROVE  [Promise!Next]_(Promise!streamVars)
<1>1. /\ StreamQuota \in 0..BufferSize + 1 /\ StreamQuota' \in 0..BufferSize + 1
      /\ Len(res) \in Nat /\ BufferSize \in Nat
  <2>1. StreamQuota \in 0..BufferSize + 1
    BY QuotaType DEF DecoderInv
  <2>2. TypeOK' /\ BufferSize \in Nat
    BY DecoderAssumption DEF DecoderInv
  <2>3. Len(res') \in Nat /\ Len(res') <= BufferSize /\ Len(res) \in Nat
    BY DEF DecoderInv, TypeOK
  <2>4. StreamQuota' \in 0..BufferSize + 1
    BY <2>2, <2>3 DEF StreamQuota
  <2>. QED
    BY <2>1, <2>2, <2>3, <2>4
<1>2. ASSUME UNCHANGED <<input, received, stop, over>>, StreamQuota' = StreamQuota
      PROVE  UNCHANGED Promise!streamVars
  BY <1>2 DEF Promise!streamVars
<1>3. ASSUME UNCHANGED <<input, received, stop, over>>, stop, StreamQuota' < StreamQuota
      PROVE  Promise!Next
  BY <1>1, <1>3 DEF Promise!Next, Promise!GiveUp
<1>4. CASE CheckStop
  BY <1>2, <1>4 DEF CheckStop, StreamQuota
<1>5. CASE ReadDocument
  <2>1. CASE stop /\ input[read + 1] \notin Decodable
    <3>1. StreamQuota = Len(res) + 1 /\ StreamQuota' = Len(res)
      BY <1>5, <2>1 DEF ReadDocument, StreamQuota
    <3>. QED
      BY <1>1, <1>3, <1>5, <2>1, <3>1 DEF ReadDocument
  <2>2. CASE ~(stop /\ input[read + 1] \notin Decodable)
    <3>1. StreamQuota' = StreamQuota
      BY <1>5, <2>2 DEF ReadDocument, StreamQuota
    <3>. QED
      BY <1>2, <1>5, <3>1 DEF ReadDocument
  <2>. QED
    BY <2>1, <2>2
<1>6. CASE ReadEOF \/ ReadError
  <2>1. /\ UNCHANGED <<input, received, stop, over, res>>
        /\ gpc = "read" /\ gpc' \in {"select", "closed"}
    BY <1>6 DEF ReadEOF, ReadError
  <2>2. CASE stop
    <3>1. StreamQuota = Len(res) + 1 /\ StreamQuota' = Len(res)
      BY <1>1, <2>1, <2>2 DEF StreamQuota
    <3>. QED
      BY <1>1, <1>3, <2>1, <2>2, <3>1
  <2>3. CASE ~stop
    <3>1. StreamQuota' = StreamQuota
      BY <2>1, <2>3 DEF StreamQuota
    <3>. QED
      BY <1>2, <2>1, <3>1
  <2>. QED
    BY <2>2, <2>3
<1>7. CASE Send
  <2>1. Len(res') = Len(res) + 1
    BY <1>7 DEF Send, DecoderInv, TypeOK
  <2>2. StreamQuota' = StreamQuota
    BY <1>1, <1>7, <2>1 DEF Send, StreamQuota
  <2>. QED
    BY <1>2, <1>7, <2>2 DEF Send
<1>8. CASE Receive
  <2>1. Len(res') = Len(res) - 1 /\ Len(res) > 0
    BY <1>8 DEF Receive, DecoderInv, TypeOK
  <2>2. IF stop THEN StreamQuota' < StreamQuota ELSE StreamQuota' = StreamQuota
    BY <1>1, <1>8, <2>1 DEF Receive, StreamQuota
  <2>3. Head(res) \in 1..Len(input)
    BY <1>8 DEF Receive, DecoderInv, TypeOK
  <2>4. Promise!Deliver(Head(res))
    BY <1>1, <1>8, <2>2, HeadIsNext DEF Receive, Promise!Deliver
  <2>. QED
    BY <2>3, <2>4 DEF Promise!Next
<1>9. CASE RangeEnds
  <2>1. StreamQuota' = StreamQuota
    BY <1>9 DEF RangeEnds, StreamQuota
  <2>2. stop \/ ~ \E p \in 1..Len(input) : Promise!IsNext(p)
    BY <1>9, NothingNext DEF RangeEnds
  <2>. QED
    BY <1>9, <2>1, <2>2 DEF RangeEnds, Promise!Next, Promise!Finish
<1>10. CASE Arrive \/ WriterCloses
  BY <1>2, <1>10 DEF Arrive, WriterCloses, StreamQuota
<1>11. CASE Cancel
  BY <1>1, <1>11 DEF Cancel, Promise!Next, Promise!Stop
<1>12. CASE UNCHANGED decoderVars
  BY <1>2, <1>12 DEF decoderVars, StreamQuota
<1>. QED
  BY <1>4, <1>5, <1>6, <1>7, <1>8, <1>9, <1>10, <1>11, <1>12
     DEF Next, Goroutine, Consumer, Environment

(* decoder.go and the loop over its channel deliver the decodable documents   *)
(* of the stream, in order and completely unless stopped; after a stop at     *)
(* most BufferSize + 1 more.                                                  *)
THEOREM Implementation == Spec => ImplementsObjectStream
<1>1. Init => Promise!Init
  BY InitRefines
<1>2. DecoderInv /\ DecoderInv' /\ [Next]_decoderVars
        => [Promise!Next]_(Promise!streamVars)
  BY StepRefines
<1>. QED
  BY <1>1, <1>2, Invariance, PTL DEF Spec, ImplementsObjectStream, Promise!Spec
=============================================================================
