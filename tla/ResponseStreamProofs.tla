------------------------ MODULE ResponseStreamProofs ------------------------
(***************************************************************************)
(* For any pieces, sizes, chunks, slots and limit: the types, and that the *)
(* stream keeps the promise of CommittedStream.                            *)
(***************************************************************************)
EXTENDS ResponseStream, SequenceTheorems, NaturalsInduction, WellFoundedInduction, TLAPS

USE DEF source, sending, reader, worked, None, Live, Connected

(* A piece has a natural number of bytes; so has any other item.           *)
LEMMA BytesNat ==
  ASSUME NEW x
  PROVE  Bytes(x) \in Nat
<1>1. CASE x \in 1..Pieces
  BY <1>1, StreamAssumption DEF Bytes, StreamAssumption
<1>2. CASE x \notin 1..Pieces
  BY <1>2 DEF Bytes
<1> QED BY <1>1, <1>2

LEMMA ReleaseNat ==
  ASSUME NEW x, queuedBytes \in Nat, ReleaseBytes(Bytes(x))
  PROVE  queuedBytes' \in Nat
BY BytesNat DEF ReleaseBytes

(* The items are the pieces, the end and the error.                        *)
LEMMA ItemFacts ==
  /\ \A x : x \in Items <=> x \in 1..Pieces \/ x \in {End, Error}
  /\ End \notin 1..Pieces /\ Error \notin 1..Pieces /\ End /= Error
  /\ Pieces < End /\ Pieces < Error
  /\ Items \subseteq Nat /\ None \notin Items
  /\ \A x \in Nat : \A e \in 0..Pieces : x < e => x + 1 \in 1..Pieces
BY StreamAssumption DEF StreamAssumption, Items, End, Error

LEMMA NoItems ==
  /\ <<>> \in Seq(Items) /\ Len(<<>>) <= Slots
  /\ <<>> \in Seq(1..Pieces)
<1>1. <<>> \in Seq(Items) /\ <<>> \in Seq(1..Pieces) /\ Len(<<>>) = 0
  BY EmptySeq
<1> QED BY <1>1, StreamAssumption DEF StreamAssumption

-----------------------------------------------------------------------------
(* Types.                                                                  *)

LEMMA WorkerType ==
  ASSUME TypeOK, Worker \/ Expire
  PROVE  TypeOK'
<1> USE StreamAssumption DEF StreamAssumption, TypeOK
<1>1. CASE Receive
  <2>1. PICK e \in ChunkEnds : produced < e /\ produced' = e
    BY <1>1 DEF Receive
  <2>2. e \in 0..Pieces /\ produced \in Nat
    OBVIOUS
  <2>3. produced' \in 0..Pieces /\ produced + 1 \in Items
    BY <2>1, <2>2, ItemFacts
  <2>4. item' = produced + 1 /\ expired' = FALSE /\ worker' = "capacity"
    BY <1>1 DEF Receive, Sends
  <2>5. item' /= None
    BY <2>2, <2>4
  <2>6. UNCHANGED <<upstream, queuedBytes, terminalError, channel, reader>>
    BY <1>1 DEF Receive
  <2> QED BY <2>3, <2>4, <2>5, <2>6
<1>2. CASE ReceiveEnd BY <1>2, ItemFacts DEF ReceiveEnd, Sends
<1>3. CASE ReceiveError BY <1>3, ItemFacts DEF ReceiveError, Sends
<1>4. CASE Expire BY <1>4 DEF Expire
<1>5. CASE AwaitCapacity BY <1>5 DEF AwaitCapacity, RetryOrTimeOut
<1>6. CASE Count BY <1>6, BytesNat DEF Count
<1>7. CASE TrySend
  <2>1. channel' \in Seq(Items) /\ Len(channel') <= Slots
    <3>1. CASE channel' = channel
      BY <3>1
    <3>2. CASE Len(channel) < Slots /\ channel' = Append(channel, item) /\ item \in Items
      BY <3>2, AppendProperties
    <3>3. item \in Items
      BY <1>7 DEF TrySend
    <3> QED BY <1>7, <3>1, <3>2, <3>3 DEF TrySend
  <2>2. item' \in Items /\ expired' \in BOOLEAN
    <3>1. item \in Items /\ item \in Nat
      BY <1>7, ItemFacts DEF TrySend
    <3>2. item < produced => item + 1 \in Items
      BY <3>1, ItemFacts
    <3> QED BY <1>7, <3>1, <3>2 DEF TrySend, AfterSent, Sends
  <2>4. None \notin Items
    BY ItemFacts DEF Items
  <2>3. worker' \in {"capacity", "receive", "leave", "full", "closed"}
    BY <1>7 DEF TrySend, AfterSent, Sends
  <2> QED BY <1>7, <2>1, <2>2, <2>3, <2>4 DEF TrySend
<1>8. CASE Uncount BY <1>8, ReleaseNat DEF Uncount, RetryOrTimeOut
<1>9. CASE Wake BY <1>9 DEF Wake
<1>10. CASE GiveUp BY <1>10 DEF GiveUp
<1>11. CASE Leave BY <1>11 DEF Leave
<1>12. CASE Aborted BY <1>12 DEF Aborted
<1> QED BY <1>1, <1>2, <1>3, <1>4, <1>5, <1>6, <1>7, <1>8, <1>9, <1>10, <1>11, <1>12
        DEF Worker

LEMMA ConsumerType ==
  ASSUME TypeOK, Consumer
  PROVE  TypeOK'
<1> USE StreamAssumption DEF StreamAssumption, TypeOK
<1>1. CASE Reject BY <1>1, NoItems DEF Reject, DropReceiver
<1>2. CASE Take BY <1>2, HeadTailProperties DEF Take
<1>3. CASE Inspect BY <1>3, ReleaseNat, AppendProperties DEF Inspect
<1>4. CASE LookAheadEnd BY <1>4, HeadTailProperties DEF LookAheadEnd
<1>5. CASE Deliver BY <1>5, ConcatProperties, NoItems DEF Deliver
<1>6. CASE ReleasePiece BY <1>6, ReleaseNat DEF ReleasePiece
<1>7. CASE ReadLast BY <1>7, HeadTailProperties DEF ReadLast, Tell
<1>8. CASE ReadDisconnected BY <1>8 DEF ReadDisconnected, Tell
<1>9. CASE ReadTimeout BY <1>9 DEF ReadTimeout, Tell
<1>10. CASE Stall BY <1>10 DEF Stall
<1>11. CASE Abandon BY <1>11, NoItems DEF Abandon, DropReceiver
<1> QED
  BY <1>1, <1>2, <1>3, <1>4, <1>5, <1>6, <1>7, <1>8, <1>9, <1>10, <1>11
  DEF Consumer, LookingAhead, Reader, RejectHeld, LookAhead, LookAheadFails, ReadPiece

LEMMA TypeInit == Init => TypeOK
<1> SUFFICES ASSUME Init PROVE TypeOK
  OBVIOUS
<1> USE DEF Init
<1>1. /\ produced \in 0..Pieces /\ taken \in 0..Pieces /\ queuedBytes \in Nat
  BY StreamAssumption DEF StreamAssumption
<1>2. /\ channel \in Seq(Items) /\ Len(channel) <= Slots
      /\ held \in Seq(1..Pieces) /\ delivered \in Seq(1..Pieces)
  BY NoItems
<1> QED BY <1>1, <1>2 DEF TypeOK

(* Every variable keeps its type, and the channel never holds more than    *)
(* its slots.                                                              *)
THEOREM TypeCorrect == Spec => []TypeOK
<1>1. Init => TypeOK
  BY TypeInit
<1>2. TypeOK /\ [Next]_vars => TypeOK'
  <2>1. ASSUME TypeOK, UNCHANGED vars PROVE TypeOK'
    BY <2>1 DEF vars, TypeOK
  <2>2. ASSUME TypeOK, Worker \/ Expire PROVE TypeOK'
    BY <2>2, WorkerType
  <2>3. ASSUME TypeOK, Consumer PROVE TypeOK'
    BY <2>3, ConsumerType
  <2>4. Done => UNCHANGED vars
    BY DEF Done
  <2> QED BY <2>1, <2>2, <2>3, <2>4 DEF Next
<1> QED BY <1>1, <1>2, PTL DEF Spec

-----------------------------------------------------------------------------
(* Order.  The pieces read from the upstream are, in this order, with the  *)
(* client, held, just taken, in the channel, and with the worker.          *)
Base == Len(delivered) + Len(held) + (IF taken = None THEN 0 ELSE 1)

LastIn == Len(channel) > 0 /\ channel[Len(channel)] \notin 1..Pieces
DataIn == IF LastIn THEN Len(channel) - 1 ELSE Len(channel)
Sent == Base + DataIn

InOrder ==
  /\ \A i \in 1..Len(delivered) : delivered[i] = i
  /\ \A i \in 1..Len(held) : held[i] = Len(delivered) + i
  /\ taken /= None => taken = Len(delivered) + Len(held) + 1
  /\ \A i \in 1..DataIn : channel[i] = Base + i

(* How the worker's step relates to what it has sent.                      *)
Sending == {"capacity", "count", "send", "full", "closed", "sleep"}
Leaving == {"leave", "stopped"}

Whole == upstream = "ended" /\ produced = Sent

Accounted ==
  /\ Sent <= produced
  /\ worker = "receive" => produced = Sent /\ upstream = "open"
  /\ worker \in Sending /\ item \in 1..Pieces => item = Sent + 1 /\ item <= produced
                                                 /\ upstream = "open"
  /\ worker \in Sending /\ item = End => Whole
  /\ worker \in Sending /\ item = Error => terminalError
  /\ worker \in Leaving /\ ~terminalError => Whole
  /\ worker \notin Leaving => ~LastIn
  /\ worker /= "closed"
  /\ LastIn /\ channel[Len(channel)] = End => Whole

Closed == channel = <<>> /\ Sent <= produced

(* What the reader awaits replaces what it has handed over.                *)
Fresh == client = "streaming" /\ taken /= None => held = <<>>

IInv == /\ TypeOK
        /\ InOrder
        /\ Fresh
        /\ open => Accounted
        /\ ~open => Closed

(* The counts are natural numbers.                                         *)
LEMMA Counts ==
  ASSUME TypeOK
  PROVE  /\ Len(delivered) \in Nat /\ Len(held) \in Nat /\ Len(channel) \in Nat
         /\ Base \in Nat /\ DataIn \in Nat /\ Sent \in Nat
         /\ Len(channel) = 0 <=> channel = <<>>
<1>1. Len(delivered) \in Nat /\ Len(held) \in Nat /\ Len(channel) \in Nat
  BY LenProperties DEF TypeOK
<1>2. Len(channel) = 0 <=> channel = <<>>
  BY EmptySeq DEF TypeOK
<1>3. Base \in Nat
  BY <1>1 DEF Base
<1>4. DataIn \in Nat
  BY <1>1 DEF DataIn, LastIn
<1> QED BY <1>1, <1>2, <1>3, <1>4 DEF Sent

(* A step that moves no piece.                                             *)
LEMMA Unmoved ==
  ASSUME InOrder, UNCHANGED <<channel, taken, held, delivered>>
  PROVE  /\ InOrder' /\ Sent' = Sent /\ (LastIn' <=> LastIn)
         /\ channel'[Len(channel')] = channel[Len(channel)]
BY DEF InOrder, Sent, Base, DataIn, LastIn

(* The consumer takes a piece from the channel.                            *)
LEMMA Taken ==
  ASSUME TypeOK, InOrder, Take, taken = None
  PROVE  /\ InOrder' /\ Sent' = Sent /\ (LastIn' <=> LastIn)
         /\ LastIn => channel'[Len(channel')] = channel[Len(channel)]
<1> DEFINE n == Len(channel)
<1>1. /\ n \in Nat \ {0}
      /\ Len(channel') = n - 1
      /\ \A i \in 1..(n - 1) : channel'[i] = channel[i + 1]
      /\ channel[1] \in 1..Pieces /\ taken' = channel[1]
      /\ UNCHANGED <<held, delivered>>
  <2>1. channel /= <<>> /\ channel' = Tail(channel) /\ taken' = Head(channel)
        /\ Head(channel) \in 1..Pieces /\ UNCHANGED <<held, delivered>>
    BY DEF Take
  <2>2. channel \in Seq(Items)
    BY DEF TypeOK
  <2>3. Head(channel) = channel[1] /\ n \in Nat \ {0}
    BY <2>1, <2>2, EmptySeq
  <2>4. Len(channel') = n - 1 /\ \A i \in 1..Len(channel') : channel'[i] = channel[i + 1]
    BY <2>1, <2>2, HeadTailProperties
  <2> QED BY <2>1, <2>3, <2>4
<1>2. n - 1 >= 1 => channel'[n - 1] = channel[n]
  BY <1>1
<1>3. LastIn' <=> LastIn
  BY <1>1, <1>2 DEF LastIn
<1>4. DataIn' = DataIn - 1 /\ DataIn \in 1..n
  BY <1>1, <1>3 DEF DataIn, LastIn
<1>5. Len(delivered) \in Nat /\ Len(held) \in Nat
  BY Counts
<1>6. taken' /= None /\ Base \in Nat /\ Base' = Base + 1
  <2>1. taken' /= None
    BY <1>1, StreamAssumption DEF StreamAssumption
  <2>2. Len(held') = Len(held) /\ Len(delivered') = Len(delivered)
    BY <1>1
  <2> QED BY <2>1, <2>2, <1>5 DEF Base
<1>7. channel[1] = Base + 1 /\ Base = Len(delivered) + Len(held)
  BY <1>4, <1>5 DEF InOrder, Base
<1>8. \A i \in 1..DataIn' : channel'[i] = Base' + i
  <2> SUFFICES ASSUME NEW i \in 1..(DataIn - 1) PROVE channel'[i] = Base + 1 + i
    BY <1>4, <1>6
  <2>1. i \in 1..(n - 1) /\ i + 1 \in 1..DataIn
    BY <1>1, <1>4
  <2>2. channel'[i] = channel[i + 1] /\ channel[i + 1] = Base + (i + 1)
    BY <2>1, <1>1 DEF InOrder
  <2> QED BY <2>2, <1>6
<1>9. InOrder'
  BY <1>1, <1>6, <1>7, <1>8 DEF InOrder
<1>10. Sent' = Sent
  BY <1>4, <1>6, <1>1 DEF Sent
<1> QED BY <1>1, <1>2, <1>3, <1>9, <1>10 DEF LastIn

(* The taken piece joins the held ones.                                    *)
LEMMA Held ==
  ASSUME TypeOK, InOrder, taken /= None,
         held' = Append(held, taken), taken' = None, UNCHANGED <<channel, delivered>>
  PROVE  /\ InOrder' /\ Sent' = Sent /\ (LastIn' <=> LastIn)
         /\ channel'[Len(channel')] = channel[Len(channel)]
<1>1. /\ Len(held') = Len(held) + 1
      /\ \A i \in 1..Len(held) : held'[i] = held[i]
      /\ held'[Len(held) + 1] = taken
  BY AppendProperties DEF TypeOK
<1>2. Len(delivered) \in Nat /\ Len(held) \in Nat
  BY Counts
<1>3. Base' = Base
  BY <1>1, <1>2 DEF Base
<1>4. ASSUME NEW i \in 1..Len(held')
      PROVE  held'[i] = Len(delivered) + i
  <2>1. CASE i \in 1..Len(held)
    BY <2>1, <1>1 DEF InOrder
  <2>2. CASE i = Len(held) + 1
    <3>1. taken = Len(delivered) + Len(held) + 1
      BY DEF InOrder
    <3> QED BY <2>2, <3>1, <1>1, <1>2
  <2> QED BY <2>1, <2>2, <1>1, <1>2
<1>5. DataIn' = DataIn /\ (LastIn' <=> LastIn)
  BY DEF DataIn, LastIn
<1>6. InOrder'
  BY <1>3, <1>4, <1>5 DEF InOrder
<1> QED BY <1>3, <1>5, <1>6 DEF Sent

(* The client gets the held pieces.                                        *)
LEMMA Given ==
  ASSUME TypeOK, InOrder, Deliver
  PROVE  /\ InOrder' /\ Sent' = Sent /\ (LastIn' <=> LastIn)
         /\ channel'[Len(channel')] = channel[Len(channel)]
         /\ Len(delivered') = Len(delivered) + Len(held)
         /\ \A i \in 1..Len(delivered') : delivered'[i] = i
<1>1. delivered' = delivered \o held /\ held' = <<>> /\ UNCHANGED <<channel, taken>>
  BY DEF Deliver
<1>2. Len(delivered) \in Nat /\ Len(held) \in Nat /\ Len(held') = 0
  BY <1>1, Counts, EmptySeq
<1>3. /\ Len(delivered') = Len(delivered) + Len(held)
      /\ \A i \in 1..Len(delivered) + Len(held) :
           delivered'[i] = IF i <= Len(delivered) THEN delivered[i] ELSE held[i - Len(delivered)]
  BY <1>1, ConcatProperties DEF TypeOK
<1>4. ASSUME NEW i \in 1..Len(delivered) + Len(held)
      PROVE  delivered'[i] = i
  <2>1. CASE i <= Len(delivered)
    BY <2>1, <1>2, <1>3 DEF InOrder
  <2>2. CASE i > Len(delivered)
    <3>1. i - Len(delivered) \in 1..Len(held)
      BY <2>2, <1>2
    <3>2. held[i - Len(delivered)] = Len(delivered) + (i - Len(delivered))
      BY <3>1 DEF InOrder
    <3> QED BY <2>2, <3>2, <1>2, <1>3
  <2> QED BY <2>1, <2>2, <1>2
<1>5. taken = None
  BY DEF Deliver, Reading
<1>6. Base' = Base
  BY <1>1, <1>2, <1>3, <1>5 DEF Base
<1>7. DataIn' = DataIn /\ (LastIn' <=> LastIn)
  BY <1>1 DEF DataIn, LastIn
<1>8. InOrder'
  BY <1>1, <1>2, <1>3, <1>4, <1>5, <1>6, <1>7 DEF InOrder
<1> QED BY <1>1, <1>3, <1>4, <1>6, <1>7, <1>8 DEF Sent

(* The worker's item enters the channel.                                   *)
LEMMA Entered ==
  ASSUME TypeOK, InOrder, ~LastIn, item \in Items,
         item \in 1..Pieces => item = Sent + 1,
         channel' = Append(channel, item), UNCHANGED <<taken, held, delivered>>
  PROVE  /\ InOrder'
         /\ Sent' = IF item \in 1..Pieces THEN Sent + 1 ELSE Sent
         /\ LastIn' <=> item \notin 1..Pieces
         /\ channel'[Len(channel')] = item
<1> DEFINE n == Len(channel)
<1>1. /\ Len(channel') = n + 1
      /\ \A i \in 1..n : channel'[i] = channel[i]
      /\ channel'[n + 1] = item
  BY AppendProperties DEF TypeOK
<1>2. n \in Nat /\ Base \in Nat
  BY Counts
<1>3. Base' = Base /\ DataIn = n /\ Sent = Base + n
  BY DEF Base, DataIn, Sent
<1>4. LastIn' <=> item \notin 1..Pieces
  BY <1>1, <1>2 DEF LastIn
<1>5. DataIn' = IF item \in 1..Pieces THEN n + 1 ELSE n
  BY <1>1, <1>2, <1>4 DEF DataIn
<1>6. \A i \in 1..DataIn' : channel'[i] = Base' + i
  <2> SUFFICES ASSUME NEW i \in 1..DataIn' PROVE channel'[i] = Base + i
    BY <1>3
  <2>1. CASE i \in 1..n
    BY <2>1, <1>1, <1>3 DEF InOrder
  <2>2. CASE i = n + 1
    BY <2>2, <1>1, <1>2, <1>3, <1>5
  <2> QED BY <2>1, <2>2, <1>2, <1>5
<1>7. InOrder'
  BY <1>3, <1>6 DEF InOrder
<1> QED BY <1>1, <1>2, <1>3, <1>4, <1>5, <1>7 DEF Sent

(* The consumer meets the last item, which is then alone in the channel.   *)
LEMMA LastTaken ==
  ASSUME TypeOK, InOrder, Sent <= produced,
         channel /= <<>>, Head(channel) \in {End, Error}, channel' = Tail(channel),
         UNCHANGED <<taken, held, delivered>>
  PROVE  /\ InOrder' /\ Sent' = Sent /\ ~LastIn' /\ channel' = <<>>
         /\ LastIn /\ channel[Len(channel)] = Head(channel) /\ Sent = Base
<1> DEFINE n == Len(channel)
<1>1. channel \in Seq(Items) /\ n \in Nat \ {0} /\ Head(channel) = channel[1]
  BY EmptySeq DEF TypeOK
<1>2. Len(channel') = n - 1 /\ channel' \in Seq(Items)
  BY <1>1, HeadTailProperties
<1>3. channel[1] \notin 1..Pieces
  BY <1>1, ItemFacts
<1>4. Base \in Nat /\ DataIn \in Nat /\ produced \in 0..Pieces /\ Pieces \in Nat
  BY Counts, StreamAssumption DEF TypeOK, StreamAssumption
<1>5. DataIn = 0
  <2> SUFFICES ASSUME DataIn >= 1 PROVE FALSE
    BY <1>4
  <2>1. channel[1] = Base + 1
    BY <1>4 DEF InOrder
  <2>2. Base + 1 <= produced
    BY <1>4 DEF Sent
  <2> QED BY <2>1, <2>2, <1>3, <1>4
<1>6. n = 1 /\ LastIn
  BY <1>1, <1>3, <1>5 DEF DataIn, LastIn
<1>7. Len(channel') = 0 /\ channel' = <<>>
  BY <1>2, <1>6, EmptySeq
<1>8. Base' = Base /\ ~LastIn' /\ DataIn' = 0
  BY <1>7 DEF Base, LastIn, DataIn
<1>9. InOrder'
  BY <1>7, <1>8 DEF InOrder
<1> QED BY <1>1, <1>4, <1>5, <1>6, <1>7, <1>8, <1>9 DEF Sent

(* The receiver is dropped with what the channel holds.                    *)
LEMMA Dropped ==
  ASSUME TypeOK, InOrder, channel' = <<>>, UNCHANGED <<taken, held, delivered>>
  PROVE  InOrder' /\ Sent' \in Nat /\ Sent' <= Sent
<1>1. Len(channel') = 0
  BY EmptySeq
<1>2. Base' = Base /\ DataIn' = 0
  BY <1>1 DEF Base, DataIn, LastIn
<1>3. Base \in Nat /\ DataIn \in Nat
  BY Counts
<1> QED BY <1>2, <1>3 DEF InOrder, Sent

-----------------------------------------------------------------------------
(* The invariant is inductive.                                             *)

LEMMA WorkerOrder ==
  ASSUME IInv, TypeOK', Worker \/ Expire
  PROVE  IInv'
<1> USE DEF IInv, Closed
<1>1. ASSUME Receive PROVE IInv'
  <2>1. PICK e \in ChunkEnds : produced < e /\ produced' = e
    BY <1>1 DEF Receive
  <2>2. UNCHANGED <<channel, reader, upstream, terminalError>>
    BY <1>1 DEF Receive
  <2>3. item' = produced + 1 /\ worker = "receive" /\ worker' = "capacity"
    BY <1>1 DEF Receive, Sends
  <2>4. InOrder' /\ Sent' = Sent /\ (LastIn' <=> LastIn)
    BY <2>2, Unmoved
  <2>5. produced \in Nat /\ e \in Nat /\ e <= Pieces /\ Pieces \in Nat /\ Sent \in Nat
    BY StreamAssumption, Counts DEF TypeOK, StreamAssumption
  <2>6. item' \in 1..Pieces /\ item' /= End /\ item' /= Error
    BY <2>1, <2>3, <2>5, ItemFacts
  <2>7. open => Accounted'
    BY <2>1, <2>2, <2>3, <2>4, <2>5, <2>6 DEF Accounted, Sending, Leaving
  <2>8. ~open => Closed'
    BY <2>1, <2>2, <2>4, <2>5
  <2> QED BY <2>2, <2>4, <2>7, <2>8 DEF Fresh
<1>2. ASSUME ReceiveEnd \/ ReceiveError PROVE IInv'
  <2>1. UNCHANGED <<channel, reader, produced>> /\ worker = "receive" /\ worker' = "capacity"
    BY <1>2 DEF ReceiveEnd, ReceiveError, Sends
  <2>2. InOrder' /\ Sent' = Sent /\ (LastIn' <=> LastIn)
    BY <2>1, Unmoved
  <2>3. \/ item' = End /\ upstream' = "ended"
        \/ item' = Error /\ terminalError'
    BY <1>2 DEF ReceiveEnd, ReceiveError, Sends
  <2>4. open => Accounted'
    BY <2>1, <2>2, <2>3, ItemFacts DEF Accounted, Sending, Leaving, Whole
  <2> QED BY <2>1, <2>2, <2>4 DEF Fresh
<1>3. ASSUME Expire \/ AwaitCapacity \/ Count \/ Uncount \/ Wake PROVE IInv'
  <2>1. UNCHANGED <<channel, reader, source, item, terminalError>>
    BY <1>3 DEF Expire, AwaitCapacity, Count, Uncount, Wake
  <2>2. /\ worker \in Sending
        /\ \/ worker' \in Sending \ {"closed"}
           \/ worker' = worker
           \/ worker' = "giveUp"
           \/ worker' = "leave" /\ item \notin 1..Pieces
           \/ worker = "closed"
    BY <1>3 DEF Expire, AwaitCapacity, Count, Uncount, Wake, RetryOrTimeOut, Sending
  <2>3. /\ InOrder' /\ Sent' = Sent /\ (LastIn' <=> LastIn)
        /\ channel'[Len(channel')] = channel[Len(channel)]
    BY <2>1, Unmoved
  <2>4. item \in 1..Pieces \cup {End, Error}
    <3>1. item \in Items
      BY <2>2 DEF TypeOK, Sending
    <3> QED BY <3>1, ItemFacts
  <2>5. open => Accounted'
    BY <2>1, <2>2, <2>3, <2>4, ItemFacts DEF Accounted, Sending, Leaving, Whole
  <2> QED BY <2>1, <2>3, <2>5 DEF Fresh
<1>4. ASSUME TrySend PROVE IInv'
  <2>1. UNCHANGED <<reader, source, terminalError>> /\ worker = "send"
    BY <1>4 DEF TrySend
  <2>2. CASE worker' \in {"full", "closed"} /\ (worker' = "closed" => ~open)
             /\ UNCHANGED <<channel, item>>
    <3>1. InOrder' /\ Sent' = Sent /\ (LastIn' <=> LastIn)
      BY <2>1, <2>2, Unmoved
    <3>2. open => Accounted'
      BY <2>1, <2>2, <3>1 DEF Accounted, Sending, Leaving, Whole
    <3> QED BY <2>1, <2>2, <3>1, <3>2 DEF Fresh
  <2>3. CASE open /\ channel' = Append(channel, item) /\ AfterSent
    <3>1. item \in Items
      BY <2>1 DEF TypeOK
    <3>2. ~LastIn /\ (item \in 1..Pieces => item = Sent + 1 /\ item <= produced)
      BY <2>1, <2>3 DEF Accounted, Sending, Leaving
    <3>3. /\ InOrder'
          /\ Sent' = IF item \in 1..Pieces THEN Sent + 1 ELSE Sent
          /\ LastIn' <=> item \notin 1..Pieces
          /\ channel'[Len(channel')] = item
      BY <2>1, <2>3, <3>1, <3>2, Entered
    <3>4. produced \in 0..Pieces /\ Pieces \in Nat /\ item \in Nat /\ Sent \in Nat
      BY <3>1, ItemFacts, StreamAssumption, Counts DEF TypeOK, StreamAssumption
    <3>5. CASE item \in 1..Pieces
      <4>1. /\ Sent' = item /\ ~LastIn' /\ item <= produced
        BY <3>2, <3>3, <3>5
      <4>2. \/ item < produced /\ item' = item + 1 /\ worker' = "capacity"
            \/ item = produced /\ worker' = "receive"
        BY <2>3, <4>1, <3>4 DEF AfterSent, Sends
      <4>3. upstream = "open"
        BY <2>1, <2>3, <3>5, <4>1 DEF Accounted, Sending
      <4>4. item < produced => item + 1 /= End /\ item + 1 /= Error
        BY <4>1, <3>4, ItemFacts
      <4>5. Accounted'
        BY <2>1, <4>1, <4>2, <4>3, <4>4, <3>4 DEF Accounted, Sending, Leaving
      <4> QED BY <2>1, <2>3, <3>3, <4>5 DEF Fresh
    <3>6. CASE item \notin 1..Pieces
      <4>1. item \in {End, Error} /\ item > produced
        BY <3>1, <3>4, <3>6, ItemFacts
      <4>2. worker' = "leave" /\ item' = item
        BY <2>3, <4>1, <3>4 DEF AfterSent, Sends
      <4>3. Sent' = Sent /\ LastIn' /\ channel'[Len(channel')] = item
        BY <3>3, <3>6
      <4>4. Accounted'
        BY <2>1, <2>3, <4>1, <4>2, <4>3, ItemFacts DEF Accounted, Sending, Leaving, Whole
      <4> QED BY <2>1, <2>3, <3>3, <4>4 DEF Fresh
    <3> QED BY <3>5, <3>6
  <2> QED BY <1>4, <2>2, <2>3 DEF TrySend
<1>5. ASSUME GiveUp \/ Leave \/ Aborted PROVE IInv'
  <2>1. UNCHANGED <<channel, reader, source, item>> /\ (terminalError => terminalError')
    BY <1>5 DEF GiveUp, Leave, Aborted
  <2>2. /\ InOrder' /\ Sent' = Sent /\ (LastIn' <=> LastIn)
        /\ channel'[Len(channel')] = channel[Len(channel)]
    BY <2>1, Unmoved
  <2>3. \/ worker = "giveUp" /\ worker' = "leave" /\ terminalError'
        \/ worker = "leave" /\ worker' = "stopped" /\ terminalError' = terminalError
        \/ ~open
    BY <1>5 DEF GiveUp, Leave, Aborted
  <2>4. open => Accounted'
    BY <2>1, <2>2, <2>3 DEF Accounted, Sending, Leaving, Whole
  <2> QED BY <2>1, <2>2, <2>4 DEF Fresh
<1> QED BY <1>1, <1>2, <1>3, <1>4, <1>5 DEF Worker

(* What the worker has sent is accounted for while nothing of it is lost.  *)
LEMMA StillAccounted ==
  ASSUME Accounted, UNCHANGED worked, Sent' = Sent,
         LastIn' => LastIn /\ channel'[Len(channel')] = channel[Len(channel)]
  PROVE  Accounted'
BY DEF Accounted, Whole, Sending, Leaving

LEMMA ConsumerOrder ==
  ASSUME IInv, TypeOK', Consumer
  PROVE  IInv'
<1> USE DEF IInv
<1>1. ASSUME open, Reject \/ Abandon PROVE IInv'
  <2>1. /\ channel' = <<>> /\ ~open' /\ client' /= "streaming"
        /\ UNCHANGED <<taken, held, delivered, produced>>
    BY <1>1 DEF Reject, Abandon, DropReceiver
  <2>2. InOrder' /\ Sent' \in Nat /\ Sent' <= Sent
    BY <2>1, Dropped
  <2>3. Sent \in Nat /\ produced \in Nat
    BY Counts, StreamAssumption DEF TypeOK, StreamAssumption
  <2>4. Sent' <= produced'
    BY <1>1, <2>1, <2>2, <2>3 DEF Accounted
  <2> QED BY <2>1, <2>2, <2>4 DEF Closed, Fresh
<1>2. ASSUME open, Take, taken = None, client = "streaming" => held = <<>> PROVE IInv'
  <2>1. UNCHANGED <<worked, open, client, held>>
    BY <1>2 DEF Take
  <2>2. /\ InOrder' /\ Sent' = Sent /\ (LastIn' <=> LastIn)
        /\ LastIn => channel'[Len(channel')] = channel[Len(channel)]
    BY <1>2, Taken
  <2>3. Accounted'
    BY <1>2, <2>1, <2>2, StillAccounted
  <2> QED BY <1>2, <2>1, <2>2, <2>3 DEF Fresh
<1>3. ASSUME Inspect \/ ReleasePiece PROVE IInv'
  <2>1. UNCHANGED <<worked, channel, open, delivered>> /\ open /\ taken /= None /\ taken' = None
    BY <1>3 DEF Inspect, ReleasePiece
  <2>2. held' = Append(held, taken)
    <3>1. CASE Inspect
      BY <3>1 DEF Inspect
    <3>2. CASE ReleasePiece
      <4>1. held = <<>> /\ held' = <<taken>>
        BY <3>2, <2>1 DEF ReleasePiece, Fresh
      <4> QED BY <4>1
    <3> QED BY <1>3, <3>1, <3>2
  <2>3. /\ InOrder' /\ Sent' = Sent /\ (LastIn' <=> LastIn)
        /\ channel'[Len(channel')] = channel[Len(channel)]
    BY <2>1, <2>2, Held
  <2>4. Accounted'
    BY <2>1, <2>3, StillAccounted
  <2> QED BY <2>1, <2>3, <2>4 DEF Fresh
<1>4. ASSUME LookAheadEnd \/ ReadLast PROVE IInv'
  <2>1. /\ UNCHANGED <<worked, open, taken, held, delivered>> /\ open /\ taken = None
        /\ channel /= <<>> /\ Head(channel) \in {End, Error} /\ channel' = Tail(channel)
    BY <1>4 DEF LookAheadEnd, ReadLast, Tell, Waiting, Looking, Await, Reading
  <2>2. InOrder' /\ Sent' = Sent /\ ~LastIn'
    BY <2>1, LastTaken DEF Accounted
  <2>3. Accounted'
    BY <2>1, <2>2, StillAccounted
  <2> QED BY <2>1, <2>2, <2>3 DEF Fresh
<1>5. ASSUME Deliver PROVE IInv'
  <2>1. UNCHANGED <<worked, open, client, taken>> /\ open /\ taken = None
    BY <1>5 DEF Deliver, Reading
  <2>2. /\ InOrder' /\ Sent' = Sent /\ (LastIn' <=> LastIn)
        /\ channel'[Len(channel')] = channel[Len(channel)]
    BY <1>5, Given
  <2>3. Accounted'
    BY <2>1, <2>2, StillAccounted
  <2> QED BY <2>1, <2>2, <2>3 DEF Fresh
<1>6. ASSUME ReadDisconnected \/ ReadTimeout \/ Stall PROVE IInv'
  <2>1. UNCHANGED <<worked, channel, open, taken, held, delivered>> /\ open /\ taken = None
    BY <1>6 DEF ReadDisconnected, ReadTimeout, Stall, Tell, Await, Reading
  <2>2. /\ InOrder' /\ Sent' = Sent /\ (LastIn' <=> LastIn)
        /\ channel'[Len(channel')] = channel[Len(channel)]
    BY <2>1, Unmoved
  <2>3. Accounted'
    BY <2>1, <2>2, StillAccounted
  <2> QED BY <2>1, <2>2, <2>3 DEF Fresh
<1> HIDE DEF IInv
<1>7. ASSUME RejectHeld \/ LookAheadFails \/ Abandon PROVE IInv'
  <2>1. open /\ (Reject \/ Abandon)
    BY <1>7 DEF RejectHeld, LookAheadFails, Abandon, Waiting, Looking
  <2> QED BY <1>1, <2>1
<1>8. ASSUME LookAhead \/ ReadPiece PROVE IInv'
  <2>1. open /\ Take /\ taken = None
    BY <1>8 DEF LookAhead, Waiting, Looking, ReadPiece, Await, Reading
  <2>2. client = "streaming" => held = <<>>
    BY <1>8 DEF LookAhead, Waiting, Looking, ReadPiece, Await
  <2> QED BY <1>2, <2>1, <2>2
<1> QED
  BY <1>3, <1>4, <1>5, <1>6, <1>7, <1>8 DEF Consumer, LookingAhead, Reader

(* From the upstream to the client no piece is lost, repeated or put out of *)
(* order, a body that did not end is never accounted whole without the     *)
(* terminal error, and a dropped receiver leaves nothing behind.           *)
THEOREM Ordered == Spec => []IInv
<1>1. Init => IInv
  <2> SUFFICES ASSUME Init PROVE IInv
    OBVIOUS
  <2>1. TypeOK
    BY TypeInit
  <2>2. Len(delivered) = 0 /\ Len(held) = 0 /\ Len(channel) = 0
    BY EmptySeq DEF Init
  <2>3. Sent = 0 /\ ~LastIn /\ DataIn = 0
    BY <2>2 DEF Init, Sent, Base, DataIn, LastIn
  <2>4. InOrder /\ Fresh
    BY <2>2, <2>3 DEF InOrder, Fresh, Init
  <2>5. Accounted
    BY <2>3 DEF Accounted, Init, Sending, Leaving
  <2> QED BY <2>1, <2>4, <2>5 DEF IInv, Init
<1>2. IInv /\ TypeOK' /\ [Next]_vars => IInv'
  <2>1. ASSUME IInv, UNCHANGED vars PROVE IInv'
    <3>1. TypeOK'
      BY <2>1 DEF vars, IInv, TypeOK
    <3>2. /\ InOrder' /\ Sent' = Sent /\ (LastIn' <=> LastIn)
          /\ channel'[Len(channel')] = channel[Len(channel)]
      BY <2>1, Unmoved DEF vars, IInv
    <3>3. Accounted => Accounted'
      BY <2>1, <3>2, StillAccounted DEF vars
    <3> QED BY <2>1, <3>1, <3>2, <3>3 DEF vars, IInv, Fresh, Closed
  <2>2. ASSUME IInv, TypeOK', Worker \/ Expire PROVE IInv'
    BY <2>2, WorkerOrder
  <2>3. ASSUME IInv, TypeOK', Consumer PROVE IInv'
    BY <2>3, ConsumerOrder
  <2>4. Done => UNCHANGED vars
    BY DEF Done
  <2> QED BY <2>1, <2>2, <2>3, <2>4 DEF Next
<1> QED BY <1>1, <1>2, TypeCorrect, PTL DEF Spec

-----------------------------------------------------------------------------
(* The refinement.                                                         *)

(* What the client has is the first pieces of the upstream.                *)
LEMMA DeliverStep ==
  ASSUME IInv, TypeOK', Deliver
  PROVE  Promise!Deliver
<1> DEFINE n == Len(delivered) + Len(held)
<1>1. /\ InOrder' /\ Sent' = Sent
      /\ Len(delivered') = n
      /\ \A i \in 1..Len(delivered') : delivered'[i] = i
  BY Given DEF IInv
<1>2. client = "streaming" /\ open /\ held /= <<>> /\ taken = None
      /\ UNCHANGED <<upstream, produced, client>>
  BY DEF Deliver, Reading
<1>3. Len(delivered) \in Nat /\ Len(held) \in Nat /\ DataIn \in Nat
      /\ produced \in Nat /\ Len(held) /= 0
  BY <1>2, Counts, EmptySeq, StreamAssumption DEF IInv, TypeOK, StreamAssumption
<1>4. n \in (Len(delivered) + 1)..produced
  BY <1>2, <1>3 DEF IInv, Accounted, Sent, Base
<1>5. delivered' = Promise!FirstPieces(n)
  <2>1. delivered' \in Seq(1..Pieces)
    BY DEF TypeOK
  <2>2. delivered' = [i \in 1..n |-> delivered'[i]]
    BY <1>1, <2>1
  <2> QED BY <1>1, <2>2 DEF Promise!FirstPieces
<1> QED BY <1>2, <1>4, <1>5 DEF Promise!Deliver

(* A body is told complete only when the client has all of it.             *)
LEMMA CompleteStep ==
  ASSUME IInv, ReadLast \/ ReadDisconnected
  PROVE  Promise!Complete \/ Promise!Break
<1>1. /\ client = "streaming" /\ open /\ taken = None /\ held = <<>>
      /\ UNCHANGED <<upstream, produced, delivered>>
  BY DEF ReadLast, ReadDisconnected, Await, Reading, Tell
<1>2. CASE client' = "broken"
  BY <1>1, <1>2 DEF Promise!Break
<1>3. CASE client' = "complete"
  <2>1. Len(held) = 0 /\ Len(delivered) \in Nat /\ DataIn \in Nat /\ Base = Len(delivered)
    BY <1>1, Counts, EmptySeq DEF IInv, Base
  <2>2. Whole /\ Sent = Base
    <3>1. CASE ReadLast
      <4>1. /\ channel /= <<>> /\ Head(channel) = End /\ channel' = Tail(channel)
            /\ UNCHANGED <<taken, held, delivered>>
        BY <1>3, <3>1 DEF ReadLast, Tell
      <4>2. LastIn /\ channel[Len(channel)] = End /\ Sent = Base
        BY <1>1, <4>1, LastTaken DEF IInv, Accounted
      <4> QED BY <1>1, <4>2 DEF IInv, Accounted
    <3>2. CASE ReadDisconnected
      <4>1. channel = <<>> /\ worker = "stopped" /\ ~terminalError
        BY <1>3, <3>2 DEF ReadDisconnected, Tell
      <4>2. Len(channel) = 0
        BY <4>1, EmptySeq
      <4>3. DataIn = 0
        BY <4>2 DEF DataIn, LastIn
      <4> QED BY <1>1, <2>1, <4>1, <4>3 DEF IInv, Accounted, Leaving, Sent
    <3> QED BY <3>1, <3>2
  <2>3. Len(delivered) = produced /\ upstream = "ended"
    BY <2>1, <2>2 DEF Whole
  <2> QED BY <1>1, <1>3, <2>3 DEF Promise!Complete
<1> QED BY <1>2, <1>3 DEF ReadLast, ReadDisconnected, Tell

LEMMA WorkerPromise ==
  ASSUME IInv, Worker \/ Expire
  PROVE  [Promise!Next]_(Promise!vars)
<1> USE DEF Promise!vars
<1>1. CASE Receive
  <2>1. PICK e \in ChunkEnds : produced < e /\ produced' = e
    BY <1>1 DEF Receive
  <2>2. produced \in Nat /\ e \in Nat /\ e <= Pieces
    BY StreamAssumption DEF IInv, TypeOK, StreamAssumption
  <2>3. e \in (produced + 1)..Pieces
    BY <2>1, <2>2, StreamAssumption DEF StreamAssumption
  <2>4. upstream = "open" /\ UNCHANGED <<upstream, client, delivered>>
    BY <1>1 DEF Receive
  <2>5. Promise!Produce
    BY <2>1, <2>3, <2>4 DEF Promise!Produce
  <2> QED BY <2>5 DEF Promise!Next
<1>2. CASE ReceiveEnd \/ ReceiveError
  <2>1. Promise!Finish
    BY <1>2 DEF ReceiveEnd, ReceiveError, Promise!Finish
  <2> QED BY <2>1 DEF Promise!Next
<1>3. CASE Expire \/ AwaitCapacity \/ Count \/ TrySend \/ Uncount \/ Wake \/ GiveUp
           \/ Leave \/ Aborted
  BY <1>3 DEF Expire, AwaitCapacity, Count, TrySend, Uncount, Wake, GiveUp, Leave, Aborted
<1> QED BY <1>1, <1>2, <1>3 DEF Worker

LEMMA ConsumerPromise ==
  ASSUME IInv, TypeOK', Consumer
  PROVE  [Promise!Next]_(Promise!vars)
<1> USE DEF Promise!vars
<1>1. ASSUME Reject, client = "uncommitted" PROVE Promise!Break
  BY <1>1 DEF Reject, Promise!Break
<1>2. CASE RejectHeld \/ LookAheadFails
  <2>1. Reject /\ client = "uncommitted"
    BY <1>2 DEF RejectHeld, LookAheadFails, Waiting, Looking
  <2> QED BY <1>1, <2>1 DEF Promise!Next
<1>3. CASE LookAhead \/ ReadPiece \/ ReleasePiece \/ Stall
  BY <1>3 DEF LookAhead, ReadPiece, Take, ReleasePiece, Stall
<1>4. CASE Inspect \/ LookAheadEnd
  <2>1. client = "uncommitted" /\ client' \in Live /\ UNCHANGED <<upstream, produced, delivered>>
    BY <1>4 DEF Inspect, LookAheadEnd, Waiting, Looking
  <2>2. Promise!Commit \/ UNCHANGED Promise!vars
    BY <2>1 DEF Promise!Commit
  <2> QED BY <2>2 DEF Promise!Next
<1>5. CASE Deliver
  BY <1>5, DeliverStep DEF Promise!Next
<1>6. CASE ReadLast \/ ReadDisconnected
  BY <1>6, CompleteStep DEF Promise!Next
<1>7. CASE ReadTimeout
  <2>1. Promise!Break
    BY <1>7 DEF ReadTimeout, Await, Reading, Tell, Promise!Break
  <2> QED BY <2>1 DEF Promise!Next
<1>8. CASE Abandon
  <2>1. Promise!Break \/ UNCHANGED Promise!vars
    BY <1>8 DEF Abandon, Promise!Break
  <2> QED BY <2>1 DEF Promise!Next
<1> QED
  BY <1>2, <1>3, <1>4, <1>5, <1>6, <1>7, <1>8 DEF Consumer, LookingAhead, Reader

(* The stream keeps the promise of a committed body: its prefetch worker,  *)
(* its lookahead and its reader together hand the client the pieces of the *)
(* upstream in order, and call a body complete only when it is.            *)
THEOREM PromiseKept == Spec => CommittedStreamKept
<1>1. Init => Promise!Init
  BY DEF Init, Promise!Init
<1>2. IInv /\ TypeOK' /\ [Next]_vars => [Promise!Next]_(Promise!vars)
  <2>1. UNCHANGED vars => UNCHANGED Promise!vars
    BY DEF vars, Promise!vars
  <2>2. ASSUME IInv, Worker \/ Expire PROVE [Promise!Next]_(Promise!vars)
    BY <2>2, WorkerPromise
  <2>3. ASSUME IInv, TypeOK', Consumer PROVE [Promise!Next]_(Promise!vars)
    BY <2>3, ConsumerPromise
  <2>4. Done => UNCHANGED vars
    BY DEF Done
  <2> QED BY <2>1, <2>2, <2>3, <2>4 DEF Next
<1> QED BY <1>1, <1>2, Ordered, TypeCorrect, PTL DEF Spec, CommittedStreamKept, Promise!Spec

-----------------------------------------------------------------------------
(* A set of natural numbers that holds 0 and the successor of each of its  *)
(* numbers holds them all.                                                 *)
LEMMA SetInduction ==
  ASSUME NEW T, 0 \in T, \A n \in Nat : n \in T => n + 1 \in T
  PROVE  Nat \subseteq T
<1> SUFFICES ASSUME Nat \ T # {} PROVE FALSE
  OBVIOUS
<1> DEFINE R == OpToRel(<, Nat)
<1>1. IsWellFoundedOn(R, Nat)
  BY NatLessThanWellFounded
<1>2. \A y, m \in Nat : y < m => <<y, m>> \in R
  BY DEF OpToRel
<1> HIDE DEF R
<1>3. PICK m \in Nat \ T : \A y \in Nat \ T : ~(<<y, m>> \in R)
  BY <1>1, WFMin
<1>4. m # 0 /\ m - 1 \in Nat /\ m - 1 < m /\ (m - 1) + 1 = m
  BY <1>3
<1> QED
  BY <1>2, <1>3, <1>4

(* The function that FoldLeft chooses: the sum over a set of positions is  *)
(* that over the set without its last position, and the bytes of that one. *)
Highest(t) == CHOOSE i \in t : \A j \in t : i >= j
AddUp(g, s, t) == IF t = {} THEN 0 ELSE g[t \ {Highest(t)}] + Bytes(s[Highest(t)])
IsFold(g, s, D) == g = [t \in D |-> AddUp(g, s, t)]

LEMMA FoldChosen ==
  ASSUME NEW s
  PROVE  BytesOf(s) = (CHOOSE g : IsFold(g, s, SUBSET (DOMAIN s)))[DOMAIN s]
BY DEF BytesOf, FoldLeft, MapThenFoldSet, IsFold, AddUp, Highest, Max

(* Sets of positions have a last one.                                      *)
LEMMA HighestIsHighest ==
  ASSUME NEW n \in Nat
  PROVE  \A t \in SUBSET (1..n) : t # {} => Highest(t) \in t /\ \A j \in t : j <= Highest(t)
<1> SUFFICES ASSUME NEW t \in SUBSET (1..n), t # {}
             PROVE  Highest(t) \in t /\ \A j \in t : j <= Highest(t)
  OBVIOUS
<1> DEFINE T == {m \in Nat : \A u \in SUBSET (1..m) :
                   u # {} => \E i \in u : \A j \in u : i >= j}
<1>1. 0 \in T
  <2>1. \A u \in SUBSET (1..0) : u = {}
    OBVIOUS
  <2> QED
    BY <2>1
<1>2. ASSUME NEW m \in Nat, m \in T PROVE m + 1 \in T
  <2> SUFFICES ASSUME NEW u \in SUBSET (1..(m + 1)), u # {}
               PROVE  \E i \in u : \A j \in u : i >= j
    OBVIOUS
  <2>1. CASE m + 1 \in u
    BY <2>1
  <2>2. CASE m + 1 \notin u
    <3>1. u \in SUBSET (1..m)
      BY <2>2
    <3> QED
      BY <1>2, <3>1
  <2> QED
    BY <2>1, <2>2
<1>3. Nat \subseteq T
  <2> HIDE DEF T
  <2> QED
    BY <1>1, <1>2, SetInduction
<1>4. \E i \in t : \A j \in t : i >= j
  BY <1>3
<1>5. \A j \in t : j \in Nat
  OBVIOUS
<1> QED
  BY <1>4, <1>5 DEF Highest

LEMMA HighestOfPrefix ==
  ASSUME NEW k \in Nat
  PROVE  Highest(1..(k + 1)) = k + 1 /\ (1..(k + 1)) \ {Highest(1..(k + 1))} = 1..k
<1>1. k + 1 \in 1..(k + 1)
  OBVIOUS
<1>2. Highest(1..(k + 1)) \in 1..(k + 1) /\ \A j \in 1..(k + 1) : j <= Highest(1..(k + 1))
  <2>1. 1..(k + 1) # {} /\ k + 1 \in Nat
    BY <1>1
  <2> QED
    BY <2>1, HighestIsHighest
<1>3. Highest(1..(k + 1)) = k + 1
  BY <1>1, <1>2
<1> QED
  BY <1>3

(* Such a function exists.                                                 *)
LEMMA FoldExists ==
  ASSUME NEW s, NEW n \in Nat
  PROVE  \E g : IsFold(g, s, SUBSET (1..n))
<1> DEFINE T == {m \in Nat : \E g : IsFold(g, s, SUBSET (1..m))}
<1>1. 0 \in T
  <2> DEFINE g == [t \in SUBSET (1..0) |-> 0]
  <2>1. IsFold(g, s, SUBSET (1..0))
    BY DEF IsFold, AddUp
  <2> QED
    BY <2>1
<1>2. ASSUME NEW m \in Nat, m \in T PROVE m + 1 \in T
  <2>1. PICK g : IsFold(g, s, SUBSET (1..m))
    BY <1>2
  <2> DEFINE h == [t \in SUBSET (1..(m + 1)) |-> AddUp(g, s, t)]
  <2>2. \A t \in SUBSET (1..m) : g[t] = AddUp(g, s, t) /\ t \in SUBSET (1..(m + 1))
    BY <2>1 DEF IsFold
  <2>3. ASSUME NEW t \in SUBSET (1..(m + 1)) PROVE AddUp(g, s, t) = AddUp(h, s, t)
    <3>1. CASE t = {}
      BY <3>1 DEF AddUp
    <3>2. CASE t # {}
      <4>1. Highest(t) \in t /\ \A j \in t : j <= Highest(t)
        BY <3>2, m + 1 \in Nat, HighestIsHighest
      <4>2. t \ {Highest(t)} \in SUBSET (1..m)
        <5> SUFFICES ASSUME NEW j \in t, j # Highest(t) PROVE j \in 1..m
          OBVIOUS
        <5>1. j <= Highest(t) /\ Highest(t) \in 1..(m + 1) /\ j \in 1..(m + 1)
          BY <4>1
        <5> QED
          BY <5>1
      <4>3. h[t \ {Highest(t)}] = g[t \ {Highest(t)}]
        BY <2>2, <4>2
      <4> HIDE DEF h
      <4> QED
        BY <4>3 DEF AddUp
    <3> QED
      BY <3>1, <3>2
  <2>4. IsFold(h, s, SUBSET (1..(m + 1)))
    BY <2>3 DEF IsFold
  <2> HIDE DEF h
  <2> QED
    BY <2>4
<1>3. Nat \subseteq T
  <2> HIDE DEF T
  <2> QED
    BY <1>1, <1>2, SetInduction
<1> QED
  BY <1>3

(* The bytes of the prefixes of a sequence.                                *)
PrefixSums(p, s) ==
  /\ p[0] = 0
  /\ \A k \in Nat : k < Len(s) => p[k + 1] = p[k] + Bytes(s[k + 1])

LEMMA PrefixSumsExist ==
  ASSUME NEW S, NEW s \in Seq(S)
  PROVE  \E p : PrefixSums(p, s) /\ p[Len(s)] = BytesOf(s)
<1>1. Len(s) \in Nat /\ DOMAIN s = 1..Len(s)
  BY LenProperties
<1> DEFINE D == 1..Len(s)
           g == CHOOSE g : IsFold(g, s, SUBSET D)
           p == [k \in Nat |-> g[1..k]]
<1>2. IsFold(g, s, SUBSET D)
  BY <1>1, FoldExists
<1>3. BytesOf(s) = g[D]
  BY <1>1, FoldChosen
<1> HIDE DEF g
<1>4. p[0] = 0
  <2>1. g[{}] = AddUp(g, s, {})
    BY <1>2 DEF IsFold
  <2>2. 1..0 = {}
    OBVIOUS
  <2> QED
    BY <2>1, <2>2 DEF AddUp
<1>5. ASSUME NEW k \in Nat, k < Len(s) PROVE p[k + 1] = p[k] + Bytes(s[k + 1])
  <2>1. 1..(k + 1) \in SUBSET D /\ 1..(k + 1) # {}
    <3>1. k + 1 \in 1..(k + 1) /\ \A i \in 1..(k + 1) : i \in 1..Len(s)
      BY <1>1, <1>5
    <3> QED
      BY <3>1
  <2>2. g[1..(k + 1)] = AddUp(g, s, 1..(k + 1))
    BY <1>2, <2>1 DEF IsFold
  <2>3. g[1..(k + 1)] = g[1..k] + Bytes(s[k + 1])
    BY <2>1, <2>2, HighestOfPrefix DEF AddUp
  <2> QED
    BY <2>3
<1>6. PrefixSums(p, s) /\ p[Len(s)] = BytesOf(s)
  BY <1>1, <1>3, <1>4, <1>5 DEF PrefixSums
<1> HIDE DEF p
<1> QED
  BY <1>6

(* A prefix has a natural number of bytes, no fewer than each element.     *)
LEMMA PrefixBounds ==
  ASSUME NEW S, NEW s \in Seq(S), NEW p, PrefixSums(p, s)
  PROVE  \A k \in 0..Len(s) :
           p[k] \in Nat /\ \A i \in 1..k : Bytes(s[i]) <= p[k]
<1> DEFINE T == {k \in Nat : k <= Len(s) =>
                   p[k] \in Nat /\ \A i \in 1..k : Bytes(s[i]) <= p[k]}
<1>0. Len(s) \in Nat
  BY LenProperties
<1>1. 0 \in T
  BY DEF PrefixSums
<1>2. ASSUME NEW k \in Nat, k \in T PROVE k + 1 \in T
  <2> SUFFICES ASSUME k + 1 <= Len(s)
               PROVE  p[k + 1] \in Nat /\ \A i \in 1..(k + 1) : Bytes(s[i]) <= p[k + 1]
    OBVIOUS
  <2>1. p[k + 1] = p[k] + Bytes(s[k + 1])
    BY <1>0 DEF PrefixSums
  <2>2. p[k] \in Nat /\ \A i \in 1..k : Bytes(s[i]) <= p[k]
    BY <1>0, <1>2
  <2>3. \A i \in 1..(k + 1) : Bytes(s[i]) \in Nat
    BY BytesNat
  <2> QED
    BY <2>1, <2>2, <2>3
<1>3. Nat \subseteq T
  <2> HIDE DEF T
  <2> QED
    BY <1>1, <1>2, SetInduction
<1> QED
  BY <1>0, <1>3

(* An empty channel holds no bytes, an item appended adds its bytes, and   *)
(* an item removed takes its bytes away.                                   *)
LEMMA BytesOfFacts ==
  ASSUME NEW S, NEW s \in Seq(S)
  PROVE  /\ BytesOf(s) \in Nat
         /\ \A i \in 1..Len(s) : Bytes(s[i]) <= BytesOf(s)
         /\ s = <<>> => BytesOf(s) = 0
<1>1. PICK p : PrefixSums(p, s) /\ p[Len(s)] = BytesOf(s)
  BY PrefixSumsExist
<1>2. Len(s) \in Nat /\ Len(s) \in 0..Len(s)
  BY LenProperties
<1>3. s = <<>> => Len(s) = 0
  BY EmptySeq
<1> QED
  BY <1>1, <1>2, <1>3, PrefixBounds DEF PrefixSums

LEMMA BytesAppended ==
  ASSUME NEW S, NEW s \in Seq(S), NEW x \in S
  PROVE  BytesOf(Append(s, x)) = BytesOf(s) + Bytes(x)
<1> DEFINE w == Append(s, x)
<1>1. /\ Len(s) \in Nat /\ w \in Seq(S) /\ Len(w) = Len(s) + 1
      /\ \A k \in Nat : k < Len(s) => w[k + 1] = s[k + 1]
      /\ w[Len(s) + 1] = x
  BY AppendProperties, LenProperties
<1> HIDE DEF w
<1>2. PICK p : PrefixSums(p, s) /\ p[Len(s)] = BytesOf(s)
  BY PrefixSumsExist
<1>3. PICK q : PrefixSums(q, w) /\ q[Len(w)] = BytesOf(w)
  BY <1>1, PrefixSumsExist
<1> DEFINE T == {k \in Nat : k <= Len(s) => p[k] = q[k]}
<1>4. 0 \in T
  BY <1>2, <1>3 DEF PrefixSums
<1>5. ASSUME NEW k \in Nat, k \in T PROVE k + 1 \in T
  BY <1>1, <1>2, <1>3, <1>5 DEF PrefixSums
<1>6. Nat \subseteq T
  <2> HIDE DEF T
  <2> QED
    BY <1>4, <1>5, SetInduction
<1>7. q[Len(s)] = BytesOf(s)
  BY <1>1, <1>2, <1>6
<1>8. q[Len(s) + 1] = q[Len(s)] + Bytes(x)
  BY <1>1, <1>3 DEF PrefixSums
<1> QED
  BY <1>1, <1>3, <1>7, <1>8 DEF w

LEMMA BytesRemoved ==
  ASSUME NEW S, NEW s \in Seq(S), s # <<>>
  PROVE  BytesOf(s) = Bytes(Head(s)) + BytesOf(Tail(s))
<1> DEFINE w == Tail(s)
<1>1. /\ Len(s) \in Nat \ {0} /\ w \in Seq(S) /\ Len(s) = Len(w) + 1 /\ Len(w) \in Nat
      /\ \A k \in Nat : k < Len(w) => w[k + 1] = s[(k + 1) + 1]
      /\ Head(s) = s[1]
  BY HeadTailProperties, LenProperties, EmptySeq
<1> HIDE DEF w
<1>2. PICK p : PrefixSums(p, s) /\ p[Len(s)] = BytesOf(s)
  BY PrefixSumsExist
<1>3. PICK q : PrefixSums(q, w) /\ q[Len(w)] = BytesOf(w)
  BY <1>1, PrefixSumsExist
<1> DEFINE T == {k \in Nat : k <= Len(w) => p[k + 1] = Bytes(Head(s)) + q[k]}
<1>4. 0 \in T
  <2>1. p[0 + 1] = 0 + Bytes(s[0 + 1]) /\ q[0] = 0
    BY <1>1, <1>2, <1>3 DEF PrefixSums
  <2> QED
    BY <1>1, <2>1, BytesNat
<1>5. ASSUME NEW k \in Nat, k \in T PROVE k + 1 \in T
  <2> SUFFICES ASSUME k + 1 <= Len(w) PROVE p[(k + 1) + 1] = Bytes(Head(s)) + q[k + 1]
    OBVIOUS
  <2>1. p[k + 1] = Bytes(Head(s)) + q[k]
    BY <1>1, <1>5
  <2>2. p[(k + 1) + 1] = p[k + 1] + Bytes(s[(k + 1) + 1])
    BY <1>1, <1>2 DEF PrefixSums
  <2>3. q[k + 1] = q[k] + Bytes(w[k + 1]) /\ w[k + 1] = s[(k + 1) + 1]
    <3>1. k < Len(w)
      BY <1>1
    <3> QED
      BY <1>1, <1>3, <3>1 DEF PrefixSums
  <2>4. q[k] \in Nat
    BY <1>1, <1>3, PrefixBounds
  <2>5. Bytes(Head(s)) \in Nat /\ Bytes(w[k + 1]) \in Nat
    BY BytesNat
  <2> QED
    BY <2>1, <2>2, <2>3, <2>4, <2>5
<1>6. Nat \subseteq T
  <2> HIDE DEF T
  <2> QED
    BY <1>4, <1>5, SetInduction
<1> QED
  BY <1>1, <1>2, <1>3, <1>6 DEF w

-----------------------------------------------------------------------------
(* The counter.  Above the limit it is one piece that counts alone; and    *)
(* what fitted when the worker looked still fits when it counts, since     *)
(* only the worker adds.                                                   *)
Alone ==
  /\ \E i \in 1..Pieces : queuedBytes = Size[i]
  /\ \A i \in 1..Len(channel) : Bytes(channel[i]) \in {0, queuedBytes}
  /\ Counted \in {0, queuedBytes}
  /\ Bytes(taken) \in {0, queuedBytes}

QueueInv ==
  open => /\ queuedBytes = BytesOf(channel) + Counted + Bytes(taken)
          /\ worker = "count" => Fits
          /\ queuedBytes <= Limit \/ Alone

LEMMA QueueFacts ==
  ASSUME TypeOK
  PROVE  /\ queuedBytes \in Nat /\ Limit \in Nat /\ Counted \in Nat
         /\ Bytes(taken) \in Nat /\ Bytes(item) \in Nat /\ BytesOf(channel) \in Nat
         /\ \A i \in 1..Len(channel) : Bytes(channel[i]) <= BytesOf(channel)
         /\ \A i \in 1..Len(channel) : Bytes(channel[i]) \in Nat
         /\ Bytes(None) = 0
<1>1. channel \in Seq(Items) /\ queuedBytes \in Nat
  BY DEF TypeOK
<1>2. BytesOf(channel) \in Nat /\ \A i \in 1..Len(channel) : Bytes(channel[i]) <= BytesOf(channel)
  BY <1>1, BytesOfFacts
<1>3. Counted \in Nat
  BY BytesNat DEF Counted
<1>4. Bytes(None) = 0
  BY DEF Bytes
<1> QED
  BY <1>1, <1>2, <1>3, <1>4, BytesNat, StreamAssumption DEF StreamAssumption

(* A step that moves no bytes.                                             *)
LEMMA QueueIdle ==
  ASSUME QueueInv, open' => open,
         UNCHANGED <<queuedBytes, channel, taken>>, Counted' = Counted,
         worker' = "count" => Fits'
  PROVE  QueueInv'
BY DEF QueueInv, Alone

(* The worker's steps.                                                     *)
LEMMA QueueWorker ==
  ASSUME TypeOK, TypeOK', QueueInv, Worker \/ Expire
  PROVE  QueueInv'
<1>0. open' = open /\ taken' = taken
  BY DEF Worker, Expire, Receive, ReceiveEnd, ReceiveError, AwaitCapacity, Count, TrySend,
    Uncount, Wake, GiveUp, Leave, Aborted
<1>1. CASE \/ Receive \/ ReceiveEnd \/ ReceiveError \/ AwaitCapacity
           \/ Wake \/ GiveUp \/ Leave \/ Aborted
  <2>1. /\ UNCHANGED <<queuedBytes, channel, taken>> /\ Counted = 0 /\ Counted' = 0
        /\ worker' = "count" => Fits'
    BY <1>1 DEF Receive, ReceiveEnd, ReceiveError, AwaitCapacity, RetryOrTimeOut, Wake,
      GiveUp, Leave, Aborted, Sends, Counted, Fits
  <2> QED
    BY <1>0, <2>1, QueueIdle
<1>2. CASE Expire
  <2>1. /\ UNCHANGED <<queuedBytes, channel, taken, worker, item>> /\ Counted' = Counted
    BY <1>2 DEF Expire, Counted
  <2>2. worker' = "count" /\ open => Fits'
    BY <2>1 DEF QueueInv, Fits
  <2> QED
    BY <1>0, <2>1, <2>2 DEF QueueInv, Alone
<1>3. CASE Count
  <2> SUFFICES ASSUME open PROVE QueueInv'
    BY <1>0 DEF QueueInv
  <2>1. /\ queuedBytes' = queuedBytes + Bytes(item) /\ UNCHANGED <<channel, item>>
        /\ worker = "count" /\ Counted = 0 /\ Counted' = Bytes(item) /\ worker' = "send"
    BY <1>3 DEF Count, Counted
  <2>2. queuedBytes = BytesOf(channel) + Bytes(taken) /\ Fits
    BY <2>1, QueueFacts DEF QueueInv
  <2>3. queuedBytes' = BytesOf(channel') + Counted' + Bytes(taken')
    BY <1>0, <2>1, <2>2, QueueFacts
  <2>4. CASE queuedBytes + Bytes(item) <= Limit
    BY <2>1, <2>3, <2>4 DEF QueueInv
  <2>5. CASE Bytes(item) > Limit /\ queuedBytes = 0
    <3>1. Bytes(taken) = 0 /\ \A i \in 1..Len(channel) : Bytes(channel[i]) = 0
      BY <2>2, <2>5, QueueFacts
    <3>2. queuedBytes' = Bytes(item)
      BY <2>1, <2>5, QueueFacts
    <3>3. item \in 1..Pieces /\ Bytes(item) = Size[item]
      BY <2>5, QueueFacts DEF Bytes
    <3>4. Alone'
      BY <1>0, <2>1, <3>1, <3>2, <3>3 DEF Alone
    <3> QED
      BY <2>1, <2>3, <3>4 DEF QueueInv
  <2> QED
    BY <2>2, <2>4, <2>5 DEF Fits
<1>4. CASE TrySend
  <2> SUFFICES ASSUME open PROVE QueueInv'
    BY <1>0 DEF QueueInv
  <2>1. queuedBytes' = queuedBytes /\ worker' # "count" /\ worker = "send" /\ Counted = Bytes(item)
    BY <1>4 DEF TrySend, AfterSent, Sends, Counted
  <2>2. CASE channel' = channel /\ worker' = "full" /\ item' = item
    <3>1. Counted' = Counted
      BY <2>1, <2>2 DEF Counted
    <3> QED
      BY <1>0, <2>1, <2>2, <3>1, QueueIdle
  <2>3. CASE channel' = Append(channel, item) /\ worker' \in {"capacity", "receive", "leave"}
    <3>1. channel \in Seq(Items) /\ item \in Items
      BY <2>1 DEF TypeOK
    <3>2. BytesOf(channel') = BytesOf(channel) + Bytes(item)
      BY <2>3, <3>1, BytesAppended
    <3>3. Counted' = 0
      BY <2>3 DEF Counted
    <3>4. queuedBytes' = BytesOf(channel') + Counted' + Bytes(taken')
      BY <1>0, <2>1, <3>2, <3>3, QueueFacts DEF QueueInv
    <3>5. ASSUME Alone PROVE Alone'
      <4>1. \A i \in 1..Len(channel') :
              (i \in 1..Len(channel) /\ channel'[i] = channel[i]) \/ channel'[i] = item
        BY <2>3, <3>1, AppendProperties, LenProperties
      <4> QED
        BY <1>0, <2>1, <3>3, <3>5, <4>1 DEF Alone
    <3> QED
      BY <2>1, <3>4, <3>5 DEF QueueInv
  <2> QED
    BY <1>4, <2>2, <2>3 DEF TrySend, AfterSent, Sends
<1>5. CASE Uncount
  <2> SUFFICES ASSUME open PROVE QueueInv'
    BY <1>0 DEF QueueInv
  <2>1. /\ Counted = Bytes(item) /\ Counted' = 0 /\ channel' = channel /\ worker' # "count"
        /\ queuedBytes' = IF Bytes(item) <= queuedBytes THEN queuedBytes - Bytes(item) ELSE 0
    BY <1>5 DEF Uncount, RetryOrTimeOut, Counted, ReleaseBytes
  <2>2. queuedBytes = BytesOf(channel) + Bytes(item) + Bytes(taken)
    BY <2>1 DEF QueueInv
  <2>3. queuedBytes' = BytesOf(channel) + Bytes(taken) /\ queuedBytes' <= queuedBytes
    BY <2>1, <2>2, QueueFacts
  <2>4. queuedBytes' = BytesOf(channel') + Counted' + Bytes(taken')
    BY <1>0, <2>1, <2>3, QueueFacts
  <2>5. ASSUME Alone PROVE Alone' \/ queuedBytes' = 0
    <3>1. Bytes(item) \in {0, queuedBytes}
      BY <2>1, <2>5 DEF Alone
    <3>2. queuedBytes' = queuedBytes \/ queuedBytes' = 0
      BY <2>1, <3>1, QueueFacts
    <3>3. ASSUME queuedBytes' = queuedBytes PROVE Alone'
      BY <1>0, <2>1, <2>5, <3>3 DEF Alone
    <3> QED
      BY <3>2, <3>3
  <2>6. queuedBytes' <= Limit \/ Alone'
    <3>1. queuedBytes' \in Nat /\ queuedBytes \in Nat /\ Limit \in Nat
      BY QueueFacts DEF TypeOK
    <3>2. queuedBytes <= Limit \/ Alone
      BY DEF QueueInv
    <3> QED
      BY <2>3, <2>5, <3>1, <3>2
  <2> QED
    BY <2>1, <2>4, <2>6 DEF QueueInv
<1> QED
  BY <1>1, <1>2, <1>3, <1>4, <1>5 DEF Worker

(* The consumer takes items out of the channel and uncounts what it took.  *)
LEMMA QueueTaken ==
  ASSUME TypeOK, QueueInv, open, open' = open, channel # <<>>, channel' = Tail(channel),
         UNCHANGED <<queuedBytes, worker, item>>, taken = None,
         Bytes(taken') = Bytes(Head(channel))
  PROVE  QueueInv'
<1>1. channel \in Seq(Items)
  BY DEF TypeOK
<1>2. BytesOf(channel) = Bytes(Head(channel)) + BytesOf(channel')
  BY <1>1, BytesRemoved
<1>3. BytesOf(channel') \in Nat /\ Bytes(Head(channel)) \in Nat
  BY <1>1, HeadTailProperties, BytesOfFacts, BytesNat
<1>4. Counted' = Counted
  BY DEF Counted
<1>5. queuedBytes' = BytesOf(channel') + Counted' + Bytes(taken')
  BY <1>2, <1>3, <1>4, QueueFacts DEF QueueInv
<1>6. ASSUME Alone PROVE Alone'
  <2>1. /\ Len(channel') = Len(channel) - 1 /\ Len(channel) \in Nat \ {0}
        /\ \A i \in 1..Len(channel') : channel'[i] = channel[i + 1]
        /\ Head(channel) = channel[1]
    BY <1>1, HeadTailProperties, LenProperties, EmptySeq
  <2>2. \A i \in 1..Len(channel') : Bytes(channel'[i]) \in {0, queuedBytes}
    BY <1>6, <2>1 DEF Alone
  <2>3. Bytes(Head(channel)) \in {0, queuedBytes}
    BY <1>6, <2>1 DEF Alone
  <2> QED
    BY <1>4, <1>6, <2>2, <2>3 DEF Alone
<1>7. worker' = "count" => Fits'
  BY DEF QueueInv, Fits
<1> QED
  BY <1>5, <1>6, <1>7 DEF QueueInv

LEMMA QueueUncounted ==
  ASSUME TypeOK, TypeOK', QueueInv, open, open' = open, UNCHANGED <<channel, worker, item>>,
         ReleaseBytes(Bytes(taken)), taken' = None
  PROVE  QueueInv'
<1>1. queuedBytes' = IF Bytes(taken) <= queuedBytes THEN queuedBytes - Bytes(taken) ELSE 0
  BY DEF ReleaseBytes
<1>2. queuedBytes = BytesOf(channel) + Counted + Bytes(taken)
  BY DEF QueueInv
<1>3. Counted' = Counted /\ Bytes(taken') = 0
  BY QueueFacts DEF Counted
<1>4. queuedBytes' = BytesOf(channel) + Counted /\ queuedBytes' <= queuedBytes
  BY <1>1, <1>2, QueueFacts
<1>5. queuedBytes' = BytesOf(channel') + Counted' + Bytes(taken')
  BY <1>3, <1>4, QueueFacts
<1>6. ASSUME Alone PROVE Alone' \/ queuedBytes' = 0
  <2>1. Bytes(taken) \in {0, queuedBytes}
    BY <1>6 DEF Alone
  <2>2. queuedBytes' = queuedBytes \/ queuedBytes' = 0
    BY <1>1, <2>1, QueueFacts
  <2>3. ASSUME queuedBytes' = queuedBytes PROVE Alone'
    BY <1>3, <1>6, <2>3 DEF Alone
  <2> QED
    BY <2>2, <2>3
<1>7. queuedBytes' <= Limit \/ Alone'
  <2>1. queuedBytes' \in Nat /\ queuedBytes \in Nat /\ Limit \in Nat
    BY QueueFacts DEF TypeOK
  <2>2. queuedBytes <= Limit \/ Alone
    BY DEF QueueInv
  <2> QED
    BY <1>4, <1>6, <2>1, <2>2
<1>8. worker' = "count" => Fits'
  <2>1. queuedBytes' \in Nat
    BY DEF TypeOK
  <2> QED
    BY <1>4, <2>1, QueueFacts DEF QueueInv, Fits
<1> QED
  BY <1>5, <1>7, <1>8 DEF QueueInv

LEMMA QueueConsumer ==
  ASSUME TypeOK, TypeOK', QueueInv, Consumer
  PROVE  QueueInv'
<1>1. CASE ~open'
  BY <1>1 DEF QueueInv
<1>2. CASE Deliver \/ ReadDisconnected \/ ReadTimeout \/ Stall
  <2>1. UNCHANGED <<queuedBytes, channel, taken, worker, item, open>>
    BY <1>2 DEF Deliver, ReadDisconnected, ReadTimeout, Tell, Stall
  <2> QED
    BY <2>1 DEF QueueInv, Alone, Counted, Fits
<1>3. CASE LookAhead \/ ReadPiece
  BY <1>3, QueueTaken DEF LookAhead, ReadPiece, Waiting, Looking, Await, Reading, Take
<1>4. CASE LookAheadEnd \/ ReadLast
  <2>1. /\ open /\ open' = open /\ taken = None /\ channel # <<>> /\ channel' = Tail(channel)
        /\ UNCHANGED <<queuedBytes, worker, item, taken>> /\ Head(channel) \in {End, Error}
    BY <1>4 DEF LookAheadEnd, ReadLast, Waiting, Looking, Await, Reading, Tell
  <2>2. Bytes(Head(channel)) = 0 /\ Bytes(taken') = 0
    BY <2>1, ItemFacts, QueueFacts DEF Bytes
  <2> QED
    BY <2>1, <2>2, QueueTaken
<1>5. CASE Inspect \/ ReleasePiece
  <2>1. /\ open /\ open' = open /\ taken' = None /\ ReleaseBytes(Bytes(taken))
        /\ UNCHANGED <<channel, worker, item>>
    BY <1>5 DEF Inspect, ReleasePiece
  <2> QED
    BY <2>1, QueueUncounted
<1>6. CASE RejectHeld \/ LookAheadFails \/ Abandon
  <2>1. ~open'
    BY <1>6 DEF RejectHeld, LookAheadFails, Abandon, Reject, DropReceiver
  <2> QED
    BY <1>1, <2>1
<1> QED
  BY <1>2, <1>3, <1>4, <1>5, <1>6 DEF Consumer, LookingAhead, Reader

LEMMA QueueInit == Init => QueueInv
<1> SUFFICES ASSUME Init PROVE QueueInv
  OBVIOUS
<1>1. /\ channel = <<>> /\ channel \in Seq(Items) /\ queuedBytes = 0
      /\ worker = "receive" /\ taken = None
  BY NoItems DEF Init
<1>2. BytesOf(channel) = 0 /\ Bytes(taken) = 0 /\ Counted = 0
  BY <1>1, BytesOfFacts, QueueFacts, TypeInit DEF Counted
<1>3. queuedBytes <= Limit
  BY <1>1, StreamAssumption DEF StreamAssumption
<1> QED
  BY <1>1, <1>2, <1>3 DEF QueueInv

(* The counter of buffered bytes is exact for any pieces, sizes and limit: *)
(* it never wraps or stops at zero below the bytes it uncounts, and passes *)
(* the limit for one oversized piece alone.                                *)
THEOREM QueuedBytesCorrect == Spec => []QueuedBytesExact
<1>1. QueueInv /\ TypeOK /\ TypeOK' /\ [Next]_vars => QueueInv'
  <2>1. ASSUME QueueInv, UNCHANGED vars PROVE QueueInv'
    BY <2>1 DEF vars, QueueInv, Alone, Counted, Fits
  <2>2. Done => UNCHANGED vars
    BY DEF Done
  <2> QED
    BY <2>1, <2>2, QueueWorker, QueueConsumer DEF Next
<1>2. QueueInv => QueuedBytesExact
  BY DEF QueueInv, QueuedBytesExact, Alone
<1> QED
  BY <1>1, <1>2, QueueInit, TypeCorrect, PTL DEF Spec
=============================================================================
