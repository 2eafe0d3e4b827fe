--------------------------- MODULE ResponseStream ---------------------------
(***************************************************************************)
(* The body of one streamed upstream response on its way to the client.    *)
(* An async worker reads the upstream and hands the body over, piece by    *)
(* piece, through a channel of a few slots whose bytes are counted apart.  *)
(* The request first looks ahead: it holds pieces until they show output   *)
(* (the response is committed, or retained as a failure) or it rejects     *)
(* the stream.  Then the client's thread reads the held pieces and the     *)
(* rest.  Dropping the stream closes the channel and aborts the worker,    *)
(* which notices at its next await.                                        *)
(*                                                                         *)
(* A piece is its number; a chunk of the upstream may be several pieces.   *)
(* A panic of the worker and the end of the async runtime are left out.    *)
(***************************************************************************)
EXTENDS Naturals, Sequences, SequencesExt

CONSTANTS
  Pieces,     \* how many pieces the upstream may send
  Size,       \* the bytes of each piece
  ChunkEnds,  \* the pieces that end a chunk of the upstream
  Slots,      \* RUNTIME_PROXY_PREFETCH_QUEUE_CAPACITY
  Limit       \* max_buffered_bytes

ASSUME StreamAssumption ==
  /\ Pieces \in Nat
  /\ Size \in [1..Pieces -> Nat]
  /\ ChunkEnds \subseteq 1..Pieces
  /\ Pieces > 0 => Pieces \in ChunkEnds
  /\ Slots \in Nat \ {0}
  /\ Limit \in Nat \ {0}

VARIABLES
  upstream,       \* how the upstream body has ended, if it has
  produced,       \* the pieces read from it
  worker,         \* the next step of the worker
  item,           \* what it is sending
  expired,        \* timeout_ms has passed since it began to send the item
  queuedBytes,    \* the counter of buffered bytes
  terminalError,  \* whether the shared terminal error is set
  channel,        \* the items in the channel
  open,           \* whether its receiver lives
  client,         \* what the client has been told
  taken,          \* a received piece whose bytes are still counted
  held,           \* received pieces the client has not got
  delivered,      \* the pieces the client has got
  stalled         \* the client has stopped reading

sending == <<item, expired>>
source  == <<upstream, produced>>
reader  == <<open, client, taken, held, delivered, stalled>>
vars == <<source, worker, sending, queuedBytes, terminalError, channel, reader>>

None  == 0
End   == Pieces + 1
Error == Pieces + 2
Items == 1..Error

Bytes(x) == IF x \in 1..Pieces THEN Size[x] ELSE 0
BytesOf(s) == FoldLeft(LAMBDA n, x : n + Bytes(x), 0, s)

Connected == worker /= "stopped"
Live == {"uncommitted", "streaming"}

TypeOK ==
  /\ upstream \in {"open", "ended", "failed"}
  /\ produced \in 0..Pieces
  /\ worker \in {"receive", "capacity", "count", "send", "full", "closed",
                 "sleep", "giveUp", "leave", "stopped"}
  /\ item \in Items \cup {None}
  /\ item = None => worker \in {"receive", "stopped"}
  /\ queuedBytes \in Nat
  /\ channel \in Seq(Items) /\ Len(channel) <= Slots
  /\ client \in Live \cup {"complete", "broken"}
  /\ taken \in 0..Pieces
  /\ held \in Seq(1..Pieces) /\ delivered \in Seq(1..Pieces)
  /\ expired \in BOOLEAN /\ terminalError \in BOOLEAN
  /\ open \in BOOLEAN /\ stalled \in BOOLEAN

Init ==
  /\ upstream = "open" /\ produced = 0
  /\ worker = "receive" /\ item = None /\ expired = FALSE
  /\ queuedBytes = 0 /\ terminalError = FALSE
  /\ channel = <<>> /\ open = TRUE
  /\ client = "uncommitted" /\ taken = None
  /\ held = <<>> /\ delivered = <<>> /\ stalled = FALSE

-----------------------------------------------------------------------------
(* The worker.                                                             *)

Sends(x) ==
  /\ item' = x /\ expired' = FALSE
  /\ worker' = "capacity"

(* The next chunk arrives: its pieces are sent one after the other.        *)
Receive ==
  /\ worker = "receive" /\ upstream = "open"
  /\ \E e \in ChunkEnds :
       /\ produced < e
       /\ \A c \in ChunkEnds : produced < c => e <= c
       /\ produced' = e
  /\ Sends(produced + 1)
  /\ UNCHANGED <<upstream, queuedBytes, terminalError, channel, reader>>

ReceiveEnd ==
  /\ worker = "receive" /\ upstream = "open"
  /\ upstream' = "ended"
  /\ Sends(End)
  /\ UNCHANGED <<produced, queuedBytes, terminalError, channel, reader>>

(* The upstream fails or is idle too long.                                 *)
ReceiveError ==
  /\ worker = "receive" /\ upstream = "open"
  /\ upstream' = "failed"
  /\ terminalError' = TRUE
  /\ Sends(Error)
  /\ UNCHANGED <<produced, queuedBytes, channel, reader>>

Expire ==
  /\ worker \in {"capacity", "count", "send", "full", "closed",
                 "sleep"}
  /\ ~expired /\ expired' = TRUE
  /\ UNCHANGED <<source, worker, item, queuedBytes, terminalError, channel,
                 reader>>

(* Mutant: the retries of a send are not bounded. *)
RetryForever == worker' = "sleep"

(* The send has not succeeded: sleep, or report a timeout.  Only a timeout *)
(* of data sets the terminal error; that of the last item is ignored.      *)
RetryOrTimeOut ==
  \/ ~expired /\ worker' = "sleep"
  \/ expired /\ item \in 1..Pieces /\ worker' = "giveUp"
  \/ expired /\ item \notin 1..Pieces /\ worker' = "leave"

Fits == \/ Bytes(item) > Limit /\ queuedBytes = 0
        \/ queuedBytes + Bytes(item) <= Limit

AwaitCapacity ==
  /\ worker = "capacity"
  /\ \/ Fits /\ worker' = "count"
     \/ ~Fits /\ RetryOrTimeOut
  /\ UNCHANGED <<source, sending, queuedBytes, terminalError, channel, reader>>

Count ==
  /\ worker = "count" /\ worker' = "send"
  /\ queuedBytes' = queuedBytes + Bytes(item)
  /\ UNCHANGED <<source, sending, terminalError, channel, reader>>

(* Next in the chunk, next chunk, or nothing more after the last item.     *)
AfterSent ==
  \/ item < produced /\ Sends(item + 1)
  \/ item = produced /\ worker' = "receive" /\ UNCHANGED sending
  \/ item > produced /\ worker' = "leave" /\ UNCHANGED sending

TrySend ==
  /\ worker = "send"
  /\ \/ /\ open /\ Len(channel) < Slots
        /\ channel' = Append(channel, item)
        /\ AfterSent
     \/ /\ open /\ Len(channel) = Slots /\ worker' = "full"
        /\ UNCHANGED <<channel, sending>>
     \/ /\ ~open /\ worker' = "closed"
        /\ UNCHANGED <<channel, sending>>
  /\ UNCHANGED <<source, queuedBytes, terminalError, reader>>

ReleaseBytes(n) ==
  queuedBytes' = IF n <= queuedBytes THEN queuedBytes - n ELSE 0

(* Mutant: a refused piece stays counted. *)
UncountNothing ==
  /\ \/ worker = "full" /\ RetryOrTimeOut
     \/ worker = "closed" /\ worker' = "leave"
  /\ UNCHANGED <<source, sending, queuedBytes, terminalError, channel, reader>>

Uncount ==
  /\ ReleaseBytes(Bytes(item))
  /\ \/ worker = "full" /\ RetryOrTimeOut
     \/ worker = "closed" /\ worker' = "leave"
  /\ UNCHANGED <<source, sending, terminalError, channel, reader>>

Wake ==
  /\ worker = "sleep" /\ worker' = "capacity"
  /\ UNCHANGED <<source, sending, queuedBytes, terminalError, channel, reader>>

(* Mutant: a timeout of data goes unreported. *)
GiveUpSilently ==
  /\ worker = "giveUp" /\ worker' = "leave"
  /\ UNCHANGED <<source, sending, queuedBytes, terminalError, channel, reader>>

GiveUp ==
  /\ worker = "giveUp" /\ worker' = "leave"
  /\ terminalError' = TRUE
  /\ UNCHANGED <<source, sending, queuedBytes, channel, reader>>

Leave ==
  /\ worker = "leave" /\ worker' = "stopped"
  /\ UNCHANGED <<source, sending, queuedBytes, terminalError, channel, reader>>

(* An aborted worker is dropped where it awaits.                           *)
Aborted ==
  /\ ~open
  /\ worker \in {"receive", "sleep"} /\ worker' = "stopped"
  /\ UNCHANGED <<source, sending, queuedBytes, terminalError, channel, reader>>

Worker == \/ Receive \/ ReceiveEnd \/ ReceiveError \/ AwaitCapacity \/ Count
          \/ TrySend \/ Uncount \/ Wake \/ GiveUp \/ Leave \/ Aborted

-----------------------------------------------------------------------------
(* The consumer: the lookahead of the request, then the client's reader.   *)

worked == <<source, worker, sending, terminalError>>

DropReceiver == open' = FALSE /\ channel' = <<>>

Reject ==
  /\ client' = "broken"
  /\ DropReceiver
  /\ UNCHANGED <<worked, queuedBytes, taken, held, delivered, stalled>>

Looking == client = "uncommitted" /\ taken = None /\ open

(* Keep looking while the held prefix is below the limit, else reject; the *)
(* deadline may pass at any time.                                          *)
Waiting == Looking /\ BytesOf(held) < Limit

RejectHeld == Looking /\ Reject

Take ==
  /\ channel /= <<>> /\ Head(channel) \in 1..Pieces
  /\ channel' = Tail(channel)
  /\ taken' = Head(channel)
  /\ UNCHANGED <<worked, queuedBytes, open, client, held, delivered, stalled>>

LookAhead == Waiting /\ Take

(* The piece is held; with it the inspection may find output or a failure. *)
Inspect ==
  /\ client = "uncommitted" /\ taken /= None /\ open
  /\ ReleaseBytes(Bytes(taken))
  /\ held' = Append(held, taken) /\ taken' = None
  /\ client' \in Live
  /\ UNCHANGED <<worked, channel, open, delivered, stalled>>

(* At the end of the body the held prefix is inspected once more.          *)
LookAheadEnd ==
  /\ Waiting /\ channel /= <<>> /\ Head(channel) = End
  /\ channel' = Tail(channel)
  /\ client' = "streaming"
  /\ UNCHANGED <<worked, queuedBytes, open, taken, held, delivered, stalled>>

LookAheadFails ==
  /\ Waiting
  /\ \/ channel /= <<>> /\ Head(channel) \in {End, Error}
     \/ channel = <<>> /\ ~Connected
  /\ Reject

LookingAhead == RejectHeld \/ LookAhead \/ Inspect \/ LookAheadEnd \/ LookAheadFails

Reading == client = "streaming" /\ ~stalled /\ open /\ taken = None

Deliver ==
  /\ Reading /\ held /= <<>>
  /\ delivered' = delivered \o held /\ held' = <<>>
  /\ UNCHANGED <<worked, queuedBytes, channel, open, client, taken, stalled>>

Await == Reading /\ held = <<>>

ReadPiece == Await /\ Take

ReleasePiece ==
  /\ client = "streaming" /\ taken /= None /\ open
  /\ ReleaseBytes(Bytes(taken))
  /\ held' = <<taken>> /\ taken' = None
  /\ UNCHANGED <<worked, channel, open, client, delivered, stalled>>

Tell(c) ==
  /\ client' = c
  /\ UNCHANGED <<worked, queuedBytes, open, taken, held, delivered, stalled>>

ReadLast ==
  /\ Await /\ channel /= <<>> /\ Head(channel) \in {End, Error}
  /\ channel' = Tail(channel)
  /\ Tell(IF Head(channel) = End THEN "complete" ELSE "broken")

ReadDisconnected ==
  /\ Await /\ channel = <<>> /\ ~Connected
  /\ UNCHANGED channel
  /\ Tell(IF terminalError THEN "broken" ELSE "complete")

ReadTimeout ==
  /\ Await /\ channel = <<>>
  /\ UNCHANGED channel
  /\ Tell("broken")

Reader == \/ Deliver \/ ReadPiece \/ ReleasePiece \/ ReadLast
          \/ ReadDisconnected \/ ReadTimeout

(* The client may stop reading for ever, and once handed over the stream   *)
(* may be dropped: with the connection, for a retry, or when it has ended. *)
Stall ==
  /\ client = "streaming" /\ open /\ taken = None
  /\ ~stalled /\ stalled' = TRUE
  /\ UNCHANGED <<worked, queuedBytes, channel, open, client, taken, held,
                 delivered>>

Abandon ==
  /\ open /\ client /= "uncommitted"
  /\ DropReceiver
  /\ client' = IF client \in Live THEN "broken" ELSE client
  /\ UNCHANGED <<worked, queuedBytes, taken, held, delivered, stalled>>

Consumer == LookingAhead \/ Reader \/ Stall \/ Abandon

Done ==
  /\ worker = "stopped" /\ (stalled \/ client \notin Live)
  /\ UNCHANGED vars

Next == Worker \/ Expire \/ Consumer \/ Done

(* The worker and its timers run; so does the lookahead, a task of the     *)
(* same runtime; so does the reader, until the client stops reading.       *)
Fairness ==
  /\ WF_vars(Worker)
  /\ WF_vars(Expire)
  /\ WF_vars(LookingAhead)
  /\ WF_vars(Reader)

Spec == Init /\ [][Next]_vars /\ Fairness

-----------------------------------------------------------------------------
(* The counter of buffered bytes (queued_bytes, which the worker raises    *)
(* before it sends and both sides lower) is exact while the receiver       *)
(* lives: the bytes in the channel, those counted for a send under way or  *)
(* just refused, and those of the piece just taken.  So it never passes    *)
(* max_buffered_bytes, but for one oversized piece alone.                  *)
Counted == IF worker \in {"send", "full", "closed"} THEN Bytes(item) ELSE 0

QueuedBytesExact ==
  open => /\ queuedBytes = BytesOf(channel) + Counted + Bytes(taken)
          /\ \/ queuedBytes <= Limit
             \/ \E i \in 1..Pieces : queuedBytes = Size[i]

(* The reader and its worker keep the promise of a committed body: no      *)
(* piece is lost, repeated or reordered between lookahead and reader, and  *)
(* a channel that closes without its last item (receive_next_chunk on      *)
(* Disconnected) never makes a truncated body look complete.               *)
Promise == INSTANCE CommittedStream

CommittedStreamKept == Promise!Spec

(* However the client behaves, the worker ends, also when nobody drains    *)
(* its channel; and unless the client stops reading, it learns how the     *)
(* response ended.                                                         *)
EveryStreamEnds ==
  <>(worker = "stopped" /\ (stalled \/ client \notin Live))
=============================================================================
