------------------------------- MODULE Framing -------------------------------
(* The frames of an MTalk connection (src/client/mtalk.go): writeMessage puts a
   tag, the length as a varint and the encoded message on the connection, piece
   by piece and under writeMux; readMessage takes them off byte by byte.

   One connection in one direction.  The stream is a sequence of pieces: single
   bytes, and the body of a frame as one piece of n bytes, which reads and losses
   can shorten.  The writers are goroutines of this program (the login of a
   Connect and the read loop of an older connection) or, where the stream is the
   one this program reads, the server; its varints may be longer than need be. *)
EXTENDS Varint, SequencesExt

CONSTANTS
    Writers,    \* goroutines that call writeMessage
    Frames,     \* what they write: [tag, size, length: the varint, good: it parses]
    MaxFrames   \* bound of the model: frames begun

VARIABLES
    writeMux,   \* who holds it
    todo,       \* the pieces its holder has still to write
    begun,      \* the frames begun, in the order of writeMux
    written,    \* those written to the end
    stream,     \* the pieces on the way
    broken,     \* the connection is gone
    at,         \* where readMessage is: tag, length, body or over
    header,     \* the tag and the groups of the length read so far
    need,       \* the bytes of the body still to come
    streamId,   \* frames read
    read,       \* those frames
    readErr     \* what ended the loop

writeVars == <<writeMux, todo, begun, written>>
readVars  == <<at, header, need, streamId, read, readErr>>
frameVars == <<writeVars, stream, broken, readVars>>

maxMessageSize == 33554432
Reading == {"tag", "length", "body"}
NoHeader == [tag |-> 0, groups |-> <<>>, good |-> TRUE]

\* newMessageForTag knows HeartbeatPing, HeartbeatAck, LoginRequest,
\* LoginResponse, Close, IqStanza and DataMessageStanza.
newMessageForTag == {0, 1, 2, 3, 4, 7, 8}

\* writeVarIntLocked: of a length it makes what encodeVarint makes of it.
VarInt(length) == encodeVarint(length)

\* readVarInt: the number of these groups, of which it takes six at most.  The
\* int64 of the code holds all of it; here every number from 2^31 on, which
\* readBytes refuses, is the same.
Huge == 2147483647
Number(groups) ==
    LET d(i) == IF i <= Len(groups) THEN groups[i] ELSE 0
    IN IF d(5) >= 8 \/ d(6) > 0 THEN Huge
       ELSE d(1) + 128 * (d(2) + 128 * (d(3) + 128 * (d(4) + 128 * d(5))))

\* The seven bits of each byte.
Groups(length) == [i \in 1..Len(length) |-> length[i] % 128]

\* What a caller or a server writes: its length is a varint of its size.
ASSUME FramingAssumption ==
    /\ MaxFrames \in Nat
    /\ "none" \notin Writers
    /\ \A f \in Frames :
         /\ f.tag \in 0..255 /\ f.size \in Nat /\ f.good \in BOOLEAN
         /\ f.length \in Seq(0..255) /\ f.length # <<>>
         /\ \A i \in 1..Len(f.length) : f.length[i] >= 128 <=> i < Len(f.length)
         /\ Number(Groups(f.length)) = IF f.size < Huge THEN f.size ELSE Huge

Byte(b, f) == [n |-> 1, byte |-> b, good |-> f.good]
Body(f) == [n |-> f.size, byte |-> 0, good |-> f.good]
Pieces(f) ==
    <<Byte(f.tag, f)>> \o [i \in 1..Len(f.length) |-> Byte(f.length[i], f)]
    \o (IF f.size = 0 THEN <<>> ELSE <<Body(f)>>)

FrameInit ==
    /\ writeMux = "none" /\ todo = <<>> /\ begun = <<>> /\ written = <<>>
    /\ stream = <<>> /\ broken = FALSE
    /\ at = "tag" /\ header = NoHeader /\ need = 0 /\ streamId = 0 /\ read = <<>>
    /\ readErr = "nil"

------------------------------------------------------------------------------
(* writeMessage. *)

BeginUnlocked(w, f) == \* mutant: without writeMux, amid what another writes
    /\ Len(begun) < MaxFrames
    /\ writeMux' = w
    /\ todo' = Pieces(f) \o todo
    /\ begun' = Append(begun, f)
    /\ UNCHANGED <<written, stream, broken, readVars>>

LockAndBegin(w, f) ==
    /\ writeMux = "none"
    /\ Len(begun) < MaxFrames
    /\ writeMux' = w
    /\ todo' = Pieces(f)
    /\ begun' = Append(begun, f)
    /\ UNCHANGED <<written, stream, broken, readVars>>

\* writeByteLocked and writeBytesLocked; the last piece is followed by the
\* deferred Unlock.
WritePiece ==
    /\ todo # <<>> /\ ~broken
    /\ stream' = Append(stream, Head(todo))
    /\ todo' = Tail(todo)
    /\ IF Len(todo) = 1
       THEN /\ writeMux' = "none"
            /\ written' = Append(written, Last(begun))
       ELSE UNCHANGED <<writeMux, written>>
    /\ UNCHANGED <<begun, broken, readVars>>

\* RawConn.Write fails: the rest of the frame is not written.
WriteFails ==
    /\ todo # <<>> /\ broken
    /\ writeMux' = "none"
    /\ todo' = <<>>
    /\ UNCHANGED <<begun, written, stream, broken, readVars>>

\* The connection breaks.  What is on the way arrives up to some byte.
Break ==
    /\ ~broken
    /\ broken' = TRUE
    /\ \E k \in 0..Len(stream) :
         \/ stream' = SubSeq(stream, 1, k)
         \/ /\ k < Len(stream) /\ stream[k + 1].n > 1
            /\ stream' = Append(SubSeq(stream, 1, k), [stream[k + 1] EXCEPT !.n = @ - 1])
    /\ UNCHANGED <<writeVars, readVars>>

------------------------------------------------------------------------------
(* readMessage, as loop calls it again and again. *)

\* The stream without the first n bytes of its first piece.
After(n) ==
    IF Head(stream).n = n THEN Tail(stream)
    ELSE <<[Head(stream) EXCEPT !.n = @ - n]>> \o Tail(stream)

\* An error of readMessage is fatal for the loop.
End(err) ==
    /\ at' = "over" /\ readErr' = err
    /\ UNCHANGED <<header, need, streamId, read>>

\* The message is complete: newMessageForTag, proto.Unmarshal.
Finish(h, size) ==
    IF h.tag \notin newMessageForTag THEN End("unknown tag")
    ELSE IF ~h.good THEN End("proto.Unmarshal")
    ELSE /\ streamId' = streamId + 1
         /\ read' = Append(read, [tag |-> h.tag, size |-> size])
         /\ at' = "tag" /\ header' = NoHeader /\ need' = 0
         /\ UNCHANGED readErr

ReadTag ==
    /\ at = "tag" /\ stream # <<>>
    /\ stream' = After(1)
    /\ header' = [NoHeader EXCEPT !.tag = Head(stream).byte]
    /\ at' = "length"
    /\ UNCHANGED <<writeVars, broken, need, streamId, read, readErr>>

OutOfRangeFrom(length) == length >= maxMessageSize \* mutant: 32 MiB are too many
\* The check of readBytes.
OutOfRange(length) == length > maxMessageSize

\* One byte of readVarInt; with the last one readBytes checks the length.
ReadLength ==
    /\ at = "length" /\ stream # <<>>
    /\ stream' = After(1)
    /\ LET b == Head(stream).byte
           h == [header EXCEPT !.groups = Append(@, b % 128), !.good = Head(stream).good]
           length == Number(h.groups)
       IN \/ /\ b >= 128 /\ Len(h.groups) < 6
             /\ header' = h
             /\ UNCHANGED <<at, need, streamId, read, readErr>>
          \/ b >= 128 /\ Len(h.groups) = 6 /\ End("varint is too long")
          \/ b < 128 /\ OutOfRange(length) /\ End("message length is out of range")
          \/ b < 128 /\ length = 0 /\ Finish(h, 0)
          \/ /\ b < 128 /\ ~OutOfRange(length) /\ length > 0
             /\ header' = h /\ need' = length /\ at' = "body"
             /\ UNCHANGED <<streamId, read, readErr>>
    /\ UNCHANGED <<writeVars, broken>>

\* io.ReadFull takes what there is until it has enough.
ReadBody ==
    /\ at = "body" /\ stream # <<>>
    /\ LET n == IF Head(stream).n < need THEN Head(stream).n ELSE need
       IN /\ stream' = After(n)
          /\ IF n < need
             THEN need' = need - n /\ UNCHANGED <<at, header, streamId, read, readErr>>
             ELSE Finish([header EXCEPT !.good = @ /\ Head(stream).good], Number(header.groups))
    /\ UNCHANGED <<writeVars, broken>>

\* Nothing is left of a broken connection: io.EOF, wherever it is noticed.
ReadEOF ==
    /\ at \in Reading /\ stream = <<>> /\ broken
    /\ End("EOF")
    /\ UNCHANGED <<writeVars, stream, broken>>

ReaderStep == ReadTag \/ ReadLength \/ ReadBody \/ ReadEOF
WriterStep == WritePiece \/ WriteFails

FrameNext ==
    \/ \E w \in Writers, f \in Frames : LockAndBegin(w, f)
    \/ WriterStep
    \/ Break
    \/ ReaderStep

FrameSpec == FrameInit /\ [][FrameNext]_frameVars

------------------------------------------------------------------------------
FrameTypeOK ==
    /\ writeMux \in Writers \cup {"none"}
    /\ (writeMux = "none") <=> (todo = <<>>)
    /\ \A i \in DOMAIN stream : stream[i].n \in Nat \ {0} /\ stream[i].byte \in 0..255
    /\ at \in Reading \cup {"over"}
    /\ need \in 0..maxMessageSize
    /\ streamId = Len(read)

Acceptable(f) ==
    f.tag \in newMessageForTag /\ f.good /\ f.size <= maxMessageSize /\ Len(f.length) <= 6

\* Whatever the writers do at the same time and wherever the connection breaks,
\* the messages read are those written, whole and in their order: a frame that
\* was cut or interleaved never turns into a message.
FramesInOrder ==
    /\ Len(read) <= Len(written)
    /\ \A i \in DOMAIN read :
         read[i] = [tag |-> written[i].tag, size |-> written[i].size] /\ Acceptable(written[i])

\* The reader never waits for bytes that nobody owes it: when all that was
\* written has arrived, it has returned every frame and waits for a tag.
ReaderKeepsUp ==
    (stream = <<>> /\ todo = <<>> /\ ~broken /\ at # "over") => (at = "tag" /\ Len(read) = Len(written))

(* The loop ends with EOF only when the connection is gone, and with another
   error only at a frame that deserves one: no length up to 32 MiB is refused.
   Until then it keeps up with what has been written.                         *)
EndIsJustified ==
    /\ ReaderKeepsUp
    /\ at = "over" =>
         \/ readErr = "EOF" /\ broken
         \/ readErr # "EOF" /\ Len(read) < Len(begun) /\ ~Acceptable(begun[Len(read) + 1])
==============================================================================
