---------------------------- MODULE FramingProofs ----------------------------
(***************************************************************************)
(* Proofs about Framing, for every set of writers, frames and number of    *)
(* frames.  The inductive invariant threads the pieces on the way: each of *)
(* them is the piece of a frame that follows the one before it, the first  *)
(* is what the reader expects and the last what the writer wrote last.     *)
(***************************************************************************)
EXTENDS Framing, VarintProofs

Piece == [n : Nat \ {0}, byte : 0..255, good : BOOLEAN]

Header == [tag : 0..255, groups : Seq(Nat), good : BOOLEAN]

Typed ==
  /\ begun \in Seq(Frames) /\ written \in Seq(Frames)
  /\ todo \in Seq(Piece) /\ stream \in Seq(Piece)
  /\ broken \in BOOLEAN
  /\ writeMux \in Writers \cup {"none"}
  /\ (writeMux = "none") <=> (todo = <<>>)
  /\ at \in Reading \cup {"over"}
  /\ header \in Header
  /\ need \in 0..maxMessageSize
  /\ read \in Seq([tag : 0..255, size : Nat])
  /\ streamId = Len(read)

-----------------------------------------------------------------------------
(* The writer: only the last frame begun is unfinished, and todo is the    *)
(* end of it.                                                              *)

Current == begun[Len(begun)]

WriterIsAmid ==
  /\ Len(written) <= Len(begun)
  /\ \A i \in 1..Len(written) : written[i] = begun[i]
  /\ ~broken => Len(written) = IF todo = <<>> THEN Len(begun) ELSE Len(begun) - 1
  /\ todo # <<>> =>
       /\ begun # <<>> /\ Len(todo) <= Len(Pieces(Current))
       /\ \A j \in 1..Len(todo) :
            todo[j] = Pieces(Current)[Len(Pieces(Current)) - Len(todo) + j]

-----------------------------------------------------------------------------
(* The reader: what it has taken of the frame it is in.                    *)

Expected == begun[Len(read) + 1]

ReaderIsAmid ==
  /\ at \in {"length", "body"} => Len(read) < Len(begun) /\ header.tag = Expected.tag
  /\ at = "length" =>
       /\ Len(header.groups) < Len(Expected.length) /\ Len(header.groups) < 6
       /\ \A j \in 1..Len(header.groups) : header.groups[j] = Expected.length[j] % 128
  /\ at = "body" =>
       /\ header.good = Expected.good
       /\ Number(header.groups) = Expected.size
       /\ Expected.size <= maxMessageSize /\ Len(Expected.length) <= 6
       /\ need \in 1..Expected.size
       /\ stream # <<>> \/ ~broken => need = Expected.size

-----------------------------------------------------------------------------
(* The thread from one to the other.                                       *)

Place == [frame : Nat, piece : Nat]
At(i, j) == [frame |-> i, piece |-> j]
PieceCount(i) == Len(Pieces(begun[i]))

Following(p) ==
  IF p.piece < PieceCount(p.frame) THEN At(p.frame, p.piece + 1) ELSE At(p.frame + 1, 1)

WriterPlace ==
  IF todo = <<>> THEN At(Len(begun) + 1, 1)
  ELSE At(Len(begun), PieceCount(Len(begun)) - Len(todo) + 1)

ReaderPlace ==
  At(Len(read) + 1, CASE at = "length" -> Len(header.groups) + 2
                      [] at = "body" -> Len(Expected.length) + 2
                      [] OTHER -> 1)

\* The k-th piece on the way is that of p, though the last one may have been cut;
\* the last piece of a frame has left the writer.
Carries(k, p) ==
  /\ p.frame \in 1..Len(begun) /\ p.piece \in 1..PieceCount(p.frame)
  /\ stream[k].byte = Pieces(begun[p.frame])[p.piece].byte
  /\ stream[k].good = Pieces(begun[p.frame])[p.piece].good
  /\ stream[k].n <= Pieces(begun[p.frame])[p.piece].n
  /\ stream[k].n < Pieces(begun[p.frame])[p.piece].n => broken /\ k = Len(stream)
  /\ p.piece = PieceCount(p.frame) => p.frame <= Len(written)

Thread(own) ==
  /\ own \in [1..(Len(stream) + 1) -> Place]
  /\ own[1] = ReaderPlace
  /\ \A k \in 1..Len(stream) : own[k + 1] = Following(own[k]) /\ Carries(k, own[k])
  /\ ~broken => own[Len(stream) + 1] = WriterPlace

Threaded == at # "over" => \E own : Thread(own)

-----------------------------------------------------------------------------
EndHasCause ==
  at = "over" =>
    \/ readErr = "EOF" /\ broken
    \/ readErr # "EOF" /\ Len(read) < Len(begun) /\ ~Acceptable(Expected)

IInv ==
  /\ Typed /\ WriterIsAmid /\ ReaderIsAmid /\ Threaded
  /\ FramesInOrder /\ EndHasCause

-----------------------------------------------------------------------------
(* The frames and their pieces.                                            *)

LEMMA LimitsAre ==
  maxMessageSize \in Nat \ {0} /\ Huge \in Nat /\ maxMessageSize < Huge
BY SMT DEF maxMessageSize, Huge

LEMMA FramesAre ==
  ASSUME NEW f \in Frames
  PROVE  /\ f.tag \in 0..255 /\ f.size \in Nat /\ f.good \in BOOLEAN
         /\ f.length \in Seq(0..255) /\ Len(f.length) \in Nat /\ Len(f.length) >= 1
         /\ \A i \in 1..Len(f.length) : f.length[i] \in 0..255
         /\ \A i \in 1..Len(f.length) : f.length[i] >= 128 <=> i < Len(f.length)
<1>1. /\ f.tag \in 0..255 /\ f.size \in Nat /\ f.good \in BOOLEAN
      /\ f.length \in Seq(0..255) /\ f.length # <<>>
      /\ \A i \in 1..Len(f.length) : f.length[i] >= 128 <=> i < Len(f.length)
  BY FramingAssumption DEF FramingAssumption
<1>2. Len(f.length) \in Nat /\ Len(f.length) >= 1
  BY <1>1, EmptySeq
<1>3. \A i \in 1..Len(f.length) : f.length[i] \in 0..255
  BY <1>1, ElementOfSeq
<1> QED BY <1>1, <1>2, <1>3

LEMMA PiecesOf ==
  ASSUME NEW f \in Frames
  PROVE  /\ Pieces(f) \in Seq(Piece)
         /\ Len(Pieces(f)) \in Nat
         /\ Len(Pieces(f)) = Len(f.length) + (IF f.size = 0 THEN 1 ELSE 2)
         /\ Pieces(f)[1] = Byte(f.tag, f)
         /\ \A j \in 1..Len(f.length) : Pieces(f)[j + 1] = Byte(f.length[j], f)
         /\ f.size # 0 => Pieces(f)[Len(f.length) + 2] = Body(f)
<1> DEFINE tag == <<Byte(f.tag, f)>>
           len == [i \in 1..Len(f.length) |-> Byte(f.length[i], f)]
           body == IF f.size = 0 THEN <<>> ELSE <<Body(f)>>
<1>1. tag \in Seq(Piece) /\ Len(tag) = 1 /\ tag[1] = Byte(f.tag, f)
  BY FramesAre DEF Byte, Piece
<1>2. \A i \in 1..Len(f.length) : Byte(f.length[i], f) \in Piece
  BY FramesAre DEF Byte, Piece
<1>3. /\ len \in Seq(Piece) /\ Len(len) = Len(f.length)
      /\ \A i \in 1..Len(f.length) : len[i] = Byte(f.length[i], f)
  BY <1>2, FramesAre
<1>4. /\ body \in Seq(Piece) /\ Len(body) = (IF f.size = 0 THEN 0 ELSE 1)
      /\ f.size # 0 => body[1] = Body(f)
  <2>1. f.size # 0 => Body(f) \in Piece
    BY FramesAre DEF Body, Piece
  <2> QED BY <2>1
<1>5. PICK n \in Nat : n = Len(f.length)
  BY FramesAre
<1>6. Pieces(f) = (tag \o len) \o body
  BY DEF Pieces
<1> HIDE DEF tag, len, body
<1>7. PICK front \in Seq(Piece) : front = tag \o len
  BY <1>1, <1>3, ConcatProperties, Zenon
<1>8. /\ front \in Seq(Piece) /\ Len(front) = 1 + n
      /\ \A i \in 1..(1 + n) : front[i] = IF i <= 1 THEN tag[i] ELSE len[i - 1]
  <2>1. /\ tag \o len \in Seq(Piece) /\ Len(tag \o len) = Len(tag) + Len(len)
        /\ \A i \in 1..(Len(tag) + Len(len)) :
             (tag \o len)[i] = IF i <= Len(tag) THEN tag[i] ELSE len[i - Len(tag)]
    <3>1. tag \in Seq(Piece) /\ len \in Seq(Piece)
      BY <1>1, <1>3
    <3> QED BY <3>1, ConcatProperties, Zenon
  <2>2. /\ Len(front) = Len(tag) + Len(len)
        /\ \A i \in 1..(Len(tag) + Len(len)) :
             front[i] = IF i <= Len(tag) THEN tag[i] ELSE len[i - Len(tag)]
    BY <1>7, <2>1, Zenon
  <2>3. Len(tag) = 1 /\ Len(len) = n
    BY <1>1, <1>3, <1>5
  <2> QED BY <2>2, <2>3
<1>9. PICK m \in Nat : m = Len(body)
  BY <1>4
<1>10. /\ Pieces(f) \in Seq(Piece) /\ Len(Pieces(f)) = 1 + n + m
       /\ \A i \in 1..(1 + n + m) :
            Pieces(f)[i] = IF i <= 1 + n THEN front[i] ELSE body[i - (1 + n)]
  <2>1. Pieces(f) = front \o body
    BY <1>6, <1>7
  <2>2. /\ front \o body \in Seq(Piece) /\ Len(front \o body) = Len(front) + Len(body)
        /\ \A i \in 1..(Len(front) + Len(body)) :
             (front \o body)[i] = IF i <= Len(front) THEN front[i] ELSE body[i - Len(front)]
    BY <1>4, <1>8, ConcatProperties, Zenon
  <2> QED BY <1>8, <1>9, <2>1, <2>2
<1>11. Pieces(f)[1] = Byte(f.tag, f)
  <2>1. 1 \in 1..(1 + n + m) /\ 1 \in 1..(1 + n) /\ 1 <= 1 + n
    OBVIOUS
  <2> QED BY <1>1, <1>8, <1>10, <2>1
<1>12. ASSUME NEW j \in 1..n PROVE Pieces(f)[j + 1] = Byte(f.length[j], f)
  <2>1. j + 1 \in 1..(1 + n + m) /\ j + 1 \in 1..(1 + n) /\ j + 1 <= 1 + n
    OBVIOUS
  <2>2. Pieces(f)[j + 1] = front[j + 1]
    BY <1>10, <2>1
  <2>3. ~(j + 1 <= 1) /\ (j + 1) - 1 = j
    OBVIOUS
  <2>4. front[j + 1] = len[j]
    BY <1>8, <2>1, <2>3
  <2> QED BY <1>3, <1>5, <2>2, <2>4
<1>13. ASSUME f.size # 0 PROVE Pieces(f)[n + 2] = Body(f)
  <2>1. m = 1
    BY <1>4, <1>9, <1>13
  <2>2. n + 2 \in 1..(1 + n + m) /\ ~(n + 2 <= 1 + n) /\ (n + 2) - (1 + n) = 1
    BY <2>1
  <2>3. Pieces(f)[n + 2] = body[1]
    BY <1>10, <2>2
  <2> QED BY <1>4, <1>13, <2>3
<1>14. Len(Pieces(f)) = n + (IF f.size = 0 THEN 1 ELSE 2) /\ Len(Pieces(f)) \in Nat
  BY <1>4, <1>9, <1>10
<1> QED BY <1>5, <1>10, <1>11, <1>12, <1>13, <1>14

-----------------------------------------------------------------------------
(* The thread, step by step.                                               *)

\* A piece leaves the front of the stream and the reader goes on to the next.
LEMMA ReaderAdvances ==
  ASSUME Typed, NEW own, Thread(own), stream # <<>>, stream' = Tail(stream),
         UNCHANGED <<begun, written, todo, broken>>,
         ReaderPlace' = Following(ReaderPlace)
  PROVE  \E o : Thread(o)'
<1>1. PICK n \in Nat : n = Len(stream)
  BY DEF Typed
<1>2. n >= 1 /\ Len(stream') = n - 1 /\ \A k \in 1..(n - 1) : stream'[k] = stream[k + 1]
  BY <1>1, HeadTailProperties, EmptySeq DEF Typed
<1>3. /\ own \in [1..(n + 1) -> Place] /\ own[1] = ReaderPlace
      /\ \A k \in 1..n : own[k + 1] = Following(own[k]) /\ Carries(k, own[k])
      /\ ~broken => own[n + 1] = WriterPlace
  BY <1>1 DEF Thread
<1>4. PICK o \in [1..n -> Place] : \A k \in 1..n : o[k] = own[k + 1]
  <2>1. [k \in 1..n |-> own[k + 1]] \in [1..n -> Place]
    BY <1>3
  <2> QED BY <2>1
<1>5. \A p : Following(p)' = Following(p)
  BY DEF Following, PieceCount
<1>6. o \in [1..(Len(stream') + 1) -> Place]
  BY <1>2, <1>4
<1>7. o[1] = ReaderPlace'
  BY <1>2, <1>3, <1>4
<1>8. ASSUME NEW k \in 1..(n - 1) PROVE o[k + 1] = Following(o[k])' /\ Carries(k, o[k])'
  <2>1. k \in 1..n /\ k + 1 \in 1..n
    BY <1>2
  <2>2. o[k] = own[k + 1] /\ o[k + 1] = own[(k + 1) + 1]
    BY <1>4, <2>1
  <2>3. own[(k + 1) + 1] = Following(own[k + 1]) /\ Carries(k + 1, own[k + 1])
    BY <1>3, <2>1
  <2>4. stream'[k] = stream[k + 1] /\ (k + 1 = Len(stream) => k = Len(stream'))
    BY <1>1, <1>2
  <2>5. Carries(k, o[k])'
    BY <2>2, <2>3, <2>4 DEF Carries, PieceCount
  <2> QED BY <1>5, <2>2, <2>3, <2>5
<1>9. ~broken => o[n] = WriterPlace'
  <2>1. WriterPlace' = WriterPlace
    BY DEF WriterPlace, PieceCount
  <2> QED BY <1>2, <1>3, <1>4, <2>1
<1>10. Thread(o)'
  BY <1>2, <1>6, <1>7, <1>8, <1>9 DEF Thread
<1> QED BY <1>10

\* What the reader finds at the front of the stream.
LEMMA ReaderFinds ==
  ASSUME Typed, at # "over", Threaded, stream # <<>>
  PROVE  stream[1] \in Piece /\ Len(stream) \in Nat \ {0} /\ Carries(1, ReaderPlace)
<1>1. Len(stream) \in Nat \ {0} /\ stream[1] \in Piece
  BY EmptySeq, ElementOfSeq DEF Typed
<1>2. PICK own : Thread(own)
  BY DEF Threaded
<1> QED BY <1>1, <1>2 DEF Thread

\* Another frame begins where the last one ended.
LEMMA BeginThread ==
  ASSUME Typed, WriterIsAmid, ReaderIsAmid, NEW own, Thread(own), NEW f \in Frames,
         todo = <<>>, todo' = Pieces(f), begun' = Append(begun, f),
         UNCHANGED <<written, stream, broken, readVars>>
  PROVE  Thread(own)'
<1>1. PICK n \in Nat : n = Len(begun)
  BY DEF Typed
<1>2. /\ Len(begun') = n + 1 /\ \A i \in 1..n : begun'[i] = begun[i]
      /\ begun'[n + 1] = f
  BY <1>1, AppendProperties DEF Typed
<1>3. \A i \in 1..n : PieceCount(i)' = PieceCount(i)
  BY <1>2 DEF PieceCount
<1>4. Len(stream) \in Nat /\ Len(read) \in Nat
  BY DEF Typed
<1>5. ReaderPlace' = ReaderPlace
  <2>1. at = "body" => Len(read) + 1 \in 1..n
    BY <1>1, <1>4 DEF ReaderIsAmid
  <2>2. at = "body" => Expected' = Expected
    BY <1>2, <2>1 DEF Expected, readVars
  <2> QED BY <2>2 DEF ReaderPlace, readVars
<1>6. ASSUME NEW k \in 1..Len(stream)
      PROVE  own[k + 1] = Following(own[k])' /\ Carries(k, own[k])'
  <2>1. own[k + 1] = Following(own[k]) /\ Carries(k, own[k])
    BY DEF Thread
  <2>2. own[k].frame \in 1..n
    BY <1>1, <2>1 DEF Carries
  <2>3. Following(own[k])' = Following(own[k])
    BY <1>3, <2>2 DEF Following
  <2>4. begun'[own[k].frame] = begun[own[k].frame] /\ own[k].frame \in 1..Len(begun')
    BY <1>2, <2>2
  <2>5. Carries(k, own[k])'
    BY <2>1, <2>4 DEF Carries, PieceCount
  <2> QED BY <2>1, <2>3, <2>5
<1>7. WriterPlace' = WriterPlace
  <2>1. PieceCount(n + 1)' = Len(Pieces(f))
    BY <1>2 DEF PieceCount
  <2>2. Len(Pieces(f)) \in Nat /\ Pieces(f) # <<>>
    <3>1. Len(f.length) \in Nat /\ Len(f.length) >= 1
      BY FramesAre
    <3>2. Len(Pieces(f)) = Len(f.length) + 1 \/ Len(Pieces(f)) = Len(f.length) + 2
      BY PiecesOf
    <3>3. Len(Pieces(f)) >= 1 /\ Len(Pieces(f)) \in Nat
      BY <3>1, <3>2
    <3> QED BY <3>3, EmptySeq
  <2>3. Len(Pieces(f)) - Len(Pieces(f)) + 1 = 1
    BY <2>2
  <2> QED BY <1>1, <1>2, <2>1, <2>2, <2>3 DEF WriterPlace
<1> QED BY <1>5, <1>6, <1>7 DEF Thread

\* A piece is written: the thread gets one longer.
LEMMA WriterAdvances ==
  ASSUME Typed, WriterIsAmid, NEW own, Thread(own), WritePiece
  PROVE  \E o : Thread(o)'
<1>1. PICK n \in Nat : n = Len(stream)
  BY DEF Typed
<1>2. /\ todo # <<>> /\ ~broken /\ stream' = Append(stream, Head(todo)) /\ todo' = Tail(todo)
      /\ UNCHANGED <<begun, broken, readVars>>
      /\ IF Len(todo) = 1 THEN written' = Append(written, Last(begun)) ELSE written' = written
  BY DEF WritePiece
<1>3. /\ Head(todo) \in Piece /\ Len(todo) \in Nat \ {0} /\ Head(todo) = todo[1]
      /\ todo' \in Seq(Piece) /\ Len(todo') = Len(todo) - 1
  BY <1>2, HeadTailProperties, EmptySeq DEF Typed
<1>4. Len(stream') = n + 1 /\ stream'[n + 1] = Head(todo) /\ \A k \in 1..n : stream'[k] = stream[k]
  BY <1>1, <1>2, <1>3, AppendProperties DEF Typed
<1>5. PICK l \in Nat \ {0} : l = Len(begun)
  BY <1>2, EmptySeq DEF Typed, WriterIsAmid
<1>6. Current \in Frames /\ Current = begun[l]
  BY <1>5, ElementOfSeq DEF Typed, Current
<1>7. PICK c \in Nat : c = Len(Pieces(Current)) /\ Len(todo) <= c
  BY <1>2, <1>6, PiecesOf DEF WriterIsAmid
<1>8. /\ Head(todo) = Pieces(Current)[c - Len(todo) + 1]
      /\ c - Len(todo) + 1 \in 1..c
  <2>1. 1 \in 1..Len(todo)
    BY <1>3
  <2> QED BY <1>2, <1>3, <1>7, <2>1 DEF WriterIsAmid
<1>9. /\ own \in [1..(n + 1) -> Place] /\ own[1] = ReaderPlace
      /\ \A k \in 1..n : own[k + 1] = Following(own[k]) /\ Carries(k, own[k])
      /\ own[n + 1] = At(l, c - Len(todo) + 1)
  BY <1>1, <1>2, <1>5, <1>6, <1>7 DEF Thread, WriterPlace, PieceCount
<1>10. PICK next : next = Following(own[n + 1])
  BY Zenon
<1>11. next = WriterPlace' /\ next \in Place
  <2>1. PieceCount(l) = c
    BY <1>6, <1>7 DEF PieceCount
  <2>2. CASE Len(todo) = 1
    <3>1. todo' = <<>>
      BY <1>3, <2>2, EmptySeq
    <3>2. next = At(l + 1, 1)
      BY <1>7, <1>9, <1>10, <2>1, <2>2 DEF Following, At
    <3> QED BY <1>2, <1>5, <3>1, <3>2 DEF WriterPlace, At, Place
  <2>3. CASE Len(todo) # 1
    <3>1. todo' # <<>>
      BY <1>3, <2>3, EmptySeq
    <3>2. next = At(l, c - Len(todo) + 1 + 1)
      BY <1>3, <1>7, <1>9, <1>10, <2>1, <2>3 DEF Following, At
    <3>3. PieceCount(l)' = c
      BY <1>2, <2>1 DEF PieceCount
    <3>4. c - Len(todo) + 1 + 1 = c - Len(todo') + 1 /\ c - Len(todo) + 1 + 1 \in Nat
      BY <1>3, <1>7
    <3> QED BY <1>2, <1>5, <3>1, <3>2, <3>3, <3>4 DEF WriterPlace, At, Place
  <2> QED BY <2>2, <2>3
<1>12. PICK o \in [1..(n + 2) -> Place] :
         o[n + 2] = next /\ \A k \in 1..(n + 1) : o[k] = own[k]
  <2> DEFINE longer == [k \in 1..(n + 2) |-> IF k = n + 2 THEN next ELSE own[k]]
  <2>1. longer \in [1..(n + 2) -> Place]
    BY <1>9, <1>11
  <2>2. longer[n + 2] = next /\ \A k \in 1..(n + 1) : longer[k] = own[k]
    OBVIOUS
  <2> HIDE DEF longer
  <2> QED BY <2>1, <2>2
<1>13. \A p : Following(p)' = Following(p)
  BY <1>2 DEF Following, PieceCount
<1>14. Len(written) \in Nat /\ Len(written') \in Nat /\ Len(written) <= Len(written')
       /\ (Len(todo) = 1 => Len(written') = l)
  <2>1. Last(begun) \in Frames
    BY <1>5, <1>6 DEF Last, Current
  <2>2. CASE Len(todo) = 1
    BY <1>2, <1>5, <2>1, <2>2, AppendProperties DEF Typed, WriterIsAmid
  <2>3. CASE Len(todo) # 1
    BY <1>2, <2>3 DEF Typed
  <2> QED BY <2>2, <2>3
<1>15. ASSUME NEW k \in 1..n PROVE Carries(k, own[k])'
  <2>1. Carries(k, own[k])
    BY <1>9
  <2>2. stream'[k] = stream[k]
    BY <1>4
  <2>3. own[k].frame \in Nat /\ own[k].piece \in Nat
    BY <1>9 DEF Place
  <2>4. PieceCount(own[k].frame)' = PieceCount(own[k].frame)
    BY <1>2 DEF PieceCount
  <2>5. own[k].piece = PieceCount(own[k].frame)' => own[k].frame <= Len(written')
    BY <1>14, <2>1, <2>3, <2>4 DEF Carries
  <2> QED BY <1>2, <2>1, <2>2, <2>4, <2>5 DEF Carries
<1>16. Carries(n + 1, own[n + 1])'
  <2>1. own[n + 1].frame = l /\ own[n + 1].piece = c - Len(todo) + 1
    BY <1>9 DEF At
  <2>2. begun'[l] = Current /\ PieceCount(l)' = c /\ l \in 1..Len(begun')
    BY <1>2, <1>5, <1>6, <1>7 DEF PieceCount
  <2>3. c - Len(todo) + 1 = c => l <= Len(written')
    BY <1>3, <1>5, <1>7, <1>14
  <2>4. stream'[n + 1] = Pieces(Current)[c - Len(todo) + 1] /\ stream'[n + 1].n \in Nat
    BY <1>3, <1>4, <1>8 DEF Piece
  <2> QED BY <1>8, <2>1, <2>2, <2>3, <2>4 DEF Carries
<1>17. ASSUME NEW k \in 1..(n + 1)
       PROVE  o[k + 1] = Following(o[k])' /\ Carries(k, o[k])'
  <2>1. k \in 1..n \/ k = n + 1
    OBVIOUS
  <2>2. CASE k \in 1..n
    BY <1>9, <1>12, <1>13, <1>15, <2>2
  <2>3. CASE k = n + 1
    BY <1>10, <1>12, <1>13, <1>16, <2>3
  <2> QED BY <2>1, <2>2, <2>3
<1>18. ReaderPlace' = ReaderPlace
  BY <1>2 DEF ReaderPlace, Expected, readVars
<1>19. Thread(o)'
  BY <1>4, <1>9, <1>11, <1>12, <1>17, <1>18 DEF Thread
<1> QED BY <1>19

\* What is left of the stream when the connection breaks is the front of it, the
\* last piece perhaps cut.
LEMMA BreakThread ==
  ASSUME Typed, NEW own, Thread(own), ~broken, broken', NEW m \in Nat, m <= Len(stream),
         stream' \in Seq(Piece), Len(stream') = m,
         \A k \in 1..m : /\ stream'[k].byte = stream[k].byte
                         /\ stream'[k].good = stream[k].good
                         /\ stream'[k].n <= stream[k].n
                         /\ stream'[k].n < stream[k].n => k = m,
         UNCHANGED <<writeVars, readVars>>
  PROVE  \E o : Thread(o)'
<1>1. PICK n \in Nat : n = Len(stream) /\ m <= n
  BY DEF Typed
<1>2. /\ own \in [1..(n + 1) -> Place] /\ own[1] = ReaderPlace
      /\ \A k \in 1..n : own[k + 1] = Following(own[k]) /\ Carries(k, own[k])
  BY <1>1 DEF Thread
<1>3. PICK o \in [1..(m + 1) -> Place] : \A k \in 1..(m + 1) : o[k] = own[k]
  <2> DEFINE front == [k \in 1..(m + 1) |-> own[k]]
  <2>1. front \in [1..(m + 1) -> Place]
    BY <1>1, <1>2
  <2>2. \A k \in 1..(m + 1) : front[k] = own[k]
    OBVIOUS
  <2> HIDE DEF front
  <2> QED BY <2>1, <2>2
<1>4. /\ begun' = begun /\ written' = written
      /\ \A i : PieceCount(i)' = PieceCount(i)
      /\ \A p : Following(p)' = Following(p)
  BY DEF writeVars, PieceCount, Following
<1>5. ASSUME NEW k \in 1..m PROVE o[k + 1] = Following(o[k])' /\ Carries(k, o[k])'
  <2>1. k \in 1..n /\ k + 1 \in 1..(m + 1) /\ k \in 1..(m + 1)
    BY <1>1
  <2>2. o[k] = own[k] /\ o[k + 1] = own[k + 1]
    BY <1>3, <2>1
  <2>3. own[k + 1] = Following(own[k]) /\ Carries(k, own[k])
    BY <1>2, <2>1
  <2>4. stream[k] \in Piece /\ stream'[k] \in Piece
    BY <1>1, <2>1, ElementOfSeq DEF Typed
  <2>5. stream[k].n = Pieces(begun[own[k].frame])[own[k].piece].n
    <3>0. own[k].frame \in Nat /\ own[k].piece \in Nat
      <4>1. k \in 1..(n + 1)
        BY <2>1
      <4>2. own[k] \in Place
        BY <1>2, <4>1
      <4> QED BY <4>2 DEF Place
    <3>1. PICK i \in Nat, j \in Nat : i = own[k].frame /\ j = own[k].piece
      BY <3>0
    <3>2. i \in 1..Len(begun) /\ j \in 1..PieceCount(i)
      BY <2>3, <3>1 DEF Carries
    <3>3. begun[i] \in Frames
      BY <3>2, ElementOfSeq DEF Typed
    <3>4. Pieces(begun[i])[j] \in Piece
      BY <3>2, <3>3, PiecesOf, ElementOfSeq DEF PieceCount
    <3>5. stream[k].n <= Pieces(begun[i])[j].n /\ ~(stream[k].n < Pieces(begun[i])[j].n)
      BY <2>3, <3>1 DEF Carries
    <3>6. stream[k].n \in Nat /\ Pieces(begun[i])[j].n \in Nat
      BY <2>4, <3>4 DEF Piece
    <3> QED BY <3>1, <3>5, <3>6
  <2>6. Carries(k, own[k])'
    BY <1>4, <2>3, <2>5 DEF Carries
  <2> QED BY <1>4, <2>2, <2>3, <2>6
<1>6. ReaderPlace' = ReaderPlace
  BY <1>4 DEF ReaderPlace, Expected, readVars
<1>7. o[1] = ReaderPlace'
  BY <1>2, <1>3, <1>6
<1>8. Thread(o)'
  BY <1>3, <1>5, <1>7 DEF Thread
<1> QED BY <1>8

-----------------------------------------------------------------------------
(* What every step keeps of the writer and of the reader.                  *)

\* The frame the reader is in.
LEMMA ExpectedIs ==
  ASSUME Typed, Len(read) < Len(begun)
  PROVE  Expected \in Frames /\ Len(read) + 1 \in 1..Len(begun) /\ Len(read) \in Nat
<1>1. Len(read) \in Nat /\ Len(begun) \in Nat
  BY DEF Typed
<1>2. Len(read) + 1 \in 1..Len(begun)
  BY <1>1
<1> QED BY <1>1, <1>2, ElementOfSeq DEF Typed, Expected

LEMMA LockAndBeginStep ==
  ASSUME IInv, NEW w \in Writers, NEW f \in Frames, LockAndBegin(w, f)
  PROVE  IInv'
<1> USE DEF IInv
<1>1. /\ todo = <<>> /\ todo' = Pieces(f) /\ begun' = Append(begun, f)
      /\ writeMux' = w /\ w # "none"
      /\ UNCHANGED <<written, stream, broken, readVars>>
  BY FramingAssumption DEF LockAndBegin, Typed, FramingAssumption
<1>2. PICK n \in Nat : n = Len(begun)
  BY DEF Typed
<1>3. /\ begun' \in Seq(Frames) /\ Len(begun') = n + 1 /\ begun' # <<>>
      /\ \A i \in 1..n : begun'[i] = begun[i]
      /\ begun'[n + 1] = f
  <2>1. begun \in Seq(Frames)
    BY DEF Typed
  <2> QED BY <1>1, <1>2, <2>1, AppendProperties
<1>4. Pieces(f) \in Seq(Piece) /\ Len(Pieces(f)) \in Nat /\ Pieces(f) # <<>>
  <2>1. Len(f.length) \in Nat /\ Len(f.length) >= 1
    BY FramesAre
  <2>2. Len(Pieces(f)) = Len(f.length) + 1 \/ Len(Pieces(f)) = Len(f.length) + 2
    BY PiecesOf
  <2>3. Len(Pieces(f)) \in Nat \ {0}
    BY <2>1, <2>2
  <2> QED BY <2>3, EmptySeq, PiecesOf
<1>5. Typed'
  BY <1>1, <1>3, <1>4 DEF Typed, readVars
<1>6. WriterIsAmid'
  <2>1. Current' = f
    BY <1>2, <1>3 DEF Current
  <2>2. Len(written) <= n /\ \A i \in 1..Len(written) : written[i] = begun[i]
    BY <1>2 DEF WriterIsAmid
  <2>3. \A i \in 1..Len(written) : written[i] = begun'[i]
    <3>1. Len(written) \in Nat
      BY DEF Typed
    <3>2. \A i \in 1..Len(written) : i \in 1..n
      BY <2>2, <3>1
    <3> QED BY <1>3, <2>2, <3>2
  <2>4. ~broken => Len(written) = (n + 1) - 1
    BY <1>1, <1>2 DEF WriterIsAmid
  <2>5. \A j \in 1..Len(Pieces(f)) : Pieces(f)[j] = Pieces(f)[Len(Pieces(f)) - Len(Pieces(f)) + j]
    BY <1>4
  <2>6. Len(written) <= n + 1
    BY <2>2 DEF Typed
  <2> QED BY <1>1, <1>3, <1>4, <2>1, <2>3, <2>4, <2>5, <2>6 DEF WriterIsAmid
<1>7. ASSUME Len(read) < Len(begun)
      PROVE  Expected' = Expected /\ Len(read) < Len(begun') /\ begun'[Len(read) + 1] = begun[Len(read) + 1]
  BY <1>1, <1>2, <1>3, <1>7, ExpectedIs DEF Expected, readVars
<1>8. ReaderIsAmid'
  BY <1>1, <1>7 DEF ReaderIsAmid, readVars
<1>9. Threaded'
  <2> SUFFICES ASSUME at' # "over" PROVE \E o : Thread(o)'
    BY DEF Threaded
  <2>1. PICK own : Thread(own)
    BY <1>1 DEF Threaded, readVars
  <2>2. Thread(own)'
    BY <1>1, <2>1, BeginThread
  <2> QED BY <2>2
<1>10. FramesInOrder'
  BY <1>1 DEF FramesInOrder, readVars
<1>11. EndHasCause'
  BY <1>1, <1>7 DEF EndHasCause, readVars
<1> QED BY <1>5, <1>6, <1>8, <1>9, <1>10, <1>11

LEMMA WritePieceStep ==
  ASSUME IInv, WritePiece
  PROVE  IInv'
<1> USE DEF IInv
<1>1. /\ todo # <<>> /\ ~broken /\ stream' = Append(stream, Head(todo)) /\ todo' = Tail(todo)
      /\ UNCHANGED <<begun, broken, readVars>>
      /\ IF Len(todo) = 1 THEN writeMux' = "none" /\ written' = Append(written, Last(begun))
                          ELSE UNCHANGED <<writeMux, written>>
  BY DEF WritePiece
<1>2. /\ Head(todo) \in Piece /\ Len(todo) \in Nat \ {0}
      /\ todo' \in Seq(Piece) /\ Len(todo') = Len(todo) - 1
      /\ \A j \in 1..Len(todo') : todo'[j] = todo[j + 1]
  BY <1>1, HeadTailProperties, EmptySeq DEF Typed
<1>3. stream' \in Seq(Piece) /\ stream' # <<>>
  BY <1>1, <1>2, AppendProperties DEF Typed
<1>4. PICK l \in Nat \ {0} : l = Len(begun)
  BY <1>1, EmptySeq DEF Typed, WriterIsAmid
<1>5. Last(begun) = Current /\ Current \in Frames /\ Current = begun[l]
  BY <1>4, ElementOfSeq DEF Typed, Current, Last
<1>6. Len(written) = l - 1
  BY <1>1, <1>4 DEF WriterIsAmid
<1>7. ASSUME Len(todo) = 1 PROVE Typed' /\ WriterIsAmid' /\ FramesInOrder'
  <2>1. todo' = <<>>
    BY <1>2, <1>7, EmptySeq
  <2>2. /\ written' \in Seq(Frames) /\ Len(written') = l
        /\ \A i \in 1..(l - 1) : written'[i] = written[i]
        /\ written'[l] = Current
    <3>1. (l - 1) + 1 = l
      OBVIOUS
    <3>2. written' = Append(written, Current) /\ written \in Seq(Frames)
      BY <1>1, <1>5, <1>7 DEF Typed
    <3> QED BY <1>5, <1>6, <3>1, <3>2, AppendProperties
  <2>3. Typed'
    BY <1>1, <1>2, <1>3, <1>7, <2>1, <2>2 DEF Typed, readVars
  <2>4. WriterIsAmid'
    <3>1. ASSUME NEW i \in 1..l PROVE written'[i] = begun[i]
      <4>1. i \in 1..(l - 1) \/ i = l
        OBVIOUS
      <4> QED BY <1>5, <1>6, <2>2, <4>1 DEF WriterIsAmid
    <3> QED BY <1>1, <1>4, <2>1, <2>2, <3>1 DEF WriterIsAmid
  <2>5. FramesInOrder'
    <3>1. Len(read) <= l - 1 /\ Len(read) \in Nat /\ DOMAIN read = 1..Len(read)
      BY <1>6 DEF FramesInOrder, Typed
    <3>2. \A i \in DOMAIN read : written'[i] = written[i]
      BY <2>2, <3>1
    <3>3. read' = read
      BY <1>1 DEF readVars
    <3>4. Len(read) <= l
      BY <3>1
    <3> QED BY <2>2, <3>2, <3>3, <3>4 DEF FramesInOrder
  <2> QED BY <2>3, <2>4, <2>5
<1>8. ASSUME Len(todo) # 1 PROVE Typed' /\ WriterIsAmid' /\ FramesInOrder'
  <2>1. todo' # <<>>
    BY <1>2, <1>8, EmptySeq
  <2>2. Typed'
    BY <1>1, <1>2, <1>3, <1>8, <2>1 DEF Typed, readVars
  <2>3. WriterIsAmid'
    <3>1. PICK c \in Nat : c = Len(Pieces(Current)) /\ Len(todo) <= c
      BY <1>1, <1>5, PiecesOf DEF WriterIsAmid
    <3>2. Current' = Current
      BY <1>1 DEF Current
    <3>3. ASSUME NEW j \in 1..Len(todo')
          PROVE  todo'[j] = Pieces(Current)[c - Len(todo') + j]
      <4>1. j + 1 \in 1..Len(todo) /\ c - Len(todo) + (j + 1) = c - Len(todo') + j
        BY <1>2, <3>1
      <4>2. todo[j + 1] = Pieces(Current)[c - Len(todo) + (j + 1)]
        BY <1>1, <3>1, <4>1 DEF WriterIsAmid
      <4> QED BY <1>2, <4>1, <4>2
    <3>4. Len(todo') <= c
      BY <1>2, <3>1
    <3> QED BY <1>1, <1>8, <2>1, <3>1, <3>2, <3>3, <3>4 DEF WriterIsAmid
  <2>4. FramesInOrder'
    <3>1. read' = read /\ written' = written
      BY <1>1, <1>8 DEF readVars
    <3> QED BY <3>1 DEF FramesInOrder
  <2> QED BY <2>2, <2>3, <2>4
<1>9. Typed' /\ WriterIsAmid' /\ FramesInOrder'
  BY <1>7, <1>8
<1>10. ReaderIsAmid'
  BY <1>1 DEF ReaderIsAmid, readVars, Expected
<1>11. Threaded'
  <2> SUFFICES ASSUME at' # "over" PROVE \E o : Thread(o)'
    BY DEF Threaded
  <2>1. PICK own : Thread(own)
    BY <1>1 DEF Threaded, readVars
  <2> QED BY <2>1, WriterAdvances
<1>12. EndHasCause'
  BY <1>1 DEF EndHasCause, Expected, readVars
<1> QED BY <1>9, <1>10, <1>11, <1>12

LEMMA WriteFailsStep ==
  ASSUME IInv, WriteFails
  PROVE  IInv'
<1> USE DEF IInv
<1>1. /\ todo # <<>> /\ broken /\ writeMux' = "none" /\ todo' = <<>>
      /\ UNCHANGED <<begun, written, stream, broken, readVars>>
  BY DEF WriteFails
<1>2. Typed'
  BY <1>1 DEF Typed, readVars
<1>3. WriterIsAmid'
  BY <1>1 DEF WriterIsAmid, Current
<1>4. ReaderIsAmid'
  BY <1>1 DEF ReaderIsAmid, readVars, Expected
<1>5. Threaded'
  <2> SUFFICES ASSUME at' # "over" PROVE \E o : Thread(o)'
    BY DEF Threaded
  <2>1. PICK own : Thread(own)
    BY <1>1 DEF Threaded, readVars
  <2>2. Thread(own)'
    BY <1>1, <2>1 DEF Thread, Carries, Following, PieceCount, ReaderPlace, Expected, readVars
  <2> QED BY <2>2
<1>6. FramesInOrder' /\ EndHasCause'
  BY <1>1 DEF FramesInOrder, EndHasCause, Expected, readVars
<1> QED BY <1>2, <1>3, <1>4, <1>5, <1>6

LEMMA BreakStep ==
  ASSUME IInv, Break
  PROVE  IInv'
<1> USE DEF IInv
<1>1. ~broken /\ broken' = TRUE /\ UNCHANGED <<writeVars, readVars>>
  BY DEF Break
<1>2. PICK n \in Nat : n = Len(stream)
  BY DEF Typed
<1>3. \A k \in 1..n : stream[k] \in Piece
  BY <1>2, ElementOfSeq DEF Typed
<1>4. PICK k \in 0..n :
        \/ stream' = SubSeq(stream, 1, k)
        \/ /\ k < n /\ stream[k + 1].n > 1
           /\ stream' = Append(SubSeq(stream, 1, k), [stream[k + 1] EXCEPT !.n = @ - 1])
  BY <1>2 DEF Break
<1>5. /\ SubSeq(stream, 1, k) \in Seq(Piece) /\ Len(SubSeq(stream, 1, k)) = k
      /\ \A i \in 1..k : SubSeq(stream, 1, k)[i] = stream[i]
  <2>1. \A i \in 1..k : stream[i] \in Piece
    BY <1>3
  <2>2. /\ SubSeq(stream, 1, k) \in Seq(Piece)
        /\ Len(SubSeq(stream, 1, k)) = IF 1 <= k THEN k - 1 + 1 ELSE 0
        /\ \A i \in 1..(k - 1 + 1) : SubSeq(stream, 1, k)[i] = stream[1 + i - 1]
    BY <2>1, SubSeqProperties
  <2> QED BY <2>2
<1>6. PICK m \in Nat :
        /\ m <= n /\ stream' \in Seq(Piece) /\ Len(stream') = m
        /\ \A i \in 1..m : /\ stream'[i].byte = stream[i].byte
                           /\ stream'[i].good = stream[i].good
                           /\ stream'[i].n <= stream[i].n
                           /\ stream'[i].n < stream[i].n => i = m
  <2>1. CASE stream' = SubSeq(stream, 1, k)
    <3>1. \A i \in 1..k : stream'[i] = stream[i] /\ stream[i].n \in Nat
      BY <1>3, <1>5, <2>1 DEF Piece
    <3> QED BY <1>5, <2>1, <3>1
  <2>2. CASE /\ k < n /\ stream[k + 1].n > 1
             /\ stream' = Append(SubSeq(stream, 1, k), [stream[k + 1] EXCEPT !.n = @ - 1])
    <3>1. PICK cut : cut = [stream[k + 1] EXCEPT !.n = @ - 1]
      BY Zenon
    <3>2. stream[k + 1] \in Piece
      BY <1>3, <2>2
    <3>3. /\ cut \in Piece /\ cut.byte = stream[k + 1].byte /\ cut.good = stream[k + 1].good
          /\ cut.n = stream[k + 1].n - 1 /\ stream[k + 1].n \in Nat
      <4>1. stream[k + 1].n \in Nat /\ stream[k + 1].n - 1 \in Nat \ {0}
        BY <2>2, <3>2 DEF Piece
      <4>2. cut = [n |-> stream[k + 1].n - 1, byte |-> stream[k + 1].byte, good |-> stream[k + 1].good]
        BY <3>1, <3>2 DEF Piece
      <4>3. stream[k + 1].byte \in 0..255 /\ stream[k + 1].good \in BOOLEAN
        BY <3>2 DEF Piece
      <4> QED BY <4>1, <4>2, <4>3 DEF Piece
    <3>4. /\ stream' \in Seq(Piece) /\ Len(stream') = k + 1 /\ stream'[k + 1] = cut
          /\ \A i \in 1..k : stream'[i] = stream[i]
      BY <1>5, <2>2, <3>1, <3>3, AppendProperties
    <3>5. ASSUME NEW i \in 1..(k + 1)
          PROVE  /\ stream'[i].byte = stream[i].byte
                 /\ stream'[i].good = stream[i].good
                 /\ stream'[i].n <= stream[i].n
                 /\ stream'[i].n < stream[i].n => i = k + 1
      <4>1. CASE i = k + 1
        BY <3>3, <3>4, <4>1
      <4>2. CASE i # k + 1
        <5>1. i \in 1..k /\ i \in 1..n
          BY <4>2
        <5>2. stream'[i] = stream[i] /\ stream[i].n \in Nat
          BY <1>3, <3>4, <5>1 DEF Piece
        <5> QED BY <5>2
      <4> QED BY <4>1, <4>2
    <3>6. k + 1 \in Nat /\ k + 1 <= n
      BY <2>2
    <3> QED BY <3>4, <3>5, <3>6
  <2> QED BY <1>4, <2>1, <2>2
<1>7. Typed'
  BY <1>1, <1>6 DEF Typed, writeVars, readVars
<1>8. WriterIsAmid'
  BY <1>1 DEF WriterIsAmid, Current, writeVars
<1>9. ReaderIsAmid'
  BY <1>1 DEF ReaderIsAmid, Expected, writeVars, readVars
<1>10. Threaded'
  <2> SUFFICES ASSUME at' # "over" PROVE \E o : Thread(o)'
    BY DEF Threaded
  <2>1. PICK own : Thread(own)
    BY <1>1 DEF Threaded, readVars
  <2> QED BY <1>1, <1>2, <1>6, <2>1, BreakThread
<1>11. FramesInOrder' /\ EndHasCause'
  BY <1>1 DEF FramesInOrder, EndHasCause, Expected, writeVars, readVars
<1> QED BY <1>7, <1>8, <1>9, <1>10, <1>11

-----------------------------------------------------------------------------
(* The steps of readMessage.                                               *)

\* An error ends the loop, for a cause that has to be given.
LEMMA EndStep ==
  ASSUME IInv, NEW err, End(err), stream' \in Seq(Piece), UNCHANGED <<writeVars, broken>>,
         \/ err = "EOF" /\ broken
         \/ err # "EOF" /\ Len(read) < Len(begun) /\ ~Acceptable(Expected)
  PROVE  IInv'
<1> USE DEF IInv
<1>1. /\ at' = "over" /\ readErr' = err
      /\ UNCHANGED <<header, need, streamId, read, writeMux, todo, begun, written, broken>>
  BY DEF End, writeVars
<1>2. Typed'
  BY <1>1 DEF Typed
<1>3. WriterIsAmid'
  BY <1>1 DEF WriterIsAmid, Current
<1>4. ReaderIsAmid' /\ Threaded'
  BY <1>1 DEF ReaderIsAmid, Threaded
<1>5. FramesInOrder'
  BY <1>1 DEF FramesInOrder
<1>6. EndHasCause'
  <2>1. Expected' = Expected
    BY <1>1 DEF Expected
  <2>2. Acceptable(Expected)' = Acceptable(Expected)
    BY <2>1 DEF Acceptable
  <2> QED BY <1>1, <2>2 DEF EndHasCause
<1> QED BY <1>2, <1>3, <1>4, <1>5, <1>6

\* The first piece is used up and the reader stays in the frame.
LEMMA GoOnStep ==
  ASSUME IInv, at # "over", at' \in Reading, stream # <<>>, stream' = Tail(stream),
         UNCHANGED <<writeVars, broken, streamId, read, readErr>>,
         header' \in Header,
         need' \in 0..maxMessageSize,
         ReaderIsAmid', ReaderPlace' = Following(ReaderPlace)
  PROVE  IInv'
<1> USE DEF IInv
<1>1. UNCHANGED <<writeMux, todo, begun, written, broken, read>>
  BY DEF writeVars
<1>2. stream' \in Seq(Piece)
  BY HeadTailProperties DEF Typed
<1>3. Typed'
  BY <1>1, <1>2 DEF Typed
<1>4. WriterIsAmid'
  BY <1>1 DEF WriterIsAmid, Current
<1>5. Threaded'
  <2>1. PICK own : Thread(own)
    BY DEF Threaded
  <2>2. \E o : Thread(o)'
    BY <1>1, <2>1, ReaderAdvances
  <2> QED BY <2>2 DEF Threaded
<1>6. FramesInOrder'
  BY <1>1 DEF FramesInOrder
<1>7. EndHasCause'
  BY DEF EndHasCause, Reading
<1> QED BY <1>3, <1>4, <1>5, <1>6, <1>7

\* The first piece is used up and with it the frame.
LEMMA FinishStep ==
  ASSUME IInv, at # "over", stream # <<>>, stream' = Tail(stream),
         UNCHANGED <<writeVars, broken>>, NEW h, NEW size, Finish(h, size),
         Len(read) < Len(written),
         h.tag = Expected.tag, h.good = Expected.good, size = Expected.size,
         Expected.size <= maxMessageSize, Len(Expected.length) <= 6,
         Following(ReaderPlace) = At(Len(read) + 2, 1)
  PROVE  IInv'
<1> USE DEF IInv
<1>1. UNCHANGED <<writeMux, todo, begun, written, broken>>
  BY DEF writeVars
<1>2. stream' \in Seq(Piece)
  BY HeadTailProperties DEF Typed
<1>3. PICK r \in Nat : r = Len(read)
  BY DEF Typed
<1>4. r < Len(begun) /\ r < Len(written) /\ Len(written) \in Nat
  BY <1>3 DEF WriterIsAmid, Typed
<1>5. Expected \in Frames
  BY <1>3, <1>4, ExpectedIs
<1>6. CASE h.tag \notin newMessageForTag
  <2>1. End("unknown tag") /\ ~Acceptable(Expected)
    BY <1>6 DEF Finish, Acceptable
  <2> QED BY <1>2, <1>3, <1>4, <2>1, EndStep
<1>7. CASE h.tag \in newMessageForTag /\ ~h.good
  <2>1. End("proto.Unmarshal") /\ ~Acceptable(Expected)
    BY <1>7 DEF Finish, Acceptable
  <2> QED BY <1>2, <1>3, <1>4, <2>1, EndStep
<1>8. CASE h.tag \in newMessageForTag /\ h.good
  <2>1. PICK message : message = [tag |-> h.tag, size |-> size]
    BY Zenon
  <2>2. /\ streamId' = streamId + 1 /\ read' = Append(read, message)
        /\ at' = "tag" /\ header' = NoHeader /\ need' = 0 /\ readErr' = readErr
    BY <1>8, <2>1 DEF Finish
  <2>3. message \in [tag : 0..255, size : Nat]
    BY <1>5, <2>1, FramesAre
  <2>4. /\ read' \in Seq([tag : 0..255, size : Nat]) /\ Len(read') = r + 1
        /\ \A i \in 1..r : read'[i] = read[i]
        /\ read'[r + 1] = message
    <3>1. read \in Seq([tag : 0..255, size : Nat])
      BY DEF Typed
    <3> QED BY <1>3, <2>2, <2>3, <3>1, AppendProperties
  <2>5. NoHeader \in Header
    BY EmptySeq DEF NoHeader, Header
  <2>6. Typed'
    <3>1. need' \in 0..maxMessageSize
      BY <2>2, LimitsAre
    <3>2. streamId' = Len(read')
      BY <1>3, <2>2, <2>4 DEF Typed
    <3> QED BY <1>1, <1>2, <2>2, <2>4, <2>5, <3>1, <3>2 DEF Typed, Reading
  <2>7. WriterIsAmid'
    BY <1>1 DEF WriterIsAmid, Current
  <2>8. ReaderIsAmid' /\ EndHasCause'
    BY <2>2 DEF ReaderIsAmid, EndHasCause
  <2>9. Threaded'
    <3>1. ReaderPlace' = At(r + 2, 1)
      <4>1. Len(read') + 1 = r + 2
        BY <2>4
      <4> QED BY <2>2, <4>1 DEF ReaderPlace
    <3>2. PICK own : Thread(own)
      BY DEF Threaded
    <3>3. \E o : Thread(o)'
      BY <1>1, <1>3, <3>1, <3>2, ReaderAdvances
    <3> QED BY <3>3 DEF Threaded
  <2>10. FramesInOrder'
    <3>1. DOMAIN read = 1..r /\ DOMAIN read' = 1..(r + 1)
      BY <1>3, <2>4 DEF Typed
    <3>2. \A i \in 1..r : /\ read'[i] = [tag |-> written[i].tag, size |-> written[i].size]
                          /\ Acceptable(written[i])
      BY <2>4, <3>1 DEF FramesInOrder
    <3>3. written[r + 1] = Expected
      BY <1>3, <1>4 DEF WriterIsAmid, Expected
    <3>4. /\ read'[r + 1] = [tag |-> written[r + 1].tag, size |-> written[r + 1].size]
          /\ Acceptable(written[r + 1])
      BY <1>8, <2>1, <2>4, <3>3 DEF Acceptable
    <3>5. \A i \in DOMAIN read' : i \in 1..r \/ i = r + 1
      BY <3>1
    <3>6. \A i \in DOMAIN read' :
            /\ read'[i] = [tag |-> written[i].tag, size |-> written[i].size]
            /\ Acceptable(written[i])
      BY <3>2, <3>4, <3>5
    <3>7. Len(read') <= Len(written)
      BY <1>4, <2>4
    <3> QED BY <1>1, <3>6, <3>7 DEF FramesInOrder
  <2> QED BY <2>6, <2>7, <2>8, <2>9, <2>10
<1> QED BY <1>6, <1>7, <1>8

\* A piece of one byte is used up by one byte.
LEMMA ByteTaken ==
  ASSUME Typed, stream # <<>>, Head(stream).n = 1
  PROVE  After(1) = Tail(stream)
BY DEF After

LEMMA ReadTagStep ==
  ASSUME IInv, ReadTag
  PROVE  IInv'
<1> USE DEF IInv
<1>1. /\ at = "tag" /\ stream # <<>> /\ stream' = After(1) /\ at' = "length"
      /\ header' = [NoHeader EXCEPT !.tag = Head(stream).byte]
      /\ UNCHANGED <<writeVars, broken, need, streamId, read, readErr>>
  BY DEF ReadTag
<1>2. PICK r \in Nat : r = Len(read)
  BY DEF Typed
<1>3. ReaderPlace = At(r + 1, 1)
  BY <1>1, <1>2 DEF ReaderPlace
<1>4. stream[1] \in Piece /\ Head(stream) = stream[1] /\ Carries(1, At(r + 1, 1))
  BY <1>1, <1>3, ReaderFinds
<1>5. r + 1 \in 1..Len(begun) /\ r < Len(begun)
  BY <1>4 DEF Carries, At, Typed
<1>6. Expected \in Frames /\ begun[r + 1] = Expected
  BY <1>2, <1>5, ExpectedIs DEF Expected
<1>7. stream[1].byte = Expected.tag /\ stream[1].n = 1
  <2>1. Pieces(Expected)[1] = Byte(Expected.tag, Expected)
    BY <1>6, PiecesOf
  <2>2. stream[1].n \in Nat \ {0}
    BY <1>4 DEF Piece
  <2> QED BY <1>4, <1>6, <2>1, <2>2 DEF Carries, At, Byte
<1>8. stream' = Tail(stream)
  BY <1>1, <1>4, <1>7, ByteTaken
<1>9. header' = [tag |-> Expected.tag, groups |-> <<>>, good |-> TRUE]
  BY <1>1, <1>4, <1>7 DEF NoHeader
<1>10. header' \in Header
  BY <1>6, <1>9, FramesAre, EmptySeq DEF Header
<1>11. Len(header'.groups) = 0
  BY <1>9, EmptySeq
<1>12. Len(Expected.length) \in Nat /\ Len(Expected.length) >= 1
  BY <1>6, FramesAre
<1>13. Expected' = Expected
  BY <1>1 DEF Expected, writeVars
<1>14. ReaderIsAmid'
  <2>1. Len(begun') = Len(begun) /\ Len(read') = r
    BY <1>1, <1>2 DEF writeVars
  <2> QED BY <1>1, <1>5, <1>9, <1>11, <1>12, <1>13, <2>1 DEF ReaderIsAmid
<1>15. ReaderPlace' = Following(ReaderPlace)
  <2>1. PieceCount(r + 1) \in Nat /\ PieceCount(r + 1) >= 2
    <3>1. \/ PieceCount(r + 1) = Len(Expected.length) + 1
          \/ PieceCount(r + 1) = Len(Expected.length) + 2
      BY <1>6, PiecesOf DEF PieceCount
    <3> QED BY <1>12, <3>1
  <2>2. Following(ReaderPlace) = At(r + 1, 2)
    BY <1>3, <2>1 DEF Following, At
  <2>3. ReaderPlace' = At(r + 1, 2)
    BY <1>1, <1>2, <1>11 DEF ReaderPlace
  <2> QED BY <2>2, <2>3
<1>16. at # "over" /\ at' \in Reading /\ need' \in 0..maxMessageSize
  BY <1>1 DEF Typed, Reading
<1> QED BY <1>1, <1>8, <1>10, <1>14, <1>15, <1>16, GoOnStep

LEMMA ReadEOFStep ==
  ASSUME IInv, ReadEOF
  PROVE  IInv'
<1>1. End("EOF") /\ broken /\ UNCHANGED <<writeVars, stream, broken>>
  BY DEF ReadEOF
<1>2. stream' \in Seq(Piece)
  BY <1>1 DEF IInv, Typed
<1> QED BY <1>1, <1>2, EndStep

LEMMA ReadLengthStep ==
  ASSUME IInv, ReadLength
  PROVE  IInv'
<1> USE DEF IInv
<1> DEFINE b == Head(stream).byte
           h == [header EXCEPT !.groups = Append(@, b % 128), !.good = Head(stream).good]
<1>1. /\ at = "length" /\ stream # <<>> /\ stream' = After(1)
      /\ UNCHANGED <<writeVars, broken>>
  BY DEF ReadLength
<1>2. \/ /\ b >= 128 /\ Len(h.groups) < 6
         /\ header' = h
         /\ UNCHANGED <<at, need, streamId, read, readErr>>
      \/ b >= 128 /\ Len(h.groups) = 6 /\ End("varint is too long")
      \/ b < 128 /\ OutOfRange(Number(h.groups)) /\ End("message length is out of range")
      \/ b < 128 /\ Number(h.groups) = 0 /\ Finish(h, 0)
      \/ /\ b < 128 /\ ~OutOfRange(Number(h.groups)) /\ Number(h.groups) > 0
         /\ header' = h /\ need' = Number(h.groups) /\ at' = "body"
         /\ UNCHANGED <<streamId, read, readErr>>
  BY DEF ReadLength
<1>3. PICK r \in Nat : r = Len(read)
  BY DEF Typed
<1>4. /\ r < Len(begun) /\ header.tag = Expected.tag
      /\ Len(header.groups) < Len(Expected.length) /\ Len(header.groups) < 6
      /\ \A j \in 1..Len(header.groups) : header.groups[j] = Expected.length[j] % 128
  BY <1>1, <1>3 DEF ReaderIsAmid
<1>5. Expected \in Frames /\ begun[r + 1] = Expected /\ r + 1 \in 1..Len(begun)
  BY <1>3, <1>4, ExpectedIs DEF Expected
<1>6. PICK l \in Nat : l = Len(Expected.length) /\ l >= 1
  BY <1>5, FramesAre
<1>7. header.groups \in Seq(Nat) /\ header \in Header
  BY DEF Typed, Header
<1>8. PICK j \in Nat : j = Len(header.groups) + 1 /\ j \in 1..l /\ j <= 6
  <2>1. Len(header.groups) \in Nat
    BY <1>7
  <2>2. Len(header.groups) + 1 \in Nat /\ Len(header.groups) + 1 \in 1..l /\ Len(header.groups) + 1 <= 6
    BY <1>4, <1>6, <2>1
  <2> QED BY <2>2
<1>9. ReaderPlace = At(r + 1, j + 1)
  <2>1. Len(header.groups) + 2 = j + 1
    BY <1>7, <1>8
  <2> QED BY <1>1, <1>3, <2>1 DEF ReaderPlace
<1>10. stream[1] \in Piece /\ Head(stream) = stream[1] /\ Carries(1, At(r + 1, j + 1))
  BY <1>1, <1>9, ReaderFinds
<1>11. PieceCount(r + 1) = l + (IF Expected.size = 0 THEN 1 ELSE 2)
  BY <1>5, <1>6, PiecesOf DEF PieceCount
<1>12. /\ stream[1].byte = Expected.length[j] /\ stream[1].good = Expected.good
       /\ stream[1].n = 1
  <2>1. Pieces(Expected)[j + 1] = Byte(Expected.length[j], Expected)
    BY <1>5, <1>6, <1>8, PiecesOf
  <2>2. stream[1].n \in Nat \ {0}
    BY <1>10 DEF Piece
  <2> QED BY <1>5, <1>10, <2>1, <2>2 DEF Carries, At, Byte
<1>13. stream' = Tail(stream)
  BY <1>1, <1>10, <1>12, ByteTaken
<1>14. stream' \in Seq(Piece)
  <2>1. stream \in Seq(Piece)
    BY DEF Typed
  <2> QED BY <1>1, <1>13, <2>1, HeadTailProperties
<1>15. b \in 0..255 /\ b = Expected.length[j] /\ (b >= 128 <=> j < l)
  <2>1. Expected.length[j] \in 0..255 /\ (Expected.length[j] >= 128 <=> j < l)
    BY <1>5, <1>6, <1>8, FramesAre
  <2>2. b = Expected.length[j]
    BY <1>10, <1>12
  <2> QED BY <2>1, <2>2
<1>16. /\ h \in Header
       /\ h.tag = Expected.tag /\ h.good = Expected.good
       /\ Len(h.groups) = j
       /\ \A i \in 1..j : h.groups[i] = Expected.length[i] % 128
  <2>1. b % 128 \in Nat
    BY <1>15
  <2>2. PICK g : g = Append(header.groups, b % 128)
    BY Zenon
  <2>3. /\ g \in Seq(Nat) /\ Len(g) = Len(header.groups) + 1
        /\ \A i \in 1..Len(header.groups) : g[i] = header.groups[i]
        /\ g[Len(header.groups) + 1] = b % 128
    BY <1>7, <2>1, <2>2, AppendProperties
  <2>4. ASSUME NEW i \in 1..j PROVE g[i] = Expected.length[i] % 128
    <3>1. CASE i = j
      BY <1>8, <1>15, <2>3, <3>1
    <3>2. CASE i # j
      <4>1. i \in 1..Len(header.groups)
        BY <1>7, <1>8, <3>2
      <4> QED BY <1>4, <2>3, <4>1
    <3> QED BY <3>1, <3>2
  <2>5. Head(stream).good \in BOOLEAN /\ Head(stream).good = Expected.good
    BY <1>10, <1>12 DEF Piece
  <2>6. h = [header EXCEPT !.groups = g, !.good = Head(stream).good]
    BY <2>2
  <2> HIDE DEF h
  <2>7. h \in Header /\ h.tag = header.tag /\ h.groups = g /\ h.good = Head(stream).good
    <3>1. g \in Seq(Nat) /\ header \in Header
      BY <1>7, <2>3
    <3>2. PICK good \in BOOLEAN : good = Head(stream).good
      BY <2>5
    <3>3. h = [header EXCEPT !.groups = g, !.good = good]
      BY <2>6, <3>2
    <3>4. h \in Header /\ h.tag = header.tag /\ h.groups = g /\ h.good = good
      BY <3>1, <3>2, <3>3 DEF Header
    <3> QED BY <3>2, <3>4
  <2> QED BY <1>4, <1>8, <2>3, <2>4, <2>5, <2>7
<1> HIDE DEF h, b
<1>17. b < 128 => j = l /\ Number(h.groups) = IF Expected.size < Huge THEN Expected.size ELSE Huge
  <2> SUFFICES ASSUME b < 128
               PROVE  j = l /\ Number(h.groups) = IF Expected.size < Huge THEN Expected.size ELSE Huge
    OBVIOUS
  <2>1. j = l
    BY <1>8, <1>15
  <2>2. ASSUME NEW i \in 1..l PROVE Expected.length[i] % 128 \in Nat
    <3>1. PICK x \in 0..255 : x = Expected.length[i]
      BY <1>5, <1>6, FramesAre
    <3>2. x % 128 \in Nat
      OBVIOUS
    <3> QED BY <3>1, <3>2
  <2>3. Groups(Expected.length) \in Seq(Nat) /\ Len(Groups(Expected.length)) = l
    BY <1>6, <2>2 DEF Groups
  <2>4. \A i \in 1..l : Groups(Expected.length)[i] = Expected.length[i] % 128
    BY <1>6 DEF Groups
  <2>5. h.groups \in Seq(Nat) /\ Len(h.groups) = l
        /\ \A i \in 1..l : h.groups[i] = Groups(Expected.length)[i]
    BY <1>16, <2>1, <2>4 DEF Header
  <2>6. h.groups = Groups(Expected.length)
    BY <2>3, <2>5, SeqEqual
  <2>7. Number(Groups(Expected.length)) = IF Expected.size < Huge THEN Expected.size ELSE Huge
    BY <1>5, FramingAssumption DEF FramingAssumption
  <2> QED BY <2>1, <2>6, <2>7
<1>18. Expected.size \in Nat /\ Len(read) < Len(begun)
  BY <1>3, <1>4, <1>5, FramesAre
<1>19. Expected' = Expected \/ read' # read
  BY <1>1 DEF Expected, writeVars
<1>20. begun' = begun
  BY <1>1 DEF writeVars
<1>21. CASE /\ b >= 128 /\ Len(h.groups) < 6
            /\ header' = h
            /\ UNCHANGED <<at, need, streamId, read, readErr>>
  <2>1. j < l /\ j < 6
    BY <1>15, <1>16, <1>21
  <2>2. Following(ReaderPlace) = At(r + 1, j + 2)
    <3>1. j + 1 < PieceCount(r + 1)
      BY <1>11, <2>1
    <3> QED BY <1>9, <3>1 DEF Following, At
  <2>3. ReaderPlace' = At(r + 1, j + 2)
    BY <1>1, <1>3, <1>16, <1>21 DEF ReaderPlace
  <2>4. ReaderIsAmid'
    BY <1>1, <1>3, <1>4, <1>6, <1>16, <1>19, <1>20, <1>21, <2>1 DEF ReaderIsAmid
  <2>5. at # "over" /\ at' \in Reading /\ need' \in 0..maxMessageSize
    BY <1>1, <1>21 DEF Typed, Reading
  <2> QED BY <1>1, <1>13, <1>16, <1>21, <2>2, <2>3, <2>4, <2>5, GoOnStep
<1>22. CASE b >= 128 /\ Len(h.groups) = 6 /\ End("varint is too long")
  <2>1. Len(Expected.length) > 6
    BY <1>6, <1>15, <1>16, <1>22
  <2>2. ~Acceptable(Expected)
    BY <1>6, <2>1 DEF Acceptable
  <2> QED BY <1>1, <1>14, <1>18, <1>22, <2>2, EndStep
<1>23. CASE b < 128 /\ OutOfRange(Number(h.groups)) /\ End("message length is out of range")
  <2>1. Expected.size > maxMessageSize
    <3>1. Number(h.groups) > maxMessageSize
      BY <1>23 DEF OutOfRange
    <3>2. CASE Expected.size < Huge
      BY <1>17, <1>23, <3>1, <3>2
    <3>3. CASE ~(Expected.size < Huge)
      BY <1>18, <3>3, LimitsAre
    <3> QED BY <3>2, <3>3
  <2>2. ~Acceptable(Expected)
    BY <1>18, <2>1, LimitsAre DEF Acceptable
  <2> QED BY <1>1, <1>14, <1>18, <1>23, <2>2, EndStep
<1>24. CASE b < 128 /\ Number(h.groups) = 0 /\ Finish(h, 0)
  <2>1. Expected.size = 0 /\ j = l
    BY <1>17, <1>18, <1>24, LimitsAre
  <2>2. PieceCount(r + 1) = j + 1
    BY <1>11, <2>1
  <2>3. Following(ReaderPlace) = At(Len(read) + 2, 1)
    <3>1. r + 1 + 1 = Len(read) + 2
      BY <1>3
    <3> QED BY <1>9, <2>2, <3>1 DEF Following, At
  <2>4. Len(read) < Len(written)
    BY <1>3, <1>10, <2>2 DEF Carries, At, Typed
  <2>5. Expected.size <= maxMessageSize /\ Len(Expected.length) <= 6
    BY <1>6, <1>8, <2>1, LimitsAre
  <2> QED BY <1>1, <1>13, <1>16, <1>24, <2>1, <2>3, <2>4, <2>5, FinishStep
<1>25. CASE /\ b < 128 /\ ~OutOfRange(Number(h.groups)) /\ Number(h.groups) > 0
            /\ header' = h /\ need' = Number(h.groups) /\ at' = "body"
            /\ UNCHANGED <<streamId, read, readErr>>
  <2>1. j = l /\ Number(h.groups) = Expected.size /\ Expected.size \in 1..maxMessageSize
    BY <1>17, <1>18, <1>25, LimitsAre DEF OutOfRange
  <2>2. Following(ReaderPlace) = At(r + 1, l + 2)
    <3>1. j + 1 < PieceCount(r + 1) /\ j + 1 + 1 = l + 2
      BY <1>11, <2>1
    <3> QED BY <1>9, <3>1 DEF Following, At
  <2>3. Expected' = Expected /\ Len(read') = r
    BY <1>3, <1>19, <1>25
  <2>4. ReaderPlace' = At(r + 1, l + 2)
    BY <1>6, <1>25, <2>3 DEF ReaderPlace
  <2>5. ReaderIsAmid'
    <3>1. need' \in 1..Expected.size /\ need' = Expected.size
      BY <1>25, <2>1
    <3> QED BY <1>4, <1>6, <1>8, <1>16, <1>20, <1>25, <2>1, <2>3, <3>1 DEF ReaderIsAmid
  <2>6. at # "over" /\ at' \in Reading /\ need' \in 0..maxMessageSize
    BY <1>1, <1>25, <2>1 DEF Reading
  <2> QED BY <1>1, <1>13, <1>16, <1>25, <2>2, <2>4, <2>5, <2>6, GoOnStep
<1> QED BY <1>2, <1>21, <1>22, <1>23, <1>24, <1>25

LEMMA ThreadOfOne ==
  ASSUME NEW p \in Place
  PROVE  \E own \in [1..1 -> Place] : own[1] = p
<1> DEFINE one == [i \in 1..1 |-> p]
<1>1. one \in [1..1 -> Place] /\ one[1] = p
  OBVIOUS
<1> HIDE DEF one
<1> QED BY <1>1

LEMMA ReadBodyStep ==
  ASSUME IInv, ReadBody
  PROVE  IInv'
<1> USE DEF IInv
<1> DEFINE n == IF Head(stream).n < need THEN Head(stream).n ELSE need
           h == [header EXCEPT !.good = @ /\ Head(stream).good]
<1>1. /\ at = "body" /\ stream # <<>> /\ stream' = After(n)
      /\ UNCHANGED <<writeVars, broken>>
      /\ IF n < need
         THEN need' = need - n /\ UNCHANGED <<at, header, streamId, read, readErr>>
         ELSE Finish(h, Number(header.groups))
  BY DEF ReadBody
<1>2. PICK r \in Nat : r = Len(read)
  BY DEF Typed
<1>3. /\ r < Len(begun) /\ header.tag = Expected.tag /\ header.good = Expected.good
      /\ Number(header.groups) = Expected.size
      /\ Expected.size <= maxMessageSize /\ Len(Expected.length) <= 6
      /\ need \in 1..Expected.size /\ need = Expected.size
  BY <1>1, <1>2 DEF ReaderIsAmid
<1>4. Expected \in Frames /\ begun[r + 1] = Expected /\ r + 1 \in 1..Len(begun)
  BY <1>2, <1>3, ExpectedIs DEF Expected
<1>5. PICK l \in Nat : l = Len(Expected.length)
  BY <1>4, FramesAre
<1>6. ReaderPlace = At(r + 1, l + 2)
  BY <1>1, <1>2, <1>5 DEF ReaderPlace
<1>7. stream[1] \in Piece /\ Head(stream) = stream[1] /\ Carries(1, At(r + 1, l + 2))
  BY <1>1, <1>6, ReaderFinds
<1>8. Expected.size \in Nat \ {0} /\ need \in Nat
  BY <1>3, <1>4, FramesAre
<1>9. PieceCount(r + 1) = l + 2
  BY <1>4, <1>5, <1>8, PiecesOf DEF PieceCount
<1>10. /\ stream[1].good = Expected.good /\ stream[1].n <= Expected.size
       /\ stream[1].n < Expected.size => broken /\ 1 = Len(stream)
  <2>1. Pieces(Expected)[l + 2] = Body(Expected)
    BY <1>4, <1>5, <1>8, PiecesOf
  <2> QED BY <1>4, <1>7, <2>1 DEF Carries, At, Body
<1>11. Head(stream).n \in Nat \ {0}
  BY <1>7 DEF Piece
<1>12. stream' = Tail(stream)
  BY <1>1, <1>3, <1>7, <1>8, <1>10, <1>11 DEF After
<1>13. CASE Head(stream).n < need
  <2>1. /\ need' = need - Head(stream).n
        /\ UNCHANGED <<at, header, streamId, read, readErr, begun, written, todo, writeMux, broken>>
    BY <1>1, <1>13 DEF writeVars
  <2>2. broken /\ Len(stream) = 1
    BY <1>3, <1>7, <1>10, <1>13
  <2>3. stream' \in Seq(Piece) /\ stream' = <<>>
    <3>1. stream' \in Seq(Piece) /\ Len(stream') = 0
      <4>1. stream \in Seq(Piece)
        BY DEF Typed
      <4> QED BY <1>1, <1>12, <2>2, <4>1, HeadTailProperties
    <3> QED BY <3>1, EmptySeq
  <2>4. need' \in 1..Expected.size /\ need' \in 0..maxMessageSize
    BY <1>3, <1>8, <1>11, <1>13, <2>1, LimitsAre
  <2>5. Expected' = Expected
    BY <2>1 DEF Expected
  <2>6. Typed'
    BY <2>1, <2>3, <2>4 DEF Typed
  <2>7. WriterIsAmid' /\ FramesInOrder'
    BY <2>1 DEF WriterIsAmid, Current, FramesInOrder
  <2>8. ReaderIsAmid'
    BY <1>1, <1>2, <1>3, <2>1, <2>2, <2>3, <2>4, <2>5 DEF ReaderIsAmid
  <2>9. Threaded'
    <3>1. PICK own \in [1..1 -> Place] : own[1] = ReaderPlace'
      <4>1. ReaderPlace' = At(r + 1, l + 2)
        BY <1>1, <1>2, <1>5, <2>1, <2>5 DEF ReaderPlace
      <4>2. At(r + 1, l + 2) \in Place
        BY DEF At, Place
      <4>3. \E own \in [1..1 -> Place] : own[1] = At(r + 1, l + 2)
        BY <4>2, ThreadOfOne
      <4> QED BY <4>1, <4>3
    <3>2. Len(stream') = 0
      BY <2>3, EmptySeq
    <3>3. Thread(own)'
      BY <2>1, <2>2, <3>1, <3>2 DEF Thread
    <3> QED BY <3>3 DEF Threaded
  <2>10. EndHasCause'
    BY <1>1, <2>1 DEF EndHasCause
  <2> QED BY <2>6, <2>7, <2>8, <2>9, <2>10
<1>14. CASE ~(Head(stream).n < need)
  <2>1. Finish(h, Number(header.groups))
    BY <1>1, <1>8, <1>14
  <2>2. h.tag = Expected.tag /\ h.good = Expected.good
    <3>1. header \in Header
      BY DEF Typed
    <3> QED BY <1>3, <1>7, <1>10, <3>1 DEF Header
  <2>3. Following(ReaderPlace) = At(Len(read) + 2, 1)
    <3>1. r + 1 + 1 = Len(read) + 2
      BY <1>2
    <3> QED BY <1>6, <1>9, <3>1 DEF Following, At
  <2>4. Len(read) < Len(written)
    BY <1>2, <1>7, <1>9 DEF Carries, At, Typed
  <2> QED BY <1>1, <1>3, <1>12, <2>1, <2>2, <2>3, <2>4, FinishStep
<1> QED BY <1>13, <1>14
\* What follows of the thread once there is nothing between reader and writer.
LEMMA NothingBetween ==
  ASSUME Typed, WriterIsAmid, ReaderIsAmid, Threaded, FramesInOrder
  PROVE  ReaderKeepsUp
<1> SUFFICES ASSUME stream = <<>>, todo = <<>>, ~broken, at # "over"
             PROVE  at = "tag" /\ Len(read) = Len(written)
  BY DEF ReaderKeepsUp
<1>1. Len(stream) = 0
  BY EmptySeq
<1>2. PICK own : Thread(own)
  BY DEF Threaded
<1>3. ReaderPlace = WriterPlace
  BY <1>1, <1>2 DEF Thread
<1>4. WriterPlace = At(Len(begun) + 1, 1)
  BY DEF WriterPlace
<1>5. Len(read) \in Nat /\ Len(begun) \in Nat /\ Len(header.groups) \in Nat
  BY DEF Typed
<1>6. Len(read) = Len(begun)
  BY <1>3, <1>4, <1>5 DEF ReaderPlace, At
<1>7. at = "tag"
  BY <1>6, <1>5 DEF ReaderIsAmid, Typed, Reading
<1> QED BY <1>6, <1>7 DEF WriterIsAmid


-----------------------------------------------------------------------------
(* The invariant and what follows from it.                                 *)

LEMMA FramingInit == FrameInit => IInv
<1> SUFFICES ASSUME FrameInit PROVE IInv
  OBVIOUS
<1> USE DEF FrameInit
<1>1. Len(stream) = 0 /\ Len(begun) = 0 /\ Len(written) = 0 /\ Len(read) = 0
  BY EmptySeq
<1>2. Typed
  <2>1. header \in Header
    BY EmptySeq DEF NoHeader, Header
  <2>2. need \in 0..maxMessageSize
    BY LimitsAre
  <2>3. at \in Reading \cup {"over"} /\ writeMux \in Writers \cup {"none"} /\ broken \in BOOLEAN
    BY DEF Reading
  <2>4. /\ begun \in Seq(Frames) /\ written \in Seq(Frames) /\ todo \in Seq(Piece)
        /\ stream \in Seq(Piece) /\ read \in Seq([tag : 0..255, size : Nat])
    BY EmptySeq
  <2>5. streamId = Len(read) /\ (writeMux = "none" <=> todo = <<>>)
    BY <1>1
  <2> QED BY <2>1, <2>2, <2>3, <2>4, <2>5 DEF Typed
<1>3. WriterIsAmid /\ ReaderIsAmid /\ FramesInOrder /\ EndHasCause
  BY <1>1, EmptySeq DEF WriterIsAmid, ReaderIsAmid, FramesInOrder, EndHasCause
<1>4. Threaded
  <2>1. ReaderPlace = At(1, 1) /\ WriterPlace = At(1, 1) /\ At(1, 1) \in Place
    BY <1>1 DEF ReaderPlace, WriterPlace, At, Place
  <2>2. PICK own \in [1..1 -> Place] : own[1] = At(1, 1)
    BY <2>1, ThreadOfOne
  <2>3. Thread(own)
    BY <1>1, <2>1, <2>2 DEF Thread
  <2> QED BY <2>3 DEF Threaded
<1> QED BY <1>2, <1>3, <1>4 DEF IInv

LEMMA FramingStep == IInv /\ [FrameNext]_frameVars => IInv'
<1> SUFFICES ASSUME IInv, [FrameNext]_frameVars PROVE IInv'
  OBVIOUS
<1>1. CASE FrameNext
  BY <1>1, LockAndBeginStep, WritePieceStep, WriteFailsStep, BreakStep, ReadTagStep,
     ReadLengthStep, ReadBodyStep, ReadEOFStep
  DEF FrameNext, WriterStep, ReaderStep
<1>2. CASE UNCHANGED frameVars
  <2>1. Typed' /\ WriterIsAmid'
    BY <1>2 DEF frameVars, writeVars, readVars, IInv, Typed, WriterIsAmid, Current
  <2>2. ReaderIsAmid' /\ FramesInOrder' /\ EndHasCause'
    BY <1>2 DEF frameVars, writeVars, readVars, IInv, ReaderIsAmid, Expected, FramesInOrder,
       EndHasCause
  <2>3. ASSUME NEW own, Thread(own) PROVE Thread(own)'
    BY <1>2, <2>3 DEF frameVars, writeVars, readVars, Thread, Carries, Following, PieceCount,
       ReaderPlace, WriterPlace, Expected
  <2>4. Threaded'
    BY <1>2, <2>3 DEF frameVars, readVars, IInv, Threaded
  <2> QED BY <2>1, <2>2, <2>4 DEF IInv
<1> QED BY <1>1, <1>2

\* The inductive invariant of one connection: the pieces on the way are those
\* between what the reader expects and what the writer wrote last.
THEOREM FramingInvariant == FrameSpec => []IInv
BY FramingInit, FramingStep, PTL DEF FrameSpec

\* For any writers and frames every variable keeps its type, and writeMux is held
\* exactly while a frame has still to be written.
THEOREM FramingTypeCorrect == FrameSpec => []FrameTypeOK
<1>1. ASSUME Typed PROVE FrameTypeOK
  <2>1. \A i \in DOMAIN stream : stream[i] \in Piece
    BY <1>1, ElementOfSeq DEF Typed
  <2> QED BY <1>1, <2>1 DEF Typed, FrameTypeOK, Piece
<1>2. IInv => FrameTypeOK
  BY <1>1 DEF IInv
<1> QED BY <1>2, FramingInvariant, PTL

\* However many goroutines write, whatever they write and wherever the connection
\* breaks, the messages read are the frames written, whole and in their order.
THEOREM FramesArriveInOrder == FrameSpec => []FramesInOrder
<1>1. IInv => FramesInOrder
  BY DEF IInv
<1> QED BY <1>1, FramingInvariant, PTL

\* The read loop keeps up with what is written, and ends only because the
\* connection is gone or at a frame that deserves it.
THEOREM EndsAreJustified == FrameSpec => []EndIsJustified
<1>1. ASSUME IInv PROVE EndIsJustified
  BY <1>1, NothingBetween DEF IInv, EndIsJustified, EndHasCause, Expected
<1>2. IInv => EndIsJustified
  BY <1>1
<1> QED BY <1>2, FramingInvariant, PTL

-----------------------------------------------------------------------------
(* The frames this program writes.                                         *)

LEMMA OwnGroupsAre ==
  ASSUME NEW v \in Word, v >= 0
  PROVE  LET g == Groups(VarInt(v))
         IN /\ Len(g) = sov(v) /\ sov(v) \in 1..5
            /\ \A j \in 1..sov(v) : g[j] = Group(v, j - 1)
<1>1. PICK n \in 1..5 : n = sov(v)
  BY RoundsAre
<1>2. /\ Len(VarInt(v)) = n
      /\ \A j \in 1..n : VarInt(v)[j] % 128 = Group(v, j - 1)
  BY <1>1, EncodedIs DEF VarInt
<1>3. Groups(VarInt(v)) = [j \in 1..n |-> VarInt(v)[j] % 128]
  BY <1>2, Zenon DEF Groups
<1>4. Len(Groups(VarInt(v))) = n
  BY <1>3
<1>5. \A j \in 1..n : Groups(VarInt(v))[j] = Group(v, j - 1)
  BY <1>2, <1>3, Zenon
<1> QED BY <1>1, <1>4, <1>5, Zenon

\* The groups that are there, and zeros behind them.
LEMMA DigitsAre ==
  ASSUME NEW v \in Word, v >= 0, NEW j \in 1..5
  PROVE  (IF j <= sov(v) THEN Group(v, j - 1) ELSE 0) = Group(v, j - 1)
<1>1. v \in Int /\ 0 <= v
  BY SMT DEF Word
<1>2. CASE j <= sov(v)
  BY <1>2
<1>3. CASE ~(j <= sov(v))
  <2>1. sov(v) \in 1..5
    BY RoundsAre
  <2>2. /\ sov(v) <= 1 => v < 128
        /\ sov(v) <= 2 => v < 16384
        /\ sov(v) <= 3 => v < 2097152
        /\ sov(v) <= 4 => v < 268435456
    BY <1>1, SMT DEF sov
  <2>3. j # 1
    BY <1>3, <2>1, SMT
  <2>4. CASE j = 2
    BY <1>1, <1>3, <2>1, <2>2, <2>4, SMT DEF Group, Shifted
  <2>5. CASE j = 3
    BY <1>1, <1>3, <2>1, <2>2, <2>5, SMT DEF Group, Shifted
  <2>6. CASE j = 4
    BY <1>1, <1>3, <2>1, <2>2, <2>6, SMT DEF Group, Shifted
  <2>7. CASE j = 5
    BY <1>1, <1>3, <2>1, <2>2, <2>7, SMT DEF Group, Shifted
  <2> QED BY <2>3, <2>4, <2>5, <2>6, <2>7, SMT
<1> QED BY <1>2, <1>3

\* What writeVarIntLocked writes for a length, readVarInt reads as that length: the
\* part of FramingAssumption that speaks of length fields holds for the frames of
\* writeMessage, whose length has five bytes at most.
THEOREM OwnLengthsAreRead ==
  ASSUME NEW v \in Word, v >= 0
  PROVE  /\ VarInt(v) \in Seq(0..255) /\ VarInt(v) # <<>> /\ Len(VarInt(v)) <= 5
         /\ \A i \in 1..Len(VarInt(v)) : VarInt(v)[i] >= 128 <=> i < Len(VarInt(v))
         /\ Number(Groups(VarInt(v))) = IF v < Huge THEN v ELSE Huge
<1>1. /\ VarInt(v) \in Seq(Octet) /\ Len(VarInt(v)) = sov(v) /\ sov(v) \in 1..5
      /\ \A j \in 1..sov(v) : VarInt(v)[j] >= 128 <=> j < sov(v)
  BY EncodedIs, RoundsAre DEF VarInt
<1>2. VarInt(v) # <<>> /\ Len(VarInt(v)) <= 5
  BY <1>1, SMT
<1>3. PICK g : g = Groups(VarInt(v))
  OBVIOUS
<1> DEFINE d(j) == IF j <= Len(g) THEN g[j] ELSE 0
           q1 == v \div 128
           q2 == v \div 16384
           q3 == v \div 2097152
           q4 == v \div 268435456
<1>4. ASSUME NEW j \in 1..5 PROVE d(j) = Group(v, j - 1)
  <2>1. Len(g) = sov(v) /\ \A k \in 1..sov(v) : g[k] = Group(v, k - 1)
    BY <1>3, OwnGroupsAre, Zenon
  <2>2. CASE j <= sov(v)
    <3>1. j \in 1..sov(v)
      BY <1>1, <2>2, SMT
    <3> QED BY <2>1, <2>2, <3>1, Zenon
  <2>3. CASE ~(j <= sov(v))
    BY <2>1, <2>3, DigitsAre, Zenon
  <2> QED BY <2>2, <2>3
<1>5. d(1) = Group(v, 0) /\ d(2) = Group(v, 1) /\ d(3) = Group(v, 2) /\ d(4) = Group(v, 3)
      /\ d(5) = Group(v, 4)
  BY <1>4, SMT
<1>6. d(6) = 0
  BY <1>1, <1>3, OwnGroupsAre, SMT
<1>7. v \in Int /\ v <= 2147483647 /\ q1 \in Int /\ q2 \in Int /\ q3 \in Int /\ q4 \in Int
  BY SMT DEF Word
<1>8. q4 < 8
  BY <1>7, SMT
<1>9. Number(g) = IF d(5) >= 8 \/ d(6) > 0 THEN Huge
                  ELSE d(1) + 128 * (d(2) + 128 * (d(3) + 128 * (d(4) + 128 * d(5))))
  BY SMT DEF Number
<1> HIDE DEF d
<1>10. /\ Group(v, 0) \in 0..127 /\ Group(v, 1) \in 0..127 /\ Group(v, 2) \in 0..127
       /\ Group(v, 3) \in 0..127 /\ Group(v, 4) \in 0..127
  BY <1>7, GroupIsSmall, SMT
<1>11. /\ v = Group(v, 0) + 128 * q1 /\ q1 = Group(v, 1) + 128 * q2
       /\ q2 = Group(v, 2) + 128 * q3 /\ q3 = Group(v, 3) + 128 * q4
       /\ q4 = Group(v, 4) + (IF v < 0 THEN -128 ELSE 0)
  BY GroupsAre, SMT
<1> HIDE DEF q1, q2, q3, q4
<1>12. d(1) \in Int /\ d(2) \in Int /\ d(3) \in Int /\ d(4) \in Int /\ d(5) \in Int
  BY <1>5, <1>10, SMT
<1>13. Number(g) = v
  BY <1>5, <1>6, <1>7, <1>8, <1>9, <1>11, <1>12, SMT
<1>14. v = IF v < Huge THEN v ELSE Huge
  BY <1>7, SMT DEF Huge
<1> QED BY <1>1, <1>2, <1>3, <1>13, <1>14, Zenon DEF Octet

\* Between two programs that both write with writeMessage, and only messages of
\* the protocol up to 32 MiB, the read loop never ends with an error but EOF, and
\* with that only when the connection is gone.
THEOREM OwnFramesAreNeverRefused ==
  ASSUME \A f \in Frames : /\ f.tag \in newMessageForTag /\ f.good
                           /\ f.size <= maxMessageSize /\ f.length = VarInt(f.size)
  PROVE  FrameSpec => [](at = "over" => readErr = "EOF" /\ broken)
<1>1. ASSUME NEW f \in Frames PROVE Acceptable(f)
  <2>1. f.size \in Nat /\ f.size <= maxMessageSize
    BY FramesAre
  <2>2. f.size \in Word /\ f.size >= 0
    BY <2>1, SMT DEF Word, maxMessageSize
  <2>3. Len(VarInt(f.size)) <= 5
    BY <2>2, OwnLengthsAreRead, Zenon
  <2>4. Len(f.length) <= 6
    <3>1. Len(f.length) \in Nat /\ Len(f.length) <= 5
      BY <2>3, FramesAre
    <3> QED BY <3>1
  <2> QED BY <2>4 DEF Acceptable
<1>2. ASSUME IInv PROVE at = "over" => readErr = "EOF" /\ broken
  <2> SUFFICES ASSUME at = "over" PROVE readErr = "EOF" /\ broken
    OBVIOUS
  <2>1. \/ readErr = "EOF" /\ broken
        \/ Len(read) < Len(begun) /\ ~Acceptable(Expected)
    BY <1>2 DEF IInv, EndHasCause
  <2>2. Len(read) < Len(begun) => Expected \in Frames
    <3>1. read \in Seq([tag : 0..255, size : Nat]) /\ begun \in Seq(Frames)
      BY <1>2 DEF IInv, Typed
    <3>2. Len(read) < Len(begun) => Len(read) + 1 \in 1..Len(begun)
      BY <3>1
    <3> QED BY <3>1, <3>2, ElementOfSeq DEF Expected
  <2> QED BY <1>1, <2>1, <2>2
<1>3. IInv => (at = "over" => readErr = "EOF" /\ broken)
  BY <1>2
<1> QED BY <1>3, FramingInvariant, PTL
==============================================================================
