-------------------------------- MODULE Varint --------------------------------
(* Integers and lengths on the wire, as the generated code of src/api writes and
   reads them: varints, fixed integers and length-delimited bytes.

   Bytes are the integers 0..255 and a wire is a sequence of them.  Integers are
   32 bits wide here: a uint64 is written down as the int64 of the same bits, and
   64-bit values that do not fit 32 bits are left out.                         *)
EXTENDS Integers, Sequences

Octet == 0..255

\* What a function with an error result returns, and the rest of its caller,
\* which returns the error at once or goes on with the value.
Ok(v)  == [err |-> "none", val |-> v]
Err(e) == [err |-> e]
Failed(r) == r.err # "none"
Then(r, Rest(_)) == IF Failed(r) THEN r ELSE Rest(r.val)

------------------------------------------------------------------------------
(* Writing. *)

\* v >> 7 * i, for the shifts that leave something of a number of 32 bits.
Shifted(v, i) == CASE i = 0 -> v
                   [] i = 1 -> v \div 128
                   [] i = 2 -> v \div 16384
                   [] i = 3 -> v \div 2097152
                   [] OTHER -> v \div 268435456

\* Number i (from 0) of the groups of seven bits of v, as a 64-bit integer.
Group(v, i) == IF i < 5 THEN Shifted(v, i) % 128
               ELSE IF v >= 0 THEN 0 ELSE IF i = 9 THEN 1 ELSE 127

\* How many sevens the significant bits of v are: SizeVT reserves so many bytes.
sov(v) == IF v < 0 THEN 10
          ELSE IF v < 128 THEN 1
          ELSE IF v < 16384 THEN 2
          ELSE IF v < 2097152 THEN 3
          ELSE IF v < 268435456 THEN 4 ELSE 5

\* How often the loop of encodeVarint goes round: until what is left is below 128.
Rounds(v) == IF v < 0 THEN 10
             ELSE CHOOSE n \in 1..5 : /\ Shifted(v, n - 1) < 128
                                      /\ \A i \in 1..(n - 1) : Shifted(v, i - 1) >= 128

encodeVarint(v) ==
    [i \in 1..Rounds(v) |-> Group(v, i - 1) + IF i < Rounds(v) THEN 128 ELSE 0]

\* Number i (from 1) of the bytes of v, the lowest first.
ByteOf(v, i) == CASE i = 1 -> v % 256
                  [] i = 2 -> (v \div 256) % 256
                  [] i = 3 -> (v \div 65536) % 256
                  [] i = 4 -> (v \div 16777216) % 256
                  [] OTHER -> IF v < 0 THEN 255 ELSE 0

LittleEndian(v, n) == [i \in 1..n |-> ByteOf(v, i)]

Prefixed(b) == encodeVarint(Len(b)) \o b

------------------------------------------------------------------------------
(* Reading. *)

\* The number of at most nine digits, the lowest first, and top above them.
Horner(digits, radix, top) ==
    LET Add(i, above) == IF i <= Len(digits) THEN digits[i] + radix * above ELSE above
    IN Add(1, Add(2, Add(3, Add(4, Add(5, Add(6, Add(7, Add(8, Add(9, top)))))))))

FixedInt(b) == Horner(b, 256, IF b[Len(b)] >= 128 THEN -1 ELSE 0)

\* v |= int64(b&0x7F) << shift: of a tenth group only the sign bit is kept.
Int64(g) == Horner(g, 128, IF Len(g) = 10 /\ g[10] % 2 = 1 THEN -1 ELSE 0)

\* v |= int32(b&0x7F) << shift: four bits of the fifth group and nothing above.
Int32(g) == IF Len(g) < 5 THEN Horner(g, 128, 0)
            ELSE Horner(SubSeq(g, 1, 4), 128,
                        IF g[5] % 16 >= 8 THEN (g[5] % 16) - 16 ELSE g[5] % 16)

\* The loop every varint is read with: groups until a byte without 0x80.
ReadVarint(b, i) ==
    LET last == IF Len(b) < i + 9 THEN Len(b) ELSE i + 9
        ends == {j \in i..last : b[j] < 128}
        end  == CHOOSE j \in ends : \A k \in ends : j <= k
    IN IF ends # {} THEN Ok([bytes |-> [j \in 1..(end - i + 1) |-> b[i + j - 1] % 128], next |-> end + 1])
       ELSE Err(IF last = i + 9 THEN "ErrIntOverflow" ELSE "ErrUnexpectedEOF")

SliceToEnd(b, i, n) == \* mutant: what is there of the n bytes
    IF n < 0 THEN Err("ErrInvalidLength")
    ELSE IF i + n - 1 > Len(b) THEN Ok([bytes |-> SubSeq(b, i, Len(b)), next |-> Len(b) + 1])
    ELSE Ok([bytes |-> SubSeq(b, i, i + n - 1), next |-> i + n])

\* The n bytes from i, with the check of their end against the buffer's.
Slice(b, i, n) ==
    IF n < 0 THEN Err("ErrInvalidLength")
    ELSE IF i + n - 1 > Len(b) THEN Err("ErrUnexpectedEOF")
    ELSE Ok([bytes |-> SubSeq(b, i, i + n - 1), next |-> i + n])

\* What follows a key, by its wire type.
Payload(b, i, wireType) ==
    CASE wireType = 0 -> ReadVarint(b, i)
      [] wireType = 1 -> Slice(b, i, 8)
      [] wireType = 5 -> Slice(b, i, 4)
      [] OTHER        -> Then(ReadVarint(b, i), LAMBDA l : Slice(b, l.next, Int64(l.bytes)))
==============================================================================
