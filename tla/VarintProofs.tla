----------------------------- MODULE VarintProofs -----------------------------
(***************************************************************************)
(* Proofs about Varint: what is written is read back, for every number of  *)
(* 32 bits and wherever it stands on the wire; a cut is noticed; a reader  *)
(* stays within its buffer and gets on.                                    *)
(***************************************************************************)
EXTENDS Varint, SequenceTheorems, TLAPS

\* The numbers of 32 bits.
Word == {v \in Int : -2147483648 <= v /\ v <= 2147483647}

-----------------------------------------------------------------------------
(* The groups of a number.                                                 *)

LEMMA ShiftBySeven ==
  ASSUME NEW v \in Int
  PROVE  /\ v = (v % 128) + 128 * (v \div 128)
         /\ v \div 128 = ((v \div 128) % 128) + 128 * (v \div 16384)
         /\ v \div 16384 = ((v \div 16384) % 128) + 128 * (v \div 2097152)
         /\ v \div 2097152 = ((v \div 2097152) % 128) + 128 * (v \div 268435456)
BY SMT

\* All groups are seven bits.
LEMMA GroupIsSmall ==
  ASSUME NEW v \in Int, NEW i \in 0..9
  PROVE  Group(v, i) \in 0..127
<1>1. CASE i >= 5
  BY <1>1, SMT DEF Group
<1>2. CASE i < 5
  <2>1. Shifted(v, i) \in Int
    BY <1>2, SMT DEF Shifted
  <2>2. Shifted(v, i) % 128 \in 0..127
    BY <2>1, SMT
  <2> QED BY <1>2, <2>2, SMT DEF Group
<1> QED BY <1>1, <1>2

\* What SizeVT reserves is what the loop of encodeVarint writes.
LEMMA RoundsAre ==
  ASSUME NEW v \in Word
  PROVE  /\ Rounds(v) = sov(v) /\ sov(v) \in 1..10
         /\ v >= 0 => sov(v) \in 1..5
         /\ v < 0 => sov(v) = 10
<1>1. v \in Int /\ -2147483648 <= v /\ v <= 2147483647
  BY SMT DEF Word
<1>2. CASE v < 0
  BY <1>1, <1>2, SMT DEF Rounds, sov
<1>3. CASE v >= 0
  <2>1. sov(v) \in 1..5
    BY <1>1, <1>3, SMT DEF sov
  <2>2. /\ Shifted(v, 0) < 128 <=> sov(v) <= 1
        /\ Shifted(v, 1) < 128 <=> sov(v) <= 2
        /\ Shifted(v, 2) < 128 <=> sov(v) <= 3
        /\ Shifted(v, 3) < 128 <=> sov(v) <= 4
        /\ Shifted(v, 4) < 128
    <3>1. v < 128 <=> sov(v) <= 1
      BY <1>1, <1>3, SMT DEF sov
    <3>2. v \div 128 < 128 <=> sov(v) <= 2
      BY <1>1, <1>3, SMT DEF sov
    <3>3. v \div 16384 < 128 <=> sov(v) <= 3
      BY <1>1, <1>3, SMT DEF sov
    <3>4. v \div 2097152 < 128 <=> sov(v) <= 4
      BY <1>1, <1>3, SMT DEF sov
    <3>5. v \div 268435456 < 128
      BY <1>1, <1>3, SMT
    <3> QED BY <3>1, <3>2, <3>3, <3>4, <3>5, SMT DEF Shifted
  <2>3. \A i \in 0..4 : Shifted(v, i) \in Int
    BY <1>1, SMT DEF Shifted
  <2>4. \A i \in 0..4 : Shifted(v, i) >= 128 <=> i + 1 < sov(v)
    BY <2>1, <2>2, <2>3, SMT
  <2>5. ASSUME NEW n \in 1..5
        PROVE  n = sov(v) <=> /\ Shifted(v, n - 1) < 128
                              /\ \A i \in 1..(n - 1) : Shifted(v, i - 1) >= 128
    <3>1. \A i \in 1..(n - 1) : i - 1 \in 0..4 /\ (Shifted(v, i - 1) >= 128 <=> i < sov(v))
      BY <2>4, SMT
    <3>2. Shifted(v, n - 1) < 128 <=> sov(v) <= n
      BY <2>1, <2>3, <2>4, SMT
    <3> QED BY <2>1, <3>1, <3>2, SMT
  <2>6. Rounds(v) = CHOOSE n \in 1..5 : n = sov(v)
    BY <1>1, <1>3, <2>5, SMT DEF Rounds
  <2>7. (CHOOSE n \in 1..5 : n = sov(v)) = sov(v)
    BY <2>1, Zenon
  <2> QED BY <1>1, <1>3, <2>1, <2>6, <2>7, SMT
<1> QED BY <1>1, <1>2, <1>3, SMT

LEMMA EncodedIs ==
  ASSUME NEW v \in Word
  PROVE  /\ encodeVarint(v) \in Seq(Octet) /\ Len(encodeVarint(v)) = sov(v)
         /\ \A j \in 1..sov(v) : /\ encodeVarint(v)[j] >= 128 <=> j < sov(v)
                                 /\ encodeVarint(v)[j] % 128 = Group(v, j - 1)
<1>1. PICK n \in 1..10 : n = sov(v) /\ n = Rounds(v)
  BY RoundsAre
<1>2. v \in Int
  BY DEF Word
<1>3. \A j \in 1..n : Group(v, j - 1) \in 0..127
  BY <1>2, GroupIsSmall, SMT
<1>4. encodeVarint(v) = [j \in 1..n |-> Group(v, j - 1) + (IF j < n THEN 128 ELSE 0)]
  BY <1>1, Zenon DEF encodeVarint
<1>5. \A j \in 1..n : Group(v, j - 1) + (IF j < n THEN 128 ELSE 0) \in Octet
  BY <1>3, SMT DEF Octet
<1>6. encodeVarint(v) \in Seq(Octet) /\ Len(encodeVarint(v)) = n
  BY <1>4, <1>5, SMT
<1>7. ASSUME NEW j \in 1..n
      PROVE  /\ encodeVarint(v)[j] >= 128 <=> j < n
             /\ encodeVarint(v)[j] % 128 = Group(v, j - 1)
  <2>1. PICK g \in 0..127 : g = Group(v, j - 1)
    BY <1>3
  <2>2. encodeVarint(v)[j] = g + (IF j < n THEN 128 ELSE 0)
    BY <1>4, <2>1, Zenon
  <2>3. (g + 128) % 128 = g /\ (g + 0) % 128 = g
    BY SMT
  <2> QED BY <2>1, <2>2, <2>3, SMT
<1> QED BY <1>1, <1>6, <1>7

-----------------------------------------------------------------------------
(* The number of its groups.                                               *)

Steps(g, radix, top, h1, h2, h3, h4, h5, h6, h7, h8, h9) ==
    /\ h1 = IF 1 <= Len(g) THEN g[1] + radix * h2 ELSE h2
    /\ h2 = IF 2 <= Len(g) THEN g[2] + radix * h3 ELSE h3
    /\ h3 = IF 3 <= Len(g) THEN g[3] + radix * h4 ELSE h4
    /\ h4 = IF 4 <= Len(g) THEN g[4] + radix * h5 ELSE h5
    /\ h5 = IF 5 <= Len(g) THEN g[5] + radix * h6 ELSE h6
    /\ h6 = IF 6 <= Len(g) THEN g[6] + radix * h7 ELSE h7
    /\ h7 = IF 7 <= Len(g) THEN g[7] + radix * h8 ELSE h8
    /\ h8 = IF 8 <= Len(g) THEN g[8] + radix * h9 ELSE h9
    /\ h9 = IF 9 <= Len(g) THEN g[9] + radix * top ELSE top

\* Horner, one digit at a time.
LEMMA HornerSteps ==
  ASSUME NEW g, NEW radix, NEW top
  PROVE  \E h1, h2, h3, h4, h5, h6, h7, h8, h9 :
           Horner(g, radix, top) = h1 /\ Steps(g, radix, top, h1, h2, h3, h4, h5, h6, h7, h8, h9)
<1> DEFINE Add(i, above) == IF i <= Len(g) THEN g[i] + radix * above ELSE above
<1>1. Horner(g, radix, top)
      = Add(1, Add(2, Add(3, Add(4, Add(5, Add(6, Add(7, Add(8, Add(9, top)))))))))
  BY Zenon DEF Horner
<1>2. PICK h9 : h9 = Add(9, top)
  OBVIOUS
<1>3. PICK h8 : h8 = Add(8, h9)
  OBVIOUS
<1>4. PICK h7 : h7 = Add(7, h8)
  OBVIOUS
<1>5. PICK h6 : h6 = Add(6, h7)
  OBVIOUS
<1>6. PICK h5 : h5 = Add(5, h6)
  OBVIOUS
<1>7. PICK h4 : h4 = Add(4, h5)
  OBVIOUS
<1>8. PICK h3 : h3 = Add(3, h4)
  OBVIOUS
<1>9. PICK h2 : h2 = Add(2, h3)
  OBVIOUS
<1>10. PICK h1 : h1 = Add(1, h2)
  OBVIOUS
<1>11. Horner(g, radix, top) = h1
  <2> HIDE DEF Add
  <2> QED BY <1>1, <1>2, <1>3, <1>4, <1>5, <1>6, <1>7, <1>8, <1>9, <1>10
<1>12. Steps(g, radix, top, h1, h2, h3, h4, h5, h6, h7, h8, h9)
  BY <1>2, <1>3, <1>4, <1>5, <1>6, <1>7, <1>8, <1>9, <1>10, Zenon DEF Steps
<1> QED BY <1>11, <1>12, Zenon

FourGroups(top, a, b, c, d) == a + 128 * (b + 128 * (c + 128 * (d + 128 * top)))
NineGroups(top, a, b, c, d, e, p, q, r, s) ==
    FourGroups(e + 128 * FourGroups(top, p, q, r, s), a, b, c, d)

LEMMA TenDigits ==
  ASSUME NEW g \in Seq(Int), NEW top \in Int, Len(g) = 10
  PROVE  Horner(g, 128, top)
         = NineGroups(top, g[1], g[2], g[3], g[4], g[5], g[6], g[7], g[8], g[9])
<1>1. PICK h1, h2, h3, h4, h5, h6, h7, h8, h9 :
           Horner(g, 128, top) = h1 /\ Steps(g, 128, top, h1, h2, h3, h4, h5, h6, h7, h8, h9)
  BY HornerSteps, Zenon
<1>2. /\ h9 = g[9] + 128 * top /\ h8 = g[8] + 128 * h9
      /\ h7 = g[7] + 128 * h8 /\ h6 = g[6] + 128 * h7
  BY <1>1, SMT DEF Steps
<1>3. h5 = g[5] + 128 * h6
  BY <1>1, SMT DEF Steps
<1>4. /\ h4 = g[4] + 128 * h5 /\ h3 = g[3] + 128 * h4
      /\ h2 = g[2] + 128 * h3 /\ h1 = g[1] + 128 * h2
  BY <1>1, SMT DEF Steps
<1>5. h6 = FourGroups(top, g[6], g[7], g[8], g[9])
  BY <1>2 DEF FourGroups
<1>6. h1 = FourGroups(h5, g[1], g[2], g[3], g[4])
  BY <1>4 DEF FourGroups
<1>7. Horner(g, 128, top) = h1
  BY <1>1
<1> QED BY <1>3, <1>5, <1>6, <1>7 DEF NineGroups

LEMMA FourDigits ==
  ASSUME NEW g \in Seq(Int), Len(g) >= 4, NEW top \in Int
  PROVE  Horner(SubSeq(g, 1, 4), 128, top) = FourGroups(top, g[1], g[2], g[3], g[4])
<1>1. PICK n \in Nat : n = Len(g) /\ n >= 4
  OBVIOUS
<1>2. PICK s \in Seq(Int) : /\ s = SubSeq(g, 1, 4) /\ Len(s) = 4
                           /\ \A j \in 1..4 : s[j] = g[j]
  <2>1. /\ SubSeq(g, 1, 4) \in Seq(Int) /\ Len(SubSeq(g, 1, 4)) = 4 - 1 + 1
        /\ \A j \in 1..(4 - 1 + 1) : SubSeq(g, 1, 4)[j] = g[1 + j - 1]
    BY <1>1, SubSeqProperties, SMT
  <2>2. Len(SubSeq(g, 1, 4)) = 4 /\ \A j \in 1..4 : SubSeq(g, 1, 4)[j] = g[j]
    BY <2>1, SMT
  <2> QED BY <2>1, <2>2, Zenon
<1>3. s[1] = g[1] /\ s[2] = g[2] /\ s[3] = g[3] /\ s[4] = g[4]
  BY <1>2
<1>4. Horner(s, 128, top) = FourGroups(top, s[1], s[2], s[3], s[4])
  <2>1. PICK h1, h2, h3, h4, h5, h6, h7, h8, h9 :
           Horner(s, 128, top) = h1 /\ Steps(s, 128, top, h1, h2, h3, h4, h5, h6, h7, h8, h9)
    BY HornerSteps, Zenon
  <2>2. h9 = top /\ h8 = top /\ h7 = top /\ h6 = top /\ h5 = top
    BY <1>2, <2>1, SMT DEF Steps
  <2>3. /\ h4 = s[4] + 128 * top /\ h3 = s[3] + 128 * h4
        /\ h2 = s[2] + 128 * h3 /\ h1 = s[1] + 128 * h2
    BY <1>2, <2>1, <2>2, SMT DEF Steps
  <2> QED BY <2>1, <2>3 DEF FourGroups
<1> QED BY <1>2, <1>3, <1>4

\* The five lowest groups and what is above them.
LEMMA GroupsAre ==
  ASSUME NEW v \in Word
  PROVE  /\ v = Group(v, 0) + 128 * (v \div 128)
         /\ v \div 128 = Group(v, 1) + 128 * (v \div 16384)
         /\ v \div 16384 = Group(v, 2) + 128 * (v \div 2097152)
         /\ v \div 2097152 = Group(v, 3) + 128 * (v \div 268435456)
         /\ v \div 268435456 = Group(v, 4) + (IF v < 0 THEN -128 ELSE 0)
         /\ v < 0 => /\ Group(v, 5) = 127 /\ Group(v, 6) = 127 /\ Group(v, 7) = 127
                     /\ Group(v, 8) = 127 /\ Group(v, 9) = 1
<1>1. v \in Int /\ -2147483648 <= v /\ v <= 2147483647
  BY SMT DEF Word
<1>2. /\ Group(v, 0) = v % 128 /\ Group(v, 1) = (v \div 128) % 128
      /\ Group(v, 2) = (v \div 16384) % 128 /\ Group(v, 3) = (v \div 2097152) % 128
      /\ Group(v, 4) = (v \div 268435456) % 128
  BY SMT DEF Group, Shifted
<1>3. v \div 268435456 = ((v \div 268435456) % 128) + (IF v < 0 THEN -128 ELSE 0)
  <2>1. PICK q \in Int : q = v \div 268435456
    BY <1>1, SMT
  <2>2. v < 0 => -8 <= q /\ q < 0
    BY <1>1, <2>1, SMT
  <2>3. v >= 0 => 0 <= q /\ q < 8
    BY <1>1, <2>1, SMT
  <2>4. q = (q % 128) + (IF v < 0 THEN -128 ELSE 0)
    BY <1>1, <2>2, <2>3, SMT
  <2> QED BY <2>1, <2>4
<1>4. v < 0 => /\ Group(v, 5) = 127 /\ Group(v, 6) = 127 /\ Group(v, 7) = 127
               /\ Group(v, 8) = 127 /\ Group(v, 9) = 1
  BY <1>1, SMT DEF Group
<1>5. /\ v = (v % 128) + 128 * (v \div 128)
      /\ v \div 128 = ((v \div 128) % 128) + 128 * (v \div 16384)
      /\ v \div 16384 = ((v \div 16384) % 128) + 128 * (v \div 2097152)
      /\ v \div 2097152 = ((v \div 2097152) % 128) + 128 * (v \div 268435456)
  BY <1>1, ShiftBySeven, SMT
<1> QED BY <1>2, <1>3, <1>4, <1>5, SMT

\* The groups that encodeVarint writes are those of v for either width of field.
LEMMA GroupsGiveTheNumber ==
  ASSUME NEW v \in Word, NEW g \in Seq(Int), Len(g) = sov(v),
         \A j \in 1..sov(v) : g[j] = Group(v, j - 1)
  PROVE  Int64(g) = v /\ Int32(g) = v
<1> DEFINE d1 == Group(v, 0)
           d2 == Group(v, 1)
           d3 == Group(v, 2)
           d4 == Group(v, 3)
           d5 == Group(v, 4)
           q1 == v \div 128
           q2 == v \div 16384
           q3 == v \div 2097152
           q4 == v \div 268435456
<1>1. v \in Int
  BY SMT DEF Word
<1>2. q1 \in Int /\ q2 \in Int /\ q3 \in Int /\ q4 \in Int
  BY <1>1, SMT
<1>3. d1 \in 0..127 /\ d2 \in 0..127 /\ d3 \in 0..127 /\ d4 \in 0..127 /\ d5 \in 0..127
  BY <1>1, GroupIsSmall, SMT
<1>4. /\ v = d1 + 128 * q1 /\ q1 = d2 + 128 * q2 /\ q2 = d3 + 128 * q3
      /\ q3 = d4 + 128 * q4 /\ q4 = d5 + (IF v < 0 THEN -128 ELSE 0)
  BY GroupsAre, SMT
<1>5. /\ v < 0 => -8 <= q4 /\ q4 < 0
      /\ v >= 0 => 0 <= q4 /\ q4 < 8
  BY SMT DEF Word
<1>6. sov(v) >= 1 => g[1] = d1
  BY SMT
<1>7. sov(v) >= 2 => g[2] = d2
  BY SMT
<1>8. sov(v) >= 3 => g[3] = d3
  BY SMT
<1>9. sov(v) >= 4 => g[4] = d4
  BY SMT
<1>10. sov(v) >= 5 => g[5] = d5
  BY SMT
<1>11. v < 0 => g[6] = 127 /\ g[7] = 127 /\ g[8] = 127 /\ g[9] = 127 /\ g[10] = 1
  <2>1. v < 0 => sov(v) = 10
    BY RoundsAre
  <2> QED BY <2>1, GroupsAre, SMT
<1>12. /\ v >= 0 => sov(v) \in 1..5
       /\ v < 0 => sov(v) = 10
  BY RoundsAre
<1>13. v >= 0 => /\ sov(v) <= 1 => q1 = 0
                 /\ sov(v) <= 2 => q2 = 0
                 /\ sov(v) <= 3 => q3 = 0
                 /\ sov(v) <= 4 => q4 = 0
  BY <1>1, SMT DEF sov
<1>14. q3 = d4 + 128 * q4
  BY <1>4
<1>15. q2 = d3 + 128 * q3
  BY <1>4
<1>16. q1 = d2 + 128 * q2
  BY <1>4
<1>17. v = d1 + 128 * q1
  BY <1>4
<1> HIDE DEF d1, d2, d3, d4, d5, q1, q2, q3, q4
<1>18. CASE v < 0
  <2>1. Len(g) = 10
    BY <1>12, <1>18
  <2>2. PICK t \in Int : t = -1
    BY SMT
  <2>3. Int64(g) = NineGroups(t, d1, d2, d3, d4, d5, 127, 127, 127, 127)
    <3>1. Int64(g) = Horner(g, 128, t)
      BY <1>11, <1>18, <2>1, <2>2, SMT DEF Int64
    <3>2. Horner(g, 128, t)
          = NineGroups(t, g[1], g[2], g[3], g[4], g[5], g[6], g[7], g[8], g[9])
      BY <2>1, <2>2, TenDigits, Zenon
    <3>3. /\ g[1] = d1 /\ g[2] = d2 /\ g[3] = d3 /\ g[4] = d4 /\ g[5] = d5
          /\ g[6] = 127 /\ g[7] = 127 /\ g[8] = 127 /\ g[9] = 127
      BY <1>6, <1>7, <1>8, <1>9, <1>10, <1>11, <1>12, <1>18, SMT
    <3> QED BY <3>1, <3>2, <3>3, Zenon
  <2>4. Int64(g) = v
    BY <1>1, <1>2, <1>3, <1>4, <1>18, <2>2, <2>3, SMT DEF NineGroups, FourGroups
  <2>5. Int32(g) = Horner(SubSeq(g, 1, 4), 128, q4)
    <3>1. (IF d5 % 16 >= 8 THEN (d5 % 16) - 16 ELSE d5 % 16) = q4
      BY <1>2, <1>3, <1>4, <1>5, <1>18, SMT
    <3>2. g[5] = d5
      BY <1>10, <1>12, <1>18, SMT
    <3> QED BY <2>1, <3>1, <3>2, SMT DEF Int32
  <2>6. Horner(SubSeq(g, 1, 4), 128, q4) = FourGroups(q4, d1, d2, d3, d4)
    <3>1. Horner(SubSeq(g, 1, 4), 128, q4) = FourGroups(q4, g[1], g[2], g[3], g[4])
      <4>1. q4 \in Int /\ Len(g) >= 4
        BY <1>2, <2>1, SMT
      <4> QED BY <4>1, FourDigits, Zenon
    <3>2. g[1] = d1 /\ g[2] = d2 /\ g[3] = d3 /\ g[4] = d4
      BY <1>6, <1>7, <1>8, <1>9, <1>12, <1>18, SMT
    <3> QED BY <3>1, <3>2
  <2>7. Int32(g) = v
    BY <1>1, <1>2, <1>3, <1>4, <2>5, <2>6, SMT DEF FourGroups
  <2> QED BY <2>4, <2>7
<1>19. CASE v >= 0
  <2>1. Len(g) \in 1..5 /\ Int64(g) = Horner(g, 128, 0)
    BY <1>12, <1>19, SMT DEF Int64
  <2>2. Len(g) < 5 => Int32(g) = Horner(g, 128, 0)
    BY <2>1, SMT DEF Int32
  <2>3. PICK h1, h2, h3, h4, h5, h6, h7, h8, h9 :
           Horner(g, 128, 0) = h1 /\ Steps(g, 128, 0, h1, h2, h3, h4, h5, h6, h7, h8, h9)
    BY HornerSteps, Zenon
  <2>4. h9 = 0 /\ h8 = 0 /\ h7 = 0 /\ h6 = 0
    <3>1. ~(9 <= Len(g)) /\ ~(8 <= Len(g)) /\ ~(7 <= Len(g)) /\ ~(6 <= Len(g))
      BY <2>1, SMT
    <3> QED BY <2>3, <3>1, Zenon DEF Steps
  <2>5. CASE Len(g) = 1
    <3>1. q1 = 0
      BY <1>13, <1>19, <2>5, SMT
    <3>2. /\ h5 = 0 /\ h4 = 0 /\ h3 = 0
          /\ h2 = 0 /\ h1 = g[1] + 128 * h2
      BY <2>3, <2>4, <2>5, SMT DEF Steps
    <3>3. g[1] = d1
      BY <1>6, <2>5, SMT
    <3>4. h1 = v
      BY <1>2, <1>3, <1>17, <3>2, <3>3, <3>1, SMT
    <3> QED BY <2>1, <2>2, <2>3, <2>5, <3>4, SMT
  <2>6. CASE Len(g) = 2
    <3>1. q2 = 0
      BY <1>13, <1>19, <2>6, SMT
    <3>2. /\ h5 = 0 /\ h4 = 0 /\ h3 = 0
          /\ h2 = g[2] + 128 * h3 /\ h1 = g[1] + 128 * h2
      BY <2>3, <2>4, <2>6, SMT DEF Steps
    <3>3. g[1] = d1 /\ g[2] = d2
      BY <1>6, <1>7, <2>6, SMT
    <3>4. h2 = q1
      BY <1>2, <1>3, <1>16, <3>2, <3>3, <3>1, SMT
    <3>5. h1 = v
      BY <1>2, <1>3, <1>17, <3>2, <3>3, <3>4, SMT
    <3> QED BY <2>1, <2>2, <2>3, <2>6, <3>5, SMT
  <2>7. CASE Len(g) = 3
    <3>1. q3 = 0
      BY <1>13, <1>19, <2>7, SMT
    <3>2. /\ h5 = 0 /\ h4 = 0 /\ h3 = g[3] + 128 * h4
          /\ h2 = g[2] + 128 * h3 /\ h1 = g[1] + 128 * h2
      BY <2>3, <2>4, <2>7, SMT DEF Steps
    <3>3. g[1] = d1 /\ g[2] = d2 /\ g[3] = d3
      BY <1>6, <1>7, <1>8, <2>7, SMT
    <3>4. h3 = q2
      BY <1>2, <1>3, <1>15, <3>2, <3>3, <3>1, SMT
    <3>5. h2 = q1
      BY <1>2, <1>3, <1>16, <3>2, <3>3, <3>4, SMT
    <3>6. h1 = v
      BY <1>2, <1>3, <1>17, <3>2, <3>3, <3>5, SMT
    <3> QED BY <2>1, <2>2, <2>3, <2>7, <3>6, SMT
  <2>8. CASE Len(g) = 4
    <3>1. q4 = 0
      BY <1>13, <1>19, <2>8, SMT
    <3>2. /\ h5 = 0 /\ h4 = g[4] + 128 * h5 /\ h3 = g[3] + 128 * h4
          /\ h2 = g[2] + 128 * h3 /\ h1 = g[1] + 128 * h2
      BY <2>3, <2>4, <2>8, SMT DEF Steps
    <3>3. g[1] = d1 /\ g[2] = d2 /\ g[3] = d3 /\ g[4] = d4
      BY <1>6, <1>7, <1>8, <1>9, <2>8, SMT
    <3>4. h4 = q3
      BY <1>2, <1>3, <1>14, <3>2, <3>3, <3>1, SMT
    <3>5. h3 = q2
      BY <1>2, <1>3, <1>15, <3>2, <3>3, <3>4, SMT
    <3>6. h2 = q1
      BY <1>2, <1>3, <1>16, <3>2, <3>3, <3>5, SMT
    <3>7. h1 = v
      BY <1>2, <1>3, <1>17, <3>2, <3>3, <3>6, SMT
    <3> QED BY <2>1, <2>2, <2>3, <2>8, <3>7, SMT
  <2>9. CASE Len(g) = 5
    <3>1. /\ h1 = d1 + 128 * h2 /\ h2 = d2 + 128 * h3 /\ h3 = d3 + 128 * h4
          /\ h4 = d4 + 128 * h5 /\ h5 = d5 + 128 * 0
      BY <1>6, <1>7, <1>8, <1>9, <1>10, <2>3, <2>4, <2>9, SMT DEF Steps
    <3>2. Int64(g) = v
      BY <1>1, <1>2, <1>3, <1>4, <1>19, <2>1, <2>3, <3>1, SMT
    <3>3. Int32(g) = Horner(SubSeq(g, 1, 4), 128, q4)
      <4>1. (IF d5 % 16 >= 8 THEN (d5 % 16) - 16 ELSE d5 % 16) = q4
        BY <1>2, <1>3, <1>4, <1>5, <1>19, SMT
      <4>2. g[5] = d5
        BY <1>10, <2>9, SMT
      <4> QED BY <2>9, <4>1, <4>2, SMT DEF Int32
    <3>4. Horner(SubSeq(g, 1, 4), 128, q4) = FourGroups(q4, d1, d2, d3, d4)
      <4>1. Horner(SubSeq(g, 1, 4), 128, q4) = FourGroups(q4, g[1], g[2], g[3], g[4])
        <5>1. q4 \in Int /\ Len(g) >= 4
          BY <1>2, <2>9, SMT
        <5> QED BY <5>1, FourDigits, Zenon
      <4>2. g[1] = d1 /\ g[2] = d2 /\ g[3] = d3 /\ g[4] = d4
        BY <1>6, <1>7, <1>8, <1>9, <2>9, SMT
      <4> QED BY <4>1, <4>2
    <3>5. Int32(g) = v
      BY <1>1, <1>2, <1>3, <1>4, <3>3, <3>4, SMT DEF FourGroups
    <3> QED BY <3>2, <3>5
  <2> QED BY <2>1, <2>5, <2>6, <2>7, <2>8, <2>9, SMT, SMT
<1> QED BY <1>1, <1>18, <1>19, SMT

-----------------------------------------------------------------------------
(* The loop every varint is read with.                                     *)

LEMMA BytesAre ==
  ASSUME NEW b \in Seq(Octet)
  PROVE  Len(b) \in Nat /\ \A k \in 1..Len(b) : b[k] \in 0..255
<1>1. \A k \in 1..Len(b) : b[k] \in Octet
  BY ElementOfSeq
<1> QED BY <1>1 DEF Octet

\* The bit that says that the varint goes on.
LEMMA HighBit ==
  ASSUME NEW x \in 0..255
  PROVE  x < 128 <=> ~(x >= 128)
OBVIOUS

LEMMA ReadsGroups ==
  ASSUME NEW b \in Seq(Octet), NEW i \in Nat \ {0}, NEW n \in 1..10, i + n - 1 <= Len(b),
         \A j \in 1..n : b[i + j - 1] >= 128 <=> j < n
  PROVE  ReadVarint(b, i)
         = Ok([bytes |-> [j \in 1..n |-> b[i + j - 1] % 128], next |-> i + n])
<1> DEFINE last == IF Len(b) < i + 9 THEN Len(b) ELSE i + 9
           ends == {j \in i..last : b[j] < 128}
           end  == CHOOSE j \in ends : \A k \in ends : j <= k
<1>1. last \in Int /\ i + n - 1 <= last /\ last <= Len(b)
  BY BytesAre, SMT
<1>2. PICK e \in Nat \ {0} : e = i + n - 1
  BY SMT
<1>3. \A k \in i..last : b[k] \in 0..255
  BY <1>1, BytesAre, SMT
<1>4. \A k : k \in ends <=> k \in i..last /\ b[k] < 128
  OBVIOUS
<1>5. \A k \in ends : k \in Int
  BY <1>1, SMT
<1>6. ReadVarint(b, i)
      = IF ends # {} THEN Ok([bytes |-> [j \in 1..(end - i + 1) |-> b[i + j - 1] % 128], next |-> end + 1])
        ELSE Err(IF last = i + 9 THEN "ErrIntOverflow" ELSE "ErrUnexpectedEOF")
  BY Zenon DEF ReadVarint
<1>7. end = CHOOSE j \in ends : \A k \in ends : j <= k
  OBVIOUS
<1> HIDE DEF last, ends, end
<1>8. e \in i..last /\ b[e] < 128
  <2>1. ~(b[i + n - 1] >= 128)
    <3>1. n \in 1..n /\ ~(n < n)
      BY SMT
    <3> QED BY <3>1, Zenon
  <2>2. e \in i..last
    BY <1>1, <1>2, SMT
  <2>3. b[e] \in 0..255 /\ ~(b[e] >= 128)
    BY <1>2, <1>3, <2>1, <2>2, Zenon
  <2> QED BY <2>2, <2>3, HighBit, Zenon
<1>9. e \in ends
  BY <1>4, <1>8, Zenon
<1>10. ASSUME NEW k \in ends PROVE e <= k
  <2>1. k \in i..last /\ b[k] < 128 /\ b[k] \in 0..255
    BY <1>3, <1>4, Zenon
  <2>2. CASE k < e
    <3>1. k - i + 1 \in 1..n /\ k - i + 1 < n /\ i + (k - i + 1) - 1 = k
      BY <1>1, <1>2, <2>1, <2>2, SMT
    <3>2. b[i + (k - i + 1) - 1] >= 128
      BY <3>1, Zenon
    <3>3. b[k] >= 128
      BY <3>1, <3>2, Zenon
    <3> QED BY <2>1, <3>3, HighBit, Zenon
  <2> QED BY <1>1, <1>2, <2>1, <2>2, SMT
<1>11. \A j \in ends : (\A k \in ends : j <= k) => j = e
  <2> SUFFICES ASSUME NEW j \in ends, \A k \in ends : j <= k PROVE j = e
    OBVIOUS
  <2>1. j <= e /\ e <= j /\ j \in Int
    BY <1>5, <1>9, <1>10
  <2> QED BY <2>1, SMT
<1>12. end = e
  BY <1>7, <1>9, <1>10, <1>11, Zenon
<1>13. e - i + 1 = n /\ e + 1 = i + n
  BY <1>2, SMT
<1> QED BY <1>6, <1>9, <1>12, <1>13, Zenon

\* Nothing but bytes with 0x80 up to the end, or ten of them.
LEMMA ReadsNothing ==
  ASSUME NEW b \in Seq(Octet), NEW i \in Nat \ {0},
         \A k \in i..Len(b) : k < i + 10 => b[k] >= 128
  PROVE  ReadVarint(b, i) = Err(IF Len(b) < i + 9 THEN "ErrUnexpectedEOF" ELSE "ErrIntOverflow")
<1> DEFINE last == IF Len(b) < i + 9 THEN Len(b) ELSE i + 9
           ends == {j \in i..last : b[j] < 128}
<1>1. /\ last \in Int /\ last <= Len(b) /\ last <= i + 9
      /\ (IF last = i + 9 THEN "ErrIntOverflow" ELSE "ErrUnexpectedEOF")
         = (IF Len(b) < i + 9 THEN "ErrUnexpectedEOF" ELSE "ErrIntOverflow")
  BY BytesAre, SMT
<1>2. ASSUME NEW k \in i..last PROVE ~(b[k] < 128)
  <2>1. k \in 1..Len(b) /\ k \in i..Len(b) /\ k < i + 10
    BY <1>1, BytesAre, SMT
  <2>2. b[k] \in 0..255 /\ b[k] >= 128
    BY <2>1, BytesAre
  <2> QED BY <2>2, HighBit, Zenon
<1>3. ends = {}
  BY <1>2, Zenon
<1>4. ReadVarint(b, i) = Err(IF last = i + 9 THEN "ErrIntOverflow" ELSE "ErrUnexpectedEOF")
  BY <1>3, Zenon DEF ReadVarint
<1> QED BY <1>1, <1>4, Zenon
-----------------------------------------------------------------------------
(* What stands on a wire between other bytes.                              *)

LEMMA Embedded ==
  ASSUME NEW before \in Seq(Octet), NEW mid \in Seq(Octet), NEW after \in Seq(Octet)
  PROVE  /\ before \o mid \o after \in Seq(Octet)
         /\ Len(before \o mid \o after) = Len(before) + Len(mid) + Len(after)
         /\ \A j \in 1..Len(mid) : (before \o mid \o after)[Len(before) + j] = mid[j]
<1>1. PICK k \in Nat, m \in Nat, n \in Nat : k = Len(before) /\ m = Len(mid) /\ n = Len(after)
  BY BytesAre
<1>2. PICK front \in Seq(Octet) : front = before \o mid
  BY ConcatProperties, Zenon
<1>3. /\ Len(front) = k + m
      /\ \A j \in 1..(k + m) : front[j] = IF j <= k THEN before[j] ELSE mid[j - k]
  BY <1>1, <1>2, ConcatProperties, Zenon
<1>4. /\ front \o after \in Seq(Octet) /\ Len(front \o after) = k + m + n
      /\ \A j \in 1..(k + m + n) :
           (front \o after)[j] = IF j <= k + m THEN front[j] ELSE after[j - (k + m)]
  <2>1. /\ front \o after \in Seq(Octet) /\ Len(front \o after) = Len(front) + Len(after)
        /\ \A j \in 1..(Len(front) + Len(after)) :
             (front \o after)[j] = IF j <= Len(front) THEN front[j] ELSE after[j - Len(front)]
    BY ConcatProperties, Zenon
  <2>2. Len(front) = k + m /\ Len(after) = n
    BY <1>1, <1>3
  <2> QED BY <2>1, <2>2, Zenon
<1>5. ASSUME NEW j \in 1..m PROVE (front \o after)[k + j] = mid[j]
  <2>1. k + j \in 1..(k + m + n) /\ k + j \in 1..(k + m) /\ k + j <= k + m
        /\ ~(k + j <= k) /\ (k + j) - k = j
    BY SMT
  <2>2. (front \o after)[k + j] = front[k + j]
    BY <1>4, <2>1, Zenon
  <2>3. front[k + j] = mid[j]
    BY <1>3, <2>1, Zenon
  <2> QED BY <2>2, <2>3
<1> QED BY <1>1, <1>2, <1>4, <1>5, Zenon

\* Where the varint of v stands, ReadVarint finds v and the byte behind it.
LEMMA VarintStands ==
  ASSUME NEW v \in Word, NEW b \in Seq(Octet), NEW i \in Nat \ {0},
         i + sov(v) - 1 <= Len(b),
         \A j \in 1..sov(v) : b[i + j - 1] = encodeVarint(v)[j]
  PROVE  \E g : /\ ReadVarint(b, i) = Ok([bytes |-> g, next |-> i + sov(v)])
                /\ Int64(g) = v /\ Int32(g) = v
<1>1. PICK n \in 1..10 : n = sov(v)
  BY RoundsAre
<1>2. /\ \A j \in 1..n : b[i + j - 1] >= 128 <=> j < n
      /\ \A j \in 1..n : b[i + j - 1] % 128 = Group(v, j - 1)
  BY <1>1, EncodedIs, Zenon
<1> DEFINE g == [j \in 1..n |-> b[i + j - 1] % 128]
<1>3. ReadVarint(b, i) = Ok([bytes |-> g, next |-> i + n])
  <2>1. i + n - 1 <= Len(b)
    BY <1>1, Zenon
  <2> QED BY <1>2, <2>1, ReadsGroups, Zenon
<1>4. \A j \in 1..n : g[j] = Group(v, j - 1)
  BY <1>2, Zenon
<1>5. \A j \in 1..n : Group(v, j - 1) \in Int
  <2>1. \A j \in 1..n : j - 1 \in 0..9
    BY SMT
  <2>2. v \in Int /\ \A x \in 0..127 : x \in Int
    BY SMT DEF Word
  <2> QED BY <2>1, <2>2, GroupIsSmall, Zenon
<1>6. g \in Seq(Int) /\ Len(g) = n
  <2>1. \A j \in 1..n : b[i + j - 1] % 128 \in Int
    BY <1>2, <1>5, Zenon
  <2> QED BY <2>1, SMT
<1> HIDE DEF g
<1>7. Int64(g) = v /\ Int32(g) = v
  BY <1>1, <1>4, <1>6, GroupsGiveTheNumber, Zenon
<1> QED BY <1>1, <1>3, <1>7, Zenon

\* A varint that is written anywhere on a wire is read as the number it was
\* written from, in fields of either width, and the reader goes on with the byte
\* behind it; SizeVT has counted as many bytes (encodeVarint, sov and the loops of
\* the generated UnmarshalVT).
THEOREM VarintIsReadBack ==
  ASSUME NEW v \in Word, NEW before \in Seq(Octet), NEW after \in Seq(Octet)
  PROVE  LET wire == before \o encodeVarint(v) \o after
             r    == ReadVarint(wire, Len(before) + 1)
         IN /\ Len(encodeVarint(v)) = sov(v)
            /\ ~Failed(r)
            /\ r.val.next = Len(before) + sov(v) + 1
            /\ Int64(r.val.bytes) = v /\ Int32(r.val.bytes) = v
<1> DEFINE wire == before \o encodeVarint(v) \o after
<1>1. PICK k \in Nat, n \in 1..10, m \in Nat : k = Len(before) /\ n = sov(v) /\ m = Len(after)
  BY BytesAre, RoundsAre
<1>2. encodeVarint(v) \in Seq(Octet) /\ Len(encodeVarint(v)) = n
  BY <1>1, EncodedIs
<1>3. /\ wire \in Seq(Octet) /\ Len(wire) = k + n + m
      /\ \A j \in 1..n : wire[k + j] = encodeVarint(v)[j]
  <2>1. /\ wire \in Seq(Octet)
        /\ Len(wire) = Len(before) + Len(encodeVarint(v)) + Len(after)
        /\ \A j \in 1..Len(encodeVarint(v)) : wire[Len(before) + j] = encodeVarint(v)[j]
    BY <1>2, Embedded, Zenon
  <2> QED BY <1>1, <1>2, <2>1, Zenon
<1> HIDE DEF wire
<1>4. PICK i \in Nat \ {0} : i = k + 1 /\ i + n - 1 <= k + n + m /\ i + n = k + n + 1
                            /\ \A j \in 1..n : i + j - 1 = k + j
  BY SMT
<1>5. PICK g : /\ ReadVarint(wire, i) = Ok([bytes |-> g, next |-> i + n])
               /\ Int64(g) = v /\ Int32(g) = v
  <2>1. /\ i + sov(v) - 1 <= Len(wire)
        /\ \A j \in 1..sov(v) : wire[i + j - 1] = encodeVarint(v)[j]
    BY <1>1, <1>3, <1>4, Zenon
  <2>2. \E g : /\ ReadVarint(wire, i) = Ok([bytes |-> g, next |-> i + sov(v)])
               /\ Int64(g) = v /\ Int32(g) = v
    BY <1>3, <2>1, VarintStands, Zenon
  <2> QED BY <1>1, <2>2, Zenon
<1>6. ReadVarint(wire, Len(before) + 1) = Ok([bytes |-> g, next |-> Len(before) + sov(v) + 1])
  BY <1>1, <1>4, <1>5, Zenon
<1> QED BY <1>1, <1>2, <1>5, <1>6 DEF wire, Ok, Failed

-----------------------------------------------------------------------------
(* Length-delimited and fixed values.                                      *)

\* Where p stands, the bytes that Slice takes are p.
LEMMA SliceStands ==
  ASSUME NEW b \in Seq(Octet), NEW i \in Nat \ {0}, NEW p \in Seq(Octet),
         i + Len(p) - 1 <= Len(b), \A j \in 1..Len(p) : b[i + j - 1] = p[j]
  PROVE  Slice(b, i, Len(p)) = Ok([bytes |-> p, next |-> i + Len(p)])
<1>1. PICK n \in Nat, l \in Nat : n = Len(p) /\ l = Len(b) /\ i + n - 1 <= l
  BY BytesAre
<1>2. \A k \in i..(i + n - 1) : b[k] \in Octet
  <2>1. \A k \in i..(i + n - 1) : k \in 1..l
    BY <1>1, SMT
  <2> QED BY <1>1, <2>1, ElementOfSeq, Zenon
<1>3. PICK m \in Int : m = i + n - 1
  BY SMT
<1>4. /\ SubSeq(b, i, m) \in Seq(Octet)
      /\ Len(SubSeq(b, i, m)) = IF i <= m THEN m - i + 1 ELSE 0
      /\ \A j \in 1..(m - i + 1) : SubSeq(b, i, m)[j] = b[i + j - 1]
  <2>1. i \in Int /\ m \in Int /\ \A k \in i..m : b[k] \in Octet
    BY <1>2, <1>3, SMT
  <2> QED BY <2>1, SubSeqProperties, SMT
<1>5. (IF i <= m THEN m - i + 1 ELSE 0) = n /\ m - i + 1 = n
  BY <1>3, SMT
<1>6. SubSeq(b, i, m) = p
  <2>1. Len(SubSeq(b, i, m)) = Len(p) /\ \A j \in 1..Len(SubSeq(b, i, m)) : SubSeq(b, i, m)[j] = p[j]
    BY <1>1, <1>4, <1>5, Zenon
  <2> QED BY <1>4, <2>1, SeqEqual, Zenon
<1>7. ~(n < 0) /\ ~(i + n - 1 > l)
  BY <1>1, SMT
<1> QED BY <1>1, <1>3, <1>6, <1>7, Zenon DEF Slice

LEMMA PayloadIs ==
  ASSUME NEW b, NEW i
  PROVE  /\ Payload(b, i, 0) = ReadVarint(b, i)
         /\ Payload(b, i, 1) = Slice(b, i, 8)
         /\ Payload(b, i, 5) = Slice(b, i, 4)
         /\ Payload(b, i, 2) = IF Failed(ReadVarint(b, i)) THEN ReadVarint(b, i)
                               ELSE Slice(b, ReadVarint(b, i).val.next, Int64(ReadVarint(b, i).val.bytes))
BY DEF Payload, Then

LEMMA PrefixedIs ==
  ASSUME NEW p \in Seq(Octet), Len(p) \in Word
  PROVE  /\ Prefixed(p) \in Seq(Octet)
         /\ Len(Prefixed(p)) = sov(Len(p)) + Len(p)
         /\ \A j \in 1..sov(Len(p)) : Prefixed(p)[j] = encodeVarint(Len(p))[j]
         /\ \A j \in 1..Len(p) : Prefixed(p)[sov(Len(p)) + j] = p[j]
<1>1. PICK n \in Nat, s \in 1..10 : n = Len(p) /\ s = sov(n)
  BY BytesAre, RoundsAre
<1>2. encodeVarint(n) \in Seq(Octet) /\ Len(encodeVarint(n)) = s
  BY <1>1, EncodedIs
<1>3. /\ Prefixed(p) \in Seq(Octet) /\ Len(Prefixed(p)) = s + n
      /\ \A j \in 1..(s + n) : Prefixed(p)[j] = IF j <= s THEN encodeVarint(n)[j] ELSE p[j - s]
  <2>1. /\ Prefixed(p) \in Seq(Octet)
        /\ Len(Prefixed(p)) = Len(encodeVarint(n)) + Len(p)
        /\ \A j \in 1..(Len(encodeVarint(n)) + Len(p)) :
             Prefixed(p)[j] = IF j <= Len(encodeVarint(n)) THEN encodeVarint(n)[j]
                              ELSE p[j - Len(encodeVarint(n))]
    <3>1. Prefixed(p) = encodeVarint(n) \o p
      BY <1>1, Zenon DEF Prefixed
    <3> QED BY <1>2, <3>1, ConcatProperties, Zenon
  <2> QED BY <1>1, <1>2, <2>1, Zenon
<1>4. /\ \A j \in 1..s : j \in 1..(s + n) /\ j <= s
      /\ \A j \in 1..n : s + j \in 1..(s + n) /\ ~(s + j <= s) /\ (s + j) - s = j
  BY SMT
<1>5. \A j \in 1..n : Prefixed(p)[s + j] = p[j]
  BY <1>3, <1>4, Zenon
<1> QED BY <1>1, <1>3, <1>4, <1>5, Zenon

\* What is above the fourth byte of a number: its sign.
Sign(v) == IF v < 0 THEN -1 ELSE 0

FourBytes(a, b, c, d, top) == a + 256 * (b + 256 * (c + 256 * (d + 256 * top)))
HasHighBit(x) == x >= 128

LEMMA BytesOfNumber ==
  ASSUME NEW v \in Word
  PROVE  /\ \A i \in 1..8 : ByteOf(v, i) \in Octet
         /\ HasHighBit(ByteOf(v, 4)) <=> v < 0
         /\ v = FourBytes(ByteOf(v, 1), ByteOf(v, 2), ByteOf(v, 3), ByteOf(v, 4), Sign(v))
         /\ \A i \in 5..8 : ByteOf(v, i) = ByteOf(v, 5)
         /\ HasHighBit(ByteOf(v, 5)) <=> v < 0
         /\ FourBytes(ByteOf(v, 5), ByteOf(v, 5), ByteOf(v, 5), ByteOf(v, 5), Sign(v)) = Sign(v)
<1> DEFINE d1 == ByteOf(v, 1)
           d2 == ByteOf(v, 2)
           d3 == ByteOf(v, 3)
           d4 == ByteOf(v, 4)
           q1 == v \div 256
           q2 == v \div 65536
           q3 == v \div 16777216
           top == Sign(v)
<1>1. v \in Int /\ -2147483648 <= v /\ v <= 2147483647
  BY SMT DEF Word
<1>2. q1 \in Int /\ q2 \in Int /\ q3 \in Int
  BY <1>1, SMT
<1>3. d1 = v % 256 /\ d2 = q1 % 256 /\ d3 = q2 % 256 /\ d4 = q3 % 256
  BY SMT DEF ByteOf
<1>4. v = (v % 256) + 256 * q1 /\ q1 = (q1 % 256) + 256 * q2 /\ q2 = (q2 % 256) + 256 * q3
  BY <1>1, SMT
<1>5. (v < 0 => -128 <= q3 /\ q3 < 0) /\ (v >= 0 => 0 <= q3 /\ q3 < 128)
  BY <1>1, SMT
<1>6. /\ v < 0 => top = -1
      /\ v >= 0 => top = 0
  BY <1>1, SMT DEF Sign
<1>7. \A i \in 5..8 : ByteOf(v, i) = IF v < 0 THEN 255 ELSE 0
  BY <1>1, SMT DEF ByteOf
<1> HIDE DEF d1, d2, d3, d4, q1, q2, q3, top
<1>8. d1 \in 0..255 /\ d2 \in 0..255 /\ d3 \in 0..255 /\ d4 \in 0..255
  BY <1>1, <1>2, <1>3, SMT
<1>9. q3 = d4 + 256 * top /\ (d4 >= 128 <=> v < 0) /\ top \in Int
  BY <1>1, <1>2, <1>3, <1>5, <1>6, SMT
<1>10. v = d1 + 256 * (d2 + 256 * (d3 + 256 * (d4 + 256 * top)))
  <2>1. v = d1 + 256 * q1 /\ q1 = d2 + 256 * q2 /\ q2 = d3 + 256 * q3
    BY <1>3, <1>4, Zenon
  <2> QED BY <1>9, <2>1, Zenon
<1>11. ASSUME NEW i \in 1..8 PROVE ByteOf(v, i) \in Octet
  <2>1. CASE i \in 5..8
    BY <1>1, <1>7, <2>1, SMT DEF Octet
  <2>2. i = 1 \/ i = 2 \/ i = 3 \/ i = 4 \/ i \in 5..8
    BY SMT
  <2>3. d1 \in Octet /\ d2 \in Octet /\ d3 \in Octet /\ d4 \in Octet
    BY <1>8, Zenon DEF Octet
  <2> QED BY <2>1, <2>2, <2>3, Zenon DEF d1, d2, d3, d4
<1>12. v = FourBytes(ByteOf(v, 1), ByteOf(v, 2), ByteOf(v, 3), ByteOf(v, 4), Sign(v))
  BY <1>10, Zenon DEF FourBytes, d1, d2, d3, d4, top
<1>13. HasHighBit(ByteOf(v, 4)) <=> v < 0
  BY <1>9, Zenon DEF HasHighBit, d4
<1>14. /\ \A i \in 5..8 : ByteOf(v, i) = ByteOf(v, 5)
       /\ ByteOf(v, 5) = IF v < 0 THEN 255 ELSE 0
  BY <1>7, SMT
<1>15. HasHighBit(ByteOf(v, 5)) <=> v < 0
  BY <1>1, <1>14, SMT DEF HasHighBit
<1>16. FourBytes(ByteOf(v, 5), ByteOf(v, 5), ByteOf(v, 5), ByteOf(v, 5), Sign(v)) = Sign(v)
  BY <1>1, <1>14, SMT DEF FourBytes, Sign
<1> QED BY <1>11, <1>12, <1>13, <1>14, <1>15, <1>16, Zenon

LEMMA HornerOfBytes ==
  ASSUME NEW s \in Seq(Int), NEW top \in Int
  PROVE  /\ Len(s) = 4 => Horner(s, 256, top) = FourBytes(s[1], s[2], s[3], s[4], top)
         /\ Len(s) = 8 => Horner(s, 256, top) =
              FourBytes(s[1], s[2], s[3], s[4], FourBytes(s[5], s[6], s[7], s[8], top))
<1>1. PICK h1, h2, h3, h4, h5, h6, h7, h8, h9 :
           Horner(s, 256, top) = h1 /\ Steps(s, 256, top, h1, h2, h3, h4, h5, h6, h7, h8, h9)
  BY HornerSteps, Zenon
<1>2. ASSUME Len(s) = 4 PROVE Horner(s, 256, top) = FourBytes(s[1], s[2], s[3], s[4], top)
  <2>1. h9 = top /\ h8 = top /\ h7 = top /\ h6 = top /\ h5 = top
    BY <1>1, <1>2, SMT DEF Steps
  <2>2. /\ h4 = s[4] + 256 * top /\ h3 = s[3] + 256 * h4
        /\ h2 = s[2] + 256 * h3 /\ h1 = s[1] + 256 * h2
    BY <1>1, <1>2, <2>1, SMT DEF Steps
  <2> QED BY <1>1, <2>2 DEF FourBytes
<1>3. ASSUME Len(s) = 8
      PROVE  Horner(s, 256, top) =
               FourBytes(s[1], s[2], s[3], s[4], FourBytes(s[5], s[6], s[7], s[8], top))
  <2>1. h9 = top
    BY <1>1, <1>3, SMT DEF Steps
  <2>2. /\ h8 = s[8] + 256 * top /\ h7 = s[7] + 256 * h8
        /\ h6 = s[6] + 256 * h7 /\ h5 = s[5] + 256 * h6
    BY <1>1, <1>3, <2>1, SMT DEF Steps
  <2>3. /\ h4 = s[4] + 256 * h5 /\ h3 = s[3] + 256 * h4
        /\ h2 = s[2] + 256 * h3 /\ h1 = s[1] + 256 * h2
    BY <1>1, <1>3, SMT DEF Steps
  <2>4. h5 = FourBytes(s[5], s[6], s[7], s[8], top)
    BY <2>2 DEF FourBytes
  <2>5. h1 = FourBytes(s[1], s[2], s[3], s[4], h5)
    BY <2>3 DEF FourBytes
  <2>6. Horner(s, 256, top) = h1
    BY <1>1
  <2> QED BY <2>4, <2>5, <2>6
<1> QED BY <1>2, <1>3

\* The fixed32 and fixed64 fields.
LEMMA LittleEndianIs ==
  ASSUME NEW v \in Word, NEW n \in {4, 8}
  PROVE  /\ LittleEndian(v, n) \in Seq(Octet) /\ Len(LittleEndian(v, n)) = n
         /\ FixedInt(LittleEndian(v, n)) = v
<1> DEFINE s == LittleEndian(v, n)
           d(i) == ByteOf(v, i)
<1>1. v \in Int /\ Sign(v) \in Int
  BY SMT DEF Word, Sign
<1>2. \A i \in 1..n : i \in 1..8
  BY SMT
<1>3. \A i \in 1..n : d(i) \in Octet
  BY <1>2, BytesOfNumber
<1>4. s = [i \in 1..n |-> d(i)]
  BY Zenon DEF LittleEndian
<1>5. \A i \in 1..n : s[i] = d(i)
  BY <1>4, Zenon
<1> HIDE DEF s, d
<1>6. s \in Seq(Octet) /\ Len(s) = n
  <2>1. [i \in 1..n |-> d(i)] \in Seq(Octet) /\ Len([i \in 1..n |-> d(i)]) = n
    BY <1>3, SMT
  <2> QED BY <1>4, <2>1, Zenon
<1>7. s \in Seq(Int)
  <2>1. Octet \subseteq Int
    BY SMT DEF Octet
  <2> QED BY <1>6, <2>1, SeqMonotonic, Zenon
<1>8. /\ s[1] = d(1) /\ s[2] = d(2) /\ s[3] = d(3) /\ s[4] = d(4)
      /\ n = 8 => s[5] = d(5) /\ s[6] = d(5) /\ s[7] = d(5) /\ s[8] = d(5)
  <2>1. 1 \in 1..n /\ 2 \in 1..n /\ 3 \in 1..n /\ 4 \in 1..n
        /\ (n = 8 => 5 \in 1..n /\ 6 \in 1..n /\ 7 \in 1..n /\ 8 \in 1..n)
    BY SMT
  <2>2. \A i \in 5..8 : d(i) = d(5)
    BY BytesOfNumber DEF d
  <2>3. 5 \in 5..8 /\ 6 \in 5..8 /\ 7 \in 5..8 /\ 8 \in 5..8
    BY SMT
  <2> QED BY <1>5, <2>1, <2>2, <2>3, Zenon
<1>9. HasHighBit(s[n]) <=> v < 0
  <2>1. (HasHighBit(d(4)) <=> v < 0) /\ (HasHighBit(d(5)) <=> v < 0)
    BY BytesOfNumber DEF d
  <2> QED BY <1>8, <2>1, Zenon
<1>10. FixedInt(s) = Horner(s, 256, Sign(v))
  BY <1>6, <1>9, SMT DEF FixedInt, Sign, HasHighBit
<1>11. v = FourBytes(d(1), d(2), d(3), d(4), Sign(v)) /\ FourBytes(d(5), d(5), d(5), d(5), Sign(v)) = Sign(v)
  BY BytesOfNumber DEF d
<1>12. Horner(s, 256, Sign(v)) = v
  <2>1. CASE n = 4
    <3>1. Horner(s, 256, Sign(v)) = FourBytes(s[1], s[2], s[3], s[4], Sign(v))
      BY <1>1, <1>6, <1>7, <2>1, HornerOfBytes
    <3> QED BY <1>8, <1>11, <3>1
  <2>2. CASE n = 8
    <3>1. Horner(s, 256, Sign(v))
          = FourBytes(s[1], s[2], s[3], s[4], FourBytes(s[5], s[6], s[7], s[8], Sign(v)))
      BY <1>1, <1>6, <1>7, <2>2, HornerOfBytes
    <3> QED BY <1>8, <1>11, <2>2, <3>1
  <2> QED BY <2>1, <2>2
<1> QED BY <1>6, <1>10, <1>12 DEF s

\* A fixed32 or fixed64 value that is written anywhere on a wire is read as the
\* number it was written from, and the reader goes on behind it
\* (binary.LittleEndian.PutUint64 of MarshalToSizedBufferVT, and Uint64 of
\* UnmarshalVT).
THEOREM FixedIsReadBack ==
  ASSUME NEW v \in Word, NEW before \in Seq(Octet), NEW after \in Seq(Octet),
         NEW n \in {4, 8}, NEW w \in {1, 5}, n = 4 <=> w = 5
  PROVE  LET wire == before \o LittleEndian(v, n) \o after
             r    == Payload(wire, Len(before) + 1, w)
         IN ~Failed(r) /\ r.val.next = Len(before) + n + 1 /\ FixedInt(r.val.bytes) = v
<1> DEFINE p == LittleEndian(v, n)
           wire == before \o p \o after
<1>1. PICK k \in Nat, m \in Nat : k = Len(before) /\ m = Len(after)
  BY BytesAre
<1>2. p \in Seq(Octet) /\ Len(p) = n /\ FixedInt(p) = v
  BY LittleEndianIs
<1> HIDE DEF p
<1>3. /\ wire \in Seq(Octet) /\ Len(wire) = Len(before) + Len(p) + Len(after)
      /\ \A j \in 1..Len(p) : wire[Len(before) + j] = p[j]
  BY <1>2, Embedded, Zenon
<1> HIDE DEF wire
<1>4. PICK i \in Nat \ {0} : i = k + 1 /\ i + n - 1 <= k + n + m /\ i + n = k + n + 1
                            /\ \A j \in 1..n : i + j - 1 = k + j
  BY SMT
<1>5. Slice(wire, i, n) = Ok([bytes |-> p, next |-> i + n])
  <2>1. i + Len(p) - 1 <= Len(wire) /\ \A j \in 1..Len(p) : wire[i + j - 1] = p[j]
    BY <1>1, <1>2, <1>3, <1>4, Zenon
  <2> QED BY <1>2, <1>3, <2>1, SliceStands, Zenon
<1>6. Payload(wire, i, w) = Slice(wire, i, n)
  BY PayloadIs
<1> QED BY <1>1, <1>2, <1>4, <1>5, <1>6 DEF wire, p, Ok, Failed

\* Bytes that are written anywhere on a wire, the length before them, are read
\* back as they are, and the reader goes on behind them: strings, bytes, messages
\* inside messages and map entries alike.
THEOREM BytesAreReadBack ==
  ASSUME NEW p \in Seq(Octet), Len(p) \in Word, NEW before \in Seq(Octet), NEW after \in Seq(Octet)
  PROVE  Payload(before \o Prefixed(p) \o after, Len(before) + 1, 2)
         = Ok([bytes |-> p, next |-> Len(before) + Len(Prefixed(p)) + 1])
<1> DEFINE e == Prefixed(p)
           wire == before \o e \o after
<1>1. PICK k \in Nat, m \in Nat, n \in Nat, s \in 1..10 :
        k = Len(before) /\ m = Len(after) /\ n = Len(p) /\ s = sov(n)
  BY BytesAre, RoundsAre
<1>2. /\ e \in Seq(Octet) /\ Len(e) = s + n
      /\ \A j \in 1..s : e[j] = encodeVarint(n)[j]
      /\ \A j \in 1..n : e[s + j] = p[j]
  BY <1>1, PrefixedIs, Zenon
<1> HIDE DEF e
<1>3. /\ wire \in Seq(Octet) /\ Len(wire) = k + (s + n) + m
      /\ \A j \in 1..(s + n) : wire[k + j] = e[j]
  <2>1. /\ wire \in Seq(Octet) /\ Len(wire) = Len(before) + Len(e) + Len(after)
        /\ \A j \in 1..Len(e) : wire[Len(before) + j] = e[j]
    BY <1>2, Embedded, Zenon
  <2> QED BY <1>1, <1>2, <2>1, Zenon
<1> HIDE DEF wire
<1>4. PICK i \in Nat \ {0}, at \in Nat \ {0} :
        /\ i = k + 1 /\ at = i + s /\ at + n = k + (s + n) + 1
        /\ i + s - 1 <= k + (s + n) + m /\ at + n - 1 <= k + (s + n) + m
        /\ \A j \in 1..s : i + j - 1 = k + j /\ j \in 1..(s + n)
        /\ \A j \in 1..n : at + j - 1 = k + (s + j) /\ s + j \in 1..(s + n)
  <2>1. k + 1 \in Nat \ {0} /\ k + 1 + s \in Nat \ {0}
    BY SMT
  <2>2. /\ (k + 1 + s) + n = k + (s + n) + 1
        /\ (k + 1) + s - 1 <= k + (s + n) + m /\ (k + 1 + s) + n - 1 <= k + (s + n) + m
        /\ \A j \in 1..s : (k + 1) + j - 1 = k + j /\ j \in 1..(s + n)
        /\ \A j \in 1..n : (k + 1 + s) + j - 1 = k + (s + j) /\ s + j \in 1..(s + n)
    BY SMT
  <2> QED BY <2>1, <2>2, Zenon
<1>5. PICK g : ReadVarint(wire, i) = Ok([bytes |-> g, next |-> at]) /\ Int64(g) = n
  <2>1. /\ n \in Word /\ i + sov(n) - 1 <= Len(wire)
        /\ \A j \in 1..sov(n) : wire[i + j - 1] = encodeVarint(n)[j]
    <3>1. \A j \in 1..s : wire[i + j - 1] = encodeVarint(n)[j]
      BY <1>2, <1>3, <1>4, Zenon
    <3>2. n \in Word /\ i + s - 1 <= Len(wire)
      BY <1>1, <1>3, <1>4, Zenon
    <3> QED BY <1>1, <3>1, <3>2, Zenon
  <2>2. \E g : /\ ReadVarint(wire, i) = Ok([bytes |-> g, next |-> i + sov(n)])
               /\ Int64(g) = n /\ Int32(g) = n
    BY <1>3, <2>1, VarintStands, Zenon
  <2> QED BY <1>1, <1>4, <2>2, Zenon
<1>6. Slice(wire, at, n) = Ok([bytes |-> p, next |-> at + n])
  <2>1. at + Len(p) - 1 <= Len(wire) /\ \A j \in 1..Len(p) : wire[at + j - 1] = p[j]
    <3>1. \A j \in 1..n : wire[at + j - 1] = p[j]
      <4> SUFFICES ASSUME NEW j \in 1..n PROVE wire[at + j - 1] = p[j]
        OBVIOUS
      <4>1. at + j - 1 = k + (s + j) /\ s + j \in 1..(s + n)
        BY <1>4, Zenon
      <4>2. wire[k + (s + j)] = e[s + j]
        BY <1>3, <4>1, Zenon
      <4> QED BY <1>2, <4>1, <4>2, Zenon
    <3>2. at + n - 1 <= Len(wire)
      BY <1>3, <1>4, Zenon
    <3> QED BY <1>1, <3>1, <3>2, Zenon
  <2> QED BY <1>1, <1>3, <2>1, SliceStands, Zenon
<1>7. Payload(wire, i, 2) = Slice(wire, at, n)
  <2>1. ~Failed(ReadVarint(wire, i)) /\ ReadVarint(wire, i).val.next = at
        /\ Int64(ReadVarint(wire, i).val.bytes) = n
    BY <1>5 DEF Ok, Failed
  <2> QED BY <2>1, PayloadIs, Zenon
<1> QED BY <1>1, <1>2, <1>4, <1>6, <1>7, Zenon DEF wire, e

-----------------------------------------------------------------------------
(* A wire that ends inside a value.                                        *)

\* What a writer puts on the wire behind a key of this wire type.
Payloads(w) ==
  CASE w = 0 -> {encodeVarint(v) : v \in Word}
    [] w = 1 -> {LittleEndian(v, 8) : v \in Word}
    [] w = 5 -> {LittleEndian(v, 4) : v \in Word}
    [] OTHER -> {Prefixed(p) : p \in {q \in Seq(Octet) : Len(q) \in Word}}

\* The first c bytes of e, at the end of a wire.
LEMMA CutIs ==
  ASSUME NEW before \in Seq(Octet), NEW e \in Seq(Octet), NEW c \in Nat, c <= Len(e)
  PROVE  /\ before \o SubSeq(e, 1, c) \in Seq(Octet)
         /\ Len(before \o SubSeq(e, 1, c)) = Len(before) + c
         /\ \A j \in 1..c : (before \o SubSeq(e, 1, c))[Len(before) + j] = e[j]
<1>1. PICK l \in Nat : l = Len(e) /\ c <= l
  BY BytesAre
<1>2. PICK s : s = SubSeq(e, 1, c)
  OBVIOUS
<1>3. s \in Seq(Octet) /\ Len(s) = c /\ \A j \in 1..c : s[j] = e[j]
  <2>1. \A j \in 1..c : e[j] \in Octet
    BY <1>1, ElementOfSeq
  <2>2. /\ s \in Seq(Octet) /\ Len(s) = IF 1 <= c THEN c - 1 + 1 ELSE 0
        /\ \A j \in 1..(c - 1 + 1) : s[j] = e[1 + j - 1]
    BY <1>2, <2>1, SubSeqProperties, SMT
  <2> QED BY <2>2, SMT
<1>4. PICK k \in Nat : k = Len(before)
  BY BytesAre
<1>5. /\ before \o s \in Seq(Octet) /\ Len(before \o s) = Len(before) + Len(s)
      /\ \A j \in 1..(Len(before) + Len(s)) :
           (before \o s)[j] = IF j <= Len(before) THEN before[j] ELSE s[j - Len(before)]
  BY <1>3, ConcatProperties, Zenon
<1>6. /\ Len(before \o s) = k + c
      /\ \A j \in 1..(k + c) : (before \o s)[j] = IF j <= k THEN before[j] ELSE s[j - k]
  BY <1>3, <1>4, <1>5, Zenon
<1>7. ASSUME NEW j \in 1..c PROVE (before \o s)[k + j] = e[j]
  <2>1. k + j \in 1..(k + c) /\ ~(k + j <= k) /\ (k + j) - k = j
    BY SMT
  <2> QED BY <1>3, <1>6, <2>1, Zenon
<1> QED BY <1>2, <1>4, <1>5, <1>6, <1>7, Zenon

\* Inside a varint, also one that is the length of something.
LEMMA CutVarint ==
  ASSUME NEW v \in Word, NEW b \in Seq(Octet), NEW k \in Nat, NEW c \in Nat, c < sov(v),
         Len(b) = k + c, \A j \in 1..c : b[k + j] = encodeVarint(v)[j]
  PROVE  ReadVarint(b, k + 1) = Err("ErrUnexpectedEOF")
<1>1. PICK s \in 1..10 : s = sov(v) /\ c < s
  BY RoundsAre
<1>2. PICK i \in Nat \ {0} : i = k + 1
  BY SMT
<1>3. ASSUME NEW n \in i..Len(b), n < i + 10 PROVE b[n] >= 128
  <2>1. n - k \in 1..c /\ n - k \in 1..s /\ n - k < s /\ k + (n - k) = n
    BY <1>1, <1>2, <1>3, SMT
  <2>2. b[k + (n - k)] = encodeVarint(v)[n - k]
    BY <2>1, Zenon
  <2>3. encodeVarint(v)[n - k] >= 128
    BY <1>1, <2>1, EncodedIs, Zenon
  <2> QED BY <2>1, <2>2, <2>3, Zenon
<1>4. Len(b) < i + 9
  BY <1>1, <1>2, SMT
<1>5. ReadVarint(b, i) = Err(IF Len(b) < i + 9 THEN "ErrUnexpectedEOF" ELSE "ErrIntOverflow")
  BY <1>3, ReadsNothing, Zenon
<1> QED BY <1>2, <1>4, <1>5, Zenon

LEMMA CutSlice ==
  ASSUME NEW b \in Seq(Octet), NEW i \in Nat, NEW n \in Nat, i + n - 1 > Len(b)
  PROVE  Slice(b, i, n) = Err("ErrUnexpectedEOF")
BY SMT DEF Slice

\* A wire that ends within a value is refused with ErrUnexpectedEOF, whatever the
\* value, wherever in it the wire ends and whatever stands before it: no part of
\* a value is ever taken for the whole (the checks of the generated UnmarshalVT
\* before each byte of a varint and before each slice).
THEOREM CutPayloadIsNoticed ==
  ASSUME NEW w \in {0, 1, 2, 5}, NEW e \in Payloads(w), NEW before \in Seq(Octet),
         NEW c \in Nat, c < Len(e)
  PROVE  Payload(before \o SubSeq(e, 1, c), Len(before) + 1, w) = Err("ErrUnexpectedEOF")
<1> DEFINE b == before \o SubSeq(e, 1, c)
<1>1. PICK k \in Nat : k = Len(before)
  BY BytesAre
<1>2. ASSUME e \in Seq(Octet)
      PROVE  b \in Seq(Octet) /\ Len(b) = k + c /\ \A j \in 1..c : b[k + j] = e[j]
  <2>1. c <= Len(e)
    BY <1>2, BytesAre, SMT
  <2> QED BY <1>1, <1>2, <2>1, CutIs, Zenon
<1> HIDE DEF b
<1>3. CASE w = 0
  <2>1. PICK v \in Word : e = encodeVarint(v)
    BY <1>3 DEF Payloads
  <2>2. e \in Seq(Octet) /\ Len(e) = sov(v)
    BY <2>1, EncodedIs, Zenon
  <2>3. ReadVarint(b, k + 1) = Err("ErrUnexpectedEOF")
    BY <1>2, <2>1, <2>2, CutVarint, Zenon
  <2> QED BY <1>1, <1>3, <2>3, PayloadIs, Zenon DEF b
<1>4. CASE w \in {1, 5}
  <2>1. PICK n \in {4, 8}, v \in Word : e = LittleEndian(v, n) /\ (n = 4 <=> w = 5)
    BY <1>4 DEF Payloads
  <2>2. e \in Seq(Octet) /\ Len(e) = n
    BY <2>1, LittleEndianIs, Zenon
  <2>3. b \in Seq(Octet) /\ k + 1 \in Nat /\ n \in Nat /\ k + 1 + n - 1 > Len(b)
    BY <1>2, <2>2, SMT
  <2>4. Slice(b, k + 1, n) = Err("ErrUnexpectedEOF")
    BY <2>3, CutSlice, Zenon
  <2>5. Payload(b, k + 1, w) = Slice(b, k + 1, n)
    BY <1>4, <2>1, PayloadIs
  <2> QED BY <1>1, <2>4, <2>5, Zenon DEF b
<1>5. CASE w = 2
  <2>1. PICK p \in Seq(Octet) : Len(p) \in Word /\ e = Prefixed(p)
    BY <1>5 DEF Payloads
  <2>2. PICK n \in Nat, s \in 1..10 : n = Len(p) /\ s = sov(n) /\ n \in Word
    BY <2>1, BytesAre, RoundsAre
  <2>3. /\ e \in Seq(Octet) /\ Len(e) = s + n
        /\ \A j \in 1..s : e[j] = encodeVarint(n)[j]
    BY <2>1, <2>2, PrefixedIs, Zenon
  <2>4. b \in Seq(Octet) /\ Len(b) = k + c /\ \A j \in 1..c : b[k + j] = e[j]
    BY <1>2, <2>3, Zenon
  <2>5. CASE c < s
    <3>1. \A j \in 1..c : b[k + j] = encodeVarint(n)[j]
      <4>1. \A j \in 1..c : j \in 1..s
        BY <2>5, SMT
      <4> QED BY <2>3, <2>4, <4>1, Zenon
    <3>2. ReadVarint(b, k + 1) = Err("ErrUnexpectedEOF")
      BY <2>2, <2>4, <2>5, <3>1, CutVarint, Zenon
    <3>3. Failed(ReadVarint(b, k + 1))
      BY <3>2 DEF Failed, Err
    <3>4. Payload(b, k + 1, 2) = ReadVarint(b, k + 1)
      BY <3>3, PayloadIs, Zenon
    <3> QED BY <1>1, <1>5, <3>2, <3>4, Zenon DEF b
  <2>6. CASE c >= s
    <3>1. PICK i \in Nat \ {0} : /\ i = k + 1 /\ i + s - 1 <= k + c
                                  /\ \A j \in 1..s : i + j - 1 = k + j /\ j \in 1..c
      BY <2>6, SMT
    <3>2. \A j \in 1..s : b[i + j - 1] = encodeVarint(n)[j]
      BY <2>3, <2>4, <3>1, Zenon
    <3>3. i + sov(n) - 1 <= Len(b) /\ \A j \in 1..sov(n) : b[i + j - 1] = encodeVarint(n)[j]
      BY <2>2, <2>4, <3>1, <3>2, Zenon
    <3>4. \E g : /\ ReadVarint(b, i) = Ok([bytes |-> g, next |-> i + sov(n)])
                 /\ Int64(g) = n /\ Int32(g) = n
      BY <2>2, <2>4, <3>3, VarintStands, Zenon
    <3>5. /\ ~Failed(ReadVarint(b, i)) /\ ReadVarint(b, i).val.next = i + s
          /\ Int64(ReadVarint(b, i).val.bytes) = n
      BY <2>2, <3>4 DEF Ok, Failed
    <3>6. Payload(b, i, 2) = Slice(b, i + s, n)
      BY <3>5, PayloadIs, Zenon
    <3>7. i + s \in Nat /\ (i + s) + n - 1 > Len(b)
      BY <2>3, <2>4, <3>1, SMT
    <3>8. Slice(b, i + s, n) = Err("ErrUnexpectedEOF")
      BY <2>4, <3>7, CutSlice, Zenon
    <3> QED BY <1>1, <1>5, <3>1, <3>6, <3>8, Zenon DEF b
  <2> QED BY <2>5, <2>6, SMT
<1> QED BY <1>3, <1>4, <1>5

-----------------------------------------------------------------------------
(* Any bytes at all.                                                       *)

LEMMA FoundIs ==
  ASSUME NEW g, NEW n
  PROVE  /\ Ok([bytes |-> g, next |-> n]).val.bytes = g
         /\ Ok([bytes |-> g, next |-> n]).val.next = n
BY DEF Ok

LEMMA HornerIsANumber ==
  ASSUME NEW s \in Seq(Int), NEW top \in Int
  PROVE  Horner(s, 128, top) \in Int
<1> DEFINE Add(i, above) == IF i <= Len(s) THEN s[i] + 128 * above ELSE above
<1>1. ASSUME NEW i \in Nat \ {0}, NEW above \in Int PROVE Add(i, above) \in Int
  <2>1. CASE i <= Len(s)
    <3>1. i \in 1..Len(s)
      BY <2>1, LenProperties, SMT
    <3>2. s[i] \in Int
      BY <3>1, ElementOfSeq
    <3> QED BY <2>1, <3>2, SMT
  <2>2. CASE ~(i <= Len(s))
    BY <2>2
  <2> QED BY <2>1, <2>2
<1>2. Horner(s, 128, top)
      = Add(1, Add(2, Add(3, Add(4, Add(5, Add(6, Add(7, Add(8, Add(9, top)))))))))
  BY Zenon DEF Horner
<1> HIDE DEF Add
<1>3. 1 \in Nat \ {0} /\ 2 \in Nat \ {0} /\ 3 \in Nat \ {0} /\ 4 \in Nat \ {0} /\ 5 \in Nat \ {0}
      /\ 6 \in Nat \ {0} /\ 7 \in Nat \ {0} /\ 8 \in Nat \ {0} /\ 9 \in Nat \ {0}
  BY SMT
<1>4. Add(7, Add(8, Add(9, top))) \in Int
  BY <1>1, <1>3, Zenon
<1>5. Add(4, Add(5, Add(6, Add(7, Add(8, Add(9, top)))))) \in Int
  BY <1>1, <1>3, <1>4, Zenon
<1>6. Add(1, Add(2, Add(3, Add(4, Add(5, Add(6, Add(7, Add(8, Add(9, top))))))))) \in Int
  BY <1>1, <1>3, <1>5, Zenon
<1> QED BY <1>2, <1>6, Zenon

LEMMA Int64IsANumber ==
  ASSUME NEW g \in Seq(Int)
  PROVE  Int64(g) \in Int
<1>1. (IF Len(g) = 10 /\ g[10] % 2 = 1 THEN -1 ELSE 0) \in Int
  BY SMT
<1> QED BY <1>1, HornerIsANumber, Zenon DEF Int64

\* Some numbers, all of them among ten in a row: one of them is the least.
LEMMA LeastOfTen ==
  ASSUME NEW i \in Nat, NEW S, \A j \in S : j \in Int /\ i <= j /\ j <= i + 9, S # {}
  PROVE  \E j \in S : \A k \in S : j <= k
<1> SUFFICES ASSUME \A j \in S : \E k \in S : ~(j <= k)
             PROVE  FALSE
  OBVIOUS
<1> DEFINE Beyond(m) == \A j \in S : j >= i + m
<1>1. ASSUME NEW m \in 0..9, Beyond(m) PROVE Beyond(m + 1)
  <2>1. i + m \notin S
    <3>1. SUFFICES ASSUME i + m \in S PROVE FALSE
      OBVIOUS
    <3>2. PICK k \in S : ~(i + m <= k)
      BY <3>1
    <3> QED BY <1>1, <3>2, SMT
  <2> QED BY <1>1, <2>1, SMT
<1>2. Beyond(0)
  BY SMT
<1> HIDE DEF Beyond
<1>3. Beyond(1) /\ Beyond(2)
  <2>1. Beyond(1)
    BY <1>1, <1>2, SMT
  <2> QED BY <1>1, <2>1, SMT
<1>4. Beyond(3) /\ Beyond(4)
  <2>1. Beyond(3)
    BY <1>1, <1>3, SMT
  <2> QED BY <1>1, <2>1, SMT
<1>5. Beyond(5) /\ Beyond(6)
  <2>1. Beyond(5)
    BY <1>1, <1>4, SMT
  <2> QED BY <1>1, <2>1, SMT
<1>6. Beyond(7) /\ Beyond(8)
  <2>1. Beyond(7)
    BY <1>1, <1>5, SMT
  <2> QED BY <1>1, <2>1, SMT
<1>7. Beyond(9) /\ Beyond(10)
  <2>1. Beyond(9)
    BY <1>1, <1>6, SMT
  <2> QED BY <1>1, <2>1, SMT
<1> QED BY <1>7, SMT DEF Beyond

\* A varint takes one byte to ten, all of them there, and gives a number.
LEMMA VarintInside ==
  ASSUME NEW b \in Seq(Octet), NEW i \in 1..(Len(b) + 1), ~Failed(ReadVarint(b, i))
  PROVE  /\ ReadVarint(b, i).val.next \in (i + 1)..(Len(b) + 1)
         /\ ReadVarint(b, i).val.next <= i + 10
         /\ Int64(ReadVarint(b, i).val.bytes) \in Int
<1> DEFINE last == IF Len(b) < i + 9 THEN Len(b) ELSE i + 9
           ends == {j \in i..last : b[j] < 128}
           end  == CHOOSE j \in ends : \A k \in ends : j <= k
           g    == [j \in 1..(end - i + 1) |-> b[i + j - 1] % 128]
<1>1. last \in Int /\ last <= Len(b) /\ last <= i + 9 /\ i \in Nat /\ 1 <= i /\ Len(b) \in Nat
  BY BytesAre, SMT
<1>2. ReadVarint(b, i)
      = IF ends # {} THEN Ok([bytes |-> g, next |-> end + 1])
        ELSE Err(IF last = i + 9 THEN "ErrIntOverflow" ELSE "ErrUnexpectedEOF")
  BY Zenon DEF ReadVarint
<1>3. Failed(Err("ErrIntOverflow")) /\ Failed(Err("ErrUnexpectedEOF"))
  BY DEF Failed, Err
<1>4. ends # {}
  BY <1>2, <1>3, Zenon
<1>5. end \in ends
  <2>1. \A j \in ends : j \in Int /\ i <= j /\ j <= i + 9
    BY <1>1, SMT
  <2>2. \E j \in ends : \A k \in ends : j <= k
    BY <1>1, <1>4, <2>1, LeastOfTen, Zenon
  <2> QED BY <2>2, Zenon
<1>6. end \in i..last
  BY <1>5
<1>7. ReadVarint(b, i).val.next = end + 1 /\ ReadVarint(b, i).val.bytes = g
  <2> HIDE DEF g
  <2>1. ReadVarint(b, i) = Ok([bytes |-> g, next |-> end + 1])
    BY <1>2, <1>4, Zenon
  <2>2. PICK next : next = end + 1
    OBVIOUS
  <2>3. ReadVarint(b, i).val.next = next /\ ReadVarint(b, i).val.bytes = g
    BY <2>1, <2>2, FoundIs
  <2> QED BY <2>2, <2>3, Zenon
<1>8. g = [j \in 1..(end - i + 1) |-> b[i + j - 1] % 128]
  OBVIOUS
<1> HIDE DEF last, ends, end, g
<1>9. g \in Seq(Int)
  <2>1. PICK n \in Nat : n = end - i + 1 /\ \A j \in 1..n : i + j - 1 \in 1..Len(b)
    BY <1>1, <1>6, SMT
  <2>2. \A j \in 1..n : b[i + j - 1] \in 0..255
    BY <2>1, BytesAre, Zenon
  <2>3. \A x \in 0..255 : x % 128 \in Int
    BY SMT
  <2>4. \A j \in 1..n : b[i + j - 1] % 128 \in Int
    BY <2>2, <2>3, Zenon
  <2>5. [j \in 1..n |-> b[i + j - 1] % 128] \in Seq(Int)
    BY <2>4, SMT
  <2> QED BY <1>8, <2>1, <2>5, Zenon
<1>10. Int64(g) \in Int
  BY <1>9, Int64IsANumber
<1>11. end + 1 \in (i + 1)..(Len(b) + 1) /\ end + 1 <= i + 10
  BY <1>1, <1>6, SMT
<1> QED BY <1>7, <1>10, <1>11, Zenon

LEMMA SliceInside ==
  ASSUME NEW b \in Seq(Octet), NEW i \in 1..(Len(b) + 1), NEW n \in Int, ~Failed(Slice(b, i, n))
  PROVE  /\ n \in Nat /\ i + n <= Len(b) + 1
         /\ Slice(b, i, n).val.next = i + n
         /\ Slice(b, i, n).val.bytes \in Seq(Octet)
<1>1. ~(n < 0) /\ ~(i + n - 1 > Len(b))
      /\ Slice(b, i, n) = Ok([bytes |-> SubSeq(b, i, i + n - 1), next |-> i + n])
  BY DEF Slice, Failed, Err
<1>2. i \in Nat /\ 1 <= i /\ Len(b) \in Nat
  BY BytesAre, SMT
<1>3. n \in Nat /\ i + n <= Len(b) + 1
  BY <1>1, <1>2, SMT
<1>4. SubSeq(b, i, i + n - 1) \in Seq(Octet)
  <2>1. \A k \in i..(i + n - 1) : k \in 1..Len(b)
    BY <1>2, <1>3, SMT
  <2>2. \A k \in i..(i + n - 1) : b[k] \in Octet
    BY <2>1, ElementOfSeq, Zenon
  <2>3. i \in Int /\ i + n - 1 \in Int
    BY <1>2, SMT
  <2> QED BY <2>2, <2>3, SubSeqProperties, SMT
<1>5. PICK s : s = SubSeq(b, i, i + n - 1)
  OBVIOUS
<1>6. PICK next : next = i + n
  OBVIOUS
<1>7. Slice(b, i, n).val.next = next /\ Slice(b, i, n).val.bytes = s
  BY <1>1, <1>5, <1>6, FoundIs
<1> QED BY <1>3, <1>4, <1>5, <1>6, <1>7, Zenon

\* Whatever the bytes are, a value that is accepted lies within the buffer, and
\* the reader has got on by a byte at least: no slice of the generated
\* UnmarshalVT ends behind the buffer's end, and its loop over the fields ends.
THEOREM PayloadStaysInside ==
  ASSUME NEW b \in Seq(Octet), NEW i \in 1..(Len(b) + 1), NEW w \in {0, 1, 2, 5},
         ~Failed(Payload(b, i, w))
  PROVE  Payload(b, i, w).val.next \in (i + 1)..(Len(b) + 1)
<1>1. i \in Nat /\ Len(b) \in Nat
  BY BytesAre, SMT
<1>2. CASE w = 0
  BY <1>2, PayloadIs, VarintInside
<1>3. CASE w \in {1, 5}
  <2>1. PICK n \in {4, 8} : Payload(b, i, w) = Slice(b, i, n)
    BY <1>3, PayloadIs
  <2>2. i + n <= Len(b) + 1 /\ Slice(b, i, n).val.next = i + n
    <3>1. n \in Int /\ ~Failed(Slice(b, i, n))
      BY <2>1
    <3> QED BY <3>1, SliceInside, Zenon
  <2>3. i + n \in (i + 1)..(Len(b) + 1)
    BY <1>1, <2>2, SMT
  <2> QED BY <2>1, <2>2, <2>3, Zenon
<1>4. CASE w = 2
  <2>1. ~Failed(ReadVarint(b, i))
    BY <1>4, PayloadIs
  <2> DEFINE at == ReadVarint(b, i).val.next
             n  == Int64(ReadVarint(b, i).val.bytes)
  <2>2. at \in (i + 1)..(Len(b) + 1) /\ n \in Int
    BY <2>1, VarintInside, Zenon
  <2>3. Payload(b, i, w) = Slice(b, at, n)
    BY <1>4, <2>1, PayloadIs, Zenon
  <2> HIDE DEF at, n
  <2>4. at \in 1..(Len(b) + 1) /\ at >= i + 1 /\ at \in Nat
    BY <1>1, <2>2, SMT
  <2>5. n \in Nat /\ at + n <= Len(b) + 1 /\ Slice(b, at, n).val.next = at + n
    <3>1. ~Failed(Slice(b, at, n))
      BY <2>3, Zenon
    <3> QED BY <2>2, <2>4, <3>1, SliceInside, Zenon
  <2>6. at + n \in (i + 1)..(Len(b) + 1)
    BY <1>1, <2>4, <2>5, SMT
  <2> QED BY <2>3, <2>5, <2>6, Zenon
<1> QED BY <1>2, <1>3, <1>4
=============================================================================
