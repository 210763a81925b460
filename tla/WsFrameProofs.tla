---------------------------- MODULE WsFrameProofs ----------------------------
(***************************************************************************)
(* Proofs about the WebSocket frames, for every set of frames below 2^31   *)
(* bytes, every mask key and every cut: what ws_decode_data returns of a   *)
(* frame and what ws_construct_packet_data sends.  The bytes of a frame    *)
(* come first (XorTwice, FrameIs), then the decoder on a beginning of it   *)
(* (HeaderIsRead, FrameIsDecoded), the packet (PacketIsRead), and last the *)
(* invariant of the run of both (WsInv).                                   *)
(***************************************************************************)
EXTENDS WsFrame, SequenceTheorems, TLAPS

-----------------------------------------------------------------------------
(* Bytes and their bits.                                                   *)

Bits == [0 .. 7 -> 0 .. 1]

ByteOf(b) ==
    b[0] + 2 * b[1] + 4 * b[2] + 8 * b[3] + 16 * b[4] + 32 * b[5] + 64 * b[6] + 128 * b[7]

BitsXor(b, c) == [i \in 0 .. 7 |-> (b[i] + c[i]) % 2]

\* Every byte has its bits.
LEMMA HasBits ==
    ASSUME NEW a \in 0 .. 255
    PROVE  \E b \in Bits : a = ByteOf(b)
<1>1. PICK h \in 0 .. 15, l \in 0 .. 15 : a = 16 * h + l
  <2>1. a \div 16 \in 0 .. 15 /\ a % 16 \in 0 .. 15 /\ a = 16 * (a \div 16) + (a % 16)
    OBVIOUS
  <2> QED BY <2>1
<1>2. \A x \in 0 .. 15 : \E p, q, r, s \in 0 .. 1 : x = p + 2 * q + 4 * r + 8 * s
  <2>1. ASSUME NEW x \in 0 .. 15 PROVE \E p, q, r, s \in 0 .. 1 : x = p + 2 * q + 4 * r + 8 * s
    <3>1. /\ x % 2 \in 0 .. 1 /\ (x \div 2) % 2 \in 0 .. 1 /\ (x \div 4) % 2 \in 0 .. 1
          /\ x \div 8 \in 0 .. 1
          /\ x = (x % 2) + 2 * ((x \div 2) % 2) + 4 * ((x \div 4) % 2) + 8 * (x \div 8)
        OBVIOUS
    <3> QED BY <3>1
  <2> QED BY <2>1
<1>3. PICK p, q, r, s \in 0 .. 1 : h = p + 2 * q + 4 * r + 8 * s
    BY <1>2
<1>4. PICK t, u, v, w \in 0 .. 1 : l = t + 2 * u + 4 * v + 8 * w
    BY <1>2
<1> DEFINE b == [i \in 0 .. 7 |-> CASE i = 0 -> t [] i = 1 -> u [] i = 2 -> v [] i = 3 -> w
                                    [] i = 4 -> p [] i = 5 -> q [] i = 6 -> r [] OTHER -> s]
<1>5. /\ b \in Bits /\ b[0] = t /\ b[1] = u /\ b[2] = v /\ b[3] = w
      /\ b[4] = p /\ b[5] = q /\ b[6] = r /\ b[7] = s
    BY DEF Bits
<1>6. a = ByteOf(b)
    BY <1>1, <1>3, <1>4, <1>5 DEF ByteOf
<1> QED BY <1>5, <1>6

\* What the divisions of XorBit leave of a byte.
LEMMA ShiftedByte ==
    ASSUME NEW b \in Bits
    PROVE  LET a == ByteOf(b) IN
           /\ a \in 0 .. 255
           /\ a \div 1 = b[0] + 2 * (b[1] + 2 * b[2] + 4 * b[3] + 8 * b[4] + 16 * b[5] + 32 * b[6] + 64 * b[7])
           /\ a \div 2 = b[1] + 2 * (b[2] + 2 * b[3] + 4 * b[4] + 8 * b[5] + 16 * b[6] + 32 * b[7])
           /\ a \div 4 = b[2] + 2 * (b[3] + 2 * b[4] + 4 * b[5] + 8 * b[6] + 16 * b[7])
           /\ a \div 8 = b[3] + 2 * (b[4] + 2 * b[5] + 4 * b[6] + 8 * b[7])
           /\ a \div 16 = b[4] + 2 * (b[5] + 2 * b[6] + 4 * b[7])
           /\ a \div 32 = b[5] + 2 * (b[6] + 2 * b[7])
           /\ a \div 64 = b[6] + 2 * b[7]
           /\ a \div 128 = b[7]
<1>1. \A i \in 0 .. 7 : b[i] \in 0 .. 1
    BY DEF Bits
<1>2. /\ b[0] \in 0 .. 1 /\ b[1] \in 0 .. 1 /\ b[2] \in 0 .. 1 /\ b[3] \in 0 .. 1
      /\ b[4] \in 0 .. 1 /\ b[5] \in 0 .. 1 /\ b[6] \in 0 .. 1 /\ b[7] \in 0 .. 1
    BY <1>1
<1> QED BY <1>2 DEF ByteOf

\* Twice whatever is above a bit does not disturb it.
LEMMA LowBit ==
    ASSUME NEW x \in Nat, NEW y \in Nat, NEW p \in 0 .. 1, NEW q \in 0 .. 1
    PROVE  ((p + 2 * x) + (q + 2 * y)) % 2 = (p + q) % 2
OBVIOUS

\* Xor combines bit with bit.
LEMMA XorIsBitwise ==
    ASSUME NEW b \in Bits, NEW c \in Bits
    PROVE  BitsXor(b, c) \in Bits /\ Xor(ByteOf(b), ByteOf(c)) = ByteOf(BitsXor(b, c))
<1>1. /\ b[0] \in 0 .. 1 /\ b[1] \in 0 .. 1 /\ b[2] \in 0 .. 1 /\ b[3] \in 0 .. 1
      /\ b[4] \in 0 .. 1 /\ b[5] \in 0 .. 1 /\ b[6] \in 0 .. 1 /\ b[7] \in 0 .. 1
    BY DEF Bits
<1>2. /\ c[0] \in 0 .. 1 /\ c[1] \in 0 .. 1 /\ c[2] \in 0 .. 1 /\ c[3] \in 0 .. 1
      /\ c[4] \in 0 .. 1 /\ c[5] \in 0 .. 1 /\ c[6] \in 0 .. 1 /\ c[7] \in 0 .. 1
    BY DEF Bits
<1>3. BitsXor(b, c) \in Bits
    BY DEF Bits, BitsXor
<1> DEFINE a == ByteOf(b)
           d == ByteOf(c)
           X(i) == (b[i] + c[i]) % 2
<1>4. XorBit(a, d, 1) = X(0)
  <2>1. PICK x \in Nat : x = b[1] + 2 * b[2] + 4 * b[3] + 8 * b[4] + 16 * b[5] + 32 * b[6] + 64 * b[7]
    BY <1>1
  <2>2. PICK y \in Nat : y = c[1] + 2 * c[2] + 4 * c[3] + 8 * c[4] + 16 * c[5] + 32 * c[6] + 64 * c[7]
    BY <1>2
  <2> HIDE DEF a, d
  <2>3. a \div 1 = b[0] + 2 * x /\ d \div 1 = c[0] + 2 * y
    BY <2>1, <2>2, ShiftedByte DEF a, d
  <2> QED BY <1>1, <1>2, <2>3, LowBit DEF XorBit
<1>5. XorBit(a, d, 2) = 2 * X(1)
  <2>1. PICK x \in Nat : x = b[2] + 2 * b[3] + 4 * b[4] + 8 * b[5] + 16 * b[6] + 32 * b[7]
    BY <1>1
  <2>2. PICK y \in Nat : y = c[2] + 2 * c[3] + 4 * c[4] + 8 * c[5] + 16 * c[6] + 32 * c[7]
    BY <1>2
  <2> HIDE DEF a, d
  <2>3. a \div 2 = b[1] + 2 * x /\ d \div 2 = c[1] + 2 * y
    BY <2>1, <2>2, ShiftedByte DEF a, d
  <2> QED BY <1>1, <1>2, <2>3, LowBit DEF XorBit
<1>6. XorBit(a, d, 4) = 4 * X(2)
  <2> HIDE DEF a, d
  <2>1. a \div 4 = b[2] + 2 * (b[3] + 2 * b[4] + 4 * b[5] + 8 * b[6] + 16 * b[7])
    BY ShiftedByte DEF a
  <2>2. d \div 4 = c[2] + 2 * (c[3] + 2 * c[4] + 4 * c[5] + 8 * c[6] + 16 * c[7])
    BY ShiftedByte DEF d
  <2> QED BY <1>1, <1>2, <2>1, <2>2, LowBit DEF XorBit
<1>7. XorBit(a, d, 8) = 8 * X(3)
  <2> HIDE DEF a, d
  <2>1. a \div 8 = b[3] + 2 * (b[4] + 2 * b[5] + 4 * b[6] + 8 * b[7])
    BY ShiftedByte DEF a
  <2>2. d \div 8 = c[3] + 2 * (c[4] + 2 * c[5] + 4 * c[6] + 8 * c[7])
    BY ShiftedByte DEF d
  <2> QED BY <1>1, <1>2, <2>1, <2>2, LowBit DEF XorBit
<1>8. XorBit(a, d, 16) = 16 * X(4)
  <2> HIDE DEF a, d
  <2>1. a \div 16 = b[4] + 2 * (b[5] + 2 * b[6] + 4 * b[7])
    BY ShiftedByte DEF a
  <2>2. d \div 16 = c[4] + 2 * (c[5] + 2 * c[6] + 4 * c[7])
    BY ShiftedByte DEF d
  <2> QED BY <1>1, <1>2, <2>1, <2>2, LowBit DEF XorBit
<1>9. XorBit(a, d, 32) = 32 * X(5)
  <2> HIDE DEF a, d
  <2>1. a \div 32 = b[5] + 2 * (b[6] + 2 * b[7]) /\ d \div 32 = c[5] + 2 * (c[6] + 2 * c[7])
    BY ShiftedByte DEF a, d
  <2> QED BY <1>1, <1>2, <2>1, LowBit DEF XorBit
<1>10. XorBit(a, d, 64) = 64 * X(6)
  <2> HIDE DEF a, d
  <2>1. a \div 64 = b[6] + 2 * b[7] /\ d \div 64 = c[6] + 2 * c[7]
    BY ShiftedByte DEF a, d
  <2> QED BY <1>1, <1>2, <2>1, LowBit DEF XorBit
<1>11. XorBit(a, d, 128) = 128 * X(7)
  <2> HIDE DEF a, d
  <2>1. a \div 128 = b[7] /\ d \div 128 = c[7]
    BY ShiftedByte DEF a, d
  <2> QED BY <1>1, <1>2, <2>1 DEF XorBit
<1>12. \A i \in 0 .. 7 : BitsXor(b, c)[i] = X(i)
    BY DEF BitsXor
<1>13. Xor(a, d) = X(0) + 2 * X(1) + 4 * X(2) + 8 * X(3) + 16 * X(4) + 32 * X(5) + 64 * X(6) + 128 * X(7)
  <2> HIDE DEF a, d, X
  <2> QED BY <1>4, <1>5, <1>6, <1>7, <1>8, <1>9, <1>10, <1>11 DEF Xor
<1>14. Xor(a, d) = ByteOf(BitsXor(b, c))
  <2> HIDE DEF a, d, X
  <2> QED BY <1>12, <1>13 DEF ByteOf
<1> QED BY <1>3, <1>14

\* Unmasking undoes masking.
LEMMA XorTwice ==
    ASSUME NEW x \in 0 .. 255, NEW y \in 0 .. 255
    PROVE  Xor(x, y) \in 0 .. 255 /\ Xor(Xor(x, y), y) = x
<1>1. PICK b \in Bits : x = ByteOf(b)
    BY HasBits
<1>2. PICK c \in Bits : y = ByteOf(c)
    BY HasBits
<1>3. BitsXor(b, c) \in Bits /\ Xor(x, y) = ByteOf(BitsXor(b, c))
    BY <1>1, <1>2, XorIsBitwise
<1>4. Xor(Xor(x, y), y) = ByteOf(BitsXor(BitsXor(b, c), c))
    BY <1>2, <1>3, XorIsBitwise
<1>5. BitsXor(BitsXor(b, c), c) = b
  <2>1. \A i \in 0 .. 7 : (((b[i] + c[i]) % 2) + c[i]) % 2 = b[i]
    BY DEF Bits
  <2>2. b = [i \in 0 .. 7 |-> b[i]]
    BY DEF Bits
  <2> QED BY <2>1, <2>2 DEF BitsXor
<1> QED BY <1>1, <1>3, <1>4, <1>5, ShiftedByte

-----------------------------------------------------------------------------
(* The bytes of a frame.                                                   *)

\* A function on 1 .. n is a sequence of length n.
LEMMA IsSequence ==
    ASSUME NEW S, NEW n \in Nat, NEW g \in [1 .. n -> S]
    PROVE  g \in Seq(S) /\ Len(g) = n
<1>1. g \in Seq(S)
    BY Zenon, SeqDef
<1> QED BY <1>1, LenProperties

LEMMA LenIsNat == MaxLen \in Nat
BY SMT DEF MaxLen

MaskBit(f) == IF f.key = <<>> THEN 0 ELSE 128

\* w is the two bytes of m.
AreBytes(w, m) == w \in Seq(Nat) /\ Len(w) = 2 /\ w[1] = m \div 256 /\ w[2] = m % 256

LEMMA TwoBytesAre == \A m \in Nat : AreBytes(TwoBytes(m), m)
<1>1. ASSUME NEW m \in Nat PROVE AreBytes(TwoBytes(m), m)
  <2>1. m \div 256 \in Nat /\ m % 256 \in Nat
    OBVIOUS
  <2> QED BY <2>1 DEF TwoBytes, AreBytes
<1> QED BY <1>1

\* w is s followed by t.
Joins(w, s, t) == w = s \o t

LEMMA Joined ==
    ASSUME NEW s \in Seq(Nat), NEW t \in Seq(Nat)
    PROVE  \E w \in Seq(Nat) :
              /\ Joins(w, s, t)
              /\ Len(w) = Len(s) + Len(t)
              /\ \A i \in 1 .. Len(s) : w[i] = s[i]
              /\ \A i \in 1 .. Len(t) : w[Len(s) + i] = t[i]
<1>1. Len(s) \in Nat /\ Len(t) \in Nat
    OBVIOUS
<1>2. s \o t \in Seq(Nat) /\ Len(s \o t) = Len(s) + Len(t)
    BY ConcatProperties
<1>3. \A i \in 1 .. Len(s) + Len(t) : (s \o t)[i] = IF i <= Len(s) THEN s[i] ELSE t[i - Len(s)]
    BY ConcatProperties
<1>4. \A i \in 1 .. Len(s) : (s \o t)[i] = s[i]
    BY <1>1, <1>3
<1>5. ASSUME NEW i \in 1 .. Len(t) PROVE (s \o t)[Len(s) + i] = t[i]
  <2>1. Len(s) + i \in 1 .. Len(s) + Len(t) /\ ~(Len(s) + i <= Len(s)) /\ Len(s) + i - Len(s) = i
    BY <1>1
  <2> QED BY <1>3, <2>1
<1> QED BY <1>2, <1>4, <1>5 DEF Joins

LEMMA SizeIs ==
    ASSUME NEW f, WellFormed(f)
    PROVE  LET s == SizeField(f) IN
           /\ s \in Seq(Nat)
           /\ f.form = 0 => Len(s) = 1 /\ s[1] = MaskBit(f) + f.n
           /\ f.form = 126 => /\ Len(s) = 3 /\ s[1] = MaskBit(f) + 126
                              /\ s[2] = f.n \div 256 /\ s[3] = f.n % 256
           /\ f.form = 127 => /\ Len(s) = 9 /\ s[1] = MaskBit(f) + 127
                              /\ s[2] = 0 /\ s[3] = 0 /\ s[4] = 0 /\ s[5] = 0
                              /\ s[6] = (f.n \div 65536) \div 256 /\ s[7] = (f.n \div 65536) % 256
                              /\ s[8] = (f.n % 65536) \div 256 /\ s[9] = (f.n % 65536) % 256
<1>1. f.n \in Nat /\ MaskBit(f) \in Nat /\ f.form \in {0, 126, 127}
    BY LenIsNat, SMT DEF WellFormed, MaskBit
<1>3. CASE f.form = 0
    BY <1>1, <1>3 DEF SizeField, MaskBit
<1>4. CASE f.form = 126
  <2> DEFINE s == <<MaskBit(f) + 126>>
             t == TwoBytes(f.n)
  <2>1. SizeField(f) = s \o t
    BY <1>4 DEF SizeField, MaskBit
  <2>2. s \in Seq(Nat) /\ Len(s) = 1 /\ s[1] = MaskBit(f) + 126
    BY <1>1
  <2>3. t \in Seq(Nat) /\ Len(t) = 2 /\ t[1] = f.n \div 256 /\ t[2] = f.n % 256
    <3>1. AreBytes(t, f.n)
        BY <1>1, TwoBytesAre, Zenon
    <3> HIDE DEF t
    <3> QED BY <3>1 DEF AreBytes
  <2> HIDE DEF s, t
  <2>4. PICK w \in Seq(Nat) : /\ Joins(w, s, t) /\ Len(w) = Len(s) + Len(t)
                              /\ \A i \in 1 .. Len(s) : w[i] = s[i]
                              /\ \A i \in 1 .. Len(t) : w[Len(s) + i] = t[i]
    <3>1. s \in Seq(Nat) /\ t \in Seq(Nat)
        BY <2>2, <2>3
    <3> QED BY <3>1, Joined
  <2>5. Len(w) = 3 /\ w[1] = s[1] /\ w[2] = t[1] /\ w[3] = t[2]
    BY <2>2, <2>3, <2>4
  <2>6. SizeField(f) = w
    BY <2>1, <2>4 DEF Joins
  <2> QED BY <1>4, <2>2, <2>3, <2>5, <2>6
<1>5. CASE f.form = 127
  <2>1. PICK hi \in Nat, lo \in Nat : hi = f.n \div 65536 /\ lo = f.n % 65536
    BY <1>1, SMT
  <2> DEFINE s == <<MaskBit(f) + 127, 0, 0, 0, 0>>
             t == TwoBytes(hi)
             u == TwoBytes(lo)
  <2>2. SizeField(f) = s \o t \o u
    BY <1>5, <2>1, SMT DEF SizeField, MaskBit
  <2>3. /\ s \in Seq(Nat) /\ Len(s) = 5 /\ s[1] = MaskBit(f) + 127
        /\ s[2] = 0 /\ s[3] = 0 /\ s[4] = 0 /\ s[5] = 0
    BY <1>1
  <2>4. /\ t \in Seq(Nat) /\ Len(t) = 2 /\ t[1] = hi \div 256 /\ t[2] = hi % 256
        /\ u \in Seq(Nat) /\ Len(u) = 2 /\ u[1] = lo \div 256 /\ u[2] = lo % 256
    <3>1. AreBytes(t, hi) /\ AreBytes(u, lo)
        BY TwoBytesAre, Zenon
    <3> HIDE DEF s, t, u
    <3> QED BY <3>1 DEF AreBytes
  <2> HIDE DEF s, t, u
  <2>5. PICK v \in Seq(Nat) : /\ Joins(v, s, t) /\ Len(v) = Len(s) + Len(t)
                              /\ \A i \in 1 .. Len(s) : v[i] = s[i]
                              /\ \A i \in 1 .. Len(t) : v[Len(s) + i] = t[i]
    <3>1. s \in Seq(Nat) /\ t \in Seq(Nat)
        BY <2>3, <2>4
    <3> QED BY <3>1, Joined
  <2>6. /\ Len(v) = 7 /\ v[1] = s[1] /\ v[2] = s[2] /\ v[3] = s[3] /\ v[4] = s[4] /\ v[5] = s[5]
        /\ v[6] = t[1] /\ v[7] = t[2]
    <3>0. Len(s) = 5 /\ Len(t) = 2
        BY <2>3, <2>4
    <3>1. Len(v) = 7 /\ (\A i \in 1 .. 5 : v[i] = s[i]) /\ (\A i \in 1 .. 2 : v[5 + i] = t[i])
        BY <2>5, <3>0
    <3>2. v[5 + 1] = t[1] /\ v[5 + 2] = t[2]
        BY <3>1
    <3> QED BY <3>1, <3>2
  <2>7. PICK w \in Seq(Nat) : /\ Joins(w, v, u) /\ Len(w) = Len(v) + Len(u)
                              /\ \A i \in 1 .. Len(v) : w[i] = v[i]
                              /\ \A i \in 1 .. Len(u) : w[Len(v) + i] = u[i]
    <3>1. v \in Seq(Nat) /\ u \in Seq(Nat)
        BY <2>4
    <3> QED BY <3>1, Joined
  <2>8. /\ Len(w) = 9 /\ \A i \in 1 .. 7 : w[i] = v[i]
        /\ w[8] = u[1] /\ w[9] = u[2]
    <3>0. Len(v) = 7 /\ Len(u) = 2
        BY <2>4, <2>6
    <3>1. Len(w) = 9 /\ (\A i \in 1 .. 7 : w[i] = v[i]) /\ (\A i \in 1 .. 2 : w[7 + i] = u[i])
        BY <2>7, <3>0
    <3>2. w[7 + 1] = u[1] /\ w[7 + 2] = u[2]
        BY <3>1
    <3> QED BY <3>1, <3>2
  <2>9. SizeField(f) = w
    BY <2>2, <2>5, <2>7 DEF Joins
  <2> QED BY <1>5, <2>1, <2>3, <2>4, <2>6, <2>8, <2>9, SMT
<1> QED BY <1>1, <1>3, <1>4, <1>5

HeadLen(f) == IF f.form = 0 THEN 2 ELSE IF f.form = 126 THEN 4 ELSE 10
Start(f) == HeadLen(f) + (IF f.key = <<>> THEN 0 ELSE 4)

\* A text is bytes, and so is what masking makes of it.
LEMMA TextIs ==
    ASSUME NEW n \in Nat, NEW salt \in Nat
    PROVE  /\ Text(n, salt) \in [1 .. n -> 1 .. 255]
           /\ Text(n, salt) \in Seq(Nat) /\ Len(Text(n, salt)) = n
<1>1. \A x \in Nat : (x % 251) + 1 \in 1 .. 255
    OBVIOUS
<1>2. \A i \in 1 .. n : i * 37 + salt \in Nat
    OBVIOUS
<1>3. \A i \in 1 .. n : ((i * 37 + salt) % 251) + 1 \in 1 .. 255
    BY <1>1, <1>2
<1>4. Text(n, salt) \in [1 .. n -> 1 .. 255]
    BY <1>3, Zenon DEF Text
<1>5. 1 .. 255 \subseteq Nat
    OBVIOUS
<1>6. Text(n, salt) \in [1 .. n -> Nat]
  <2> DEFINE t == Text(n, salt)
  <2>1. t \in [1 .. n -> 1 .. 255]
    BY <1>4
  <2> HIDE DEF t
  <2>2. t \in [1 .. n -> Nat]
    BY <1>5, <2>1, Zenon
  <2> QED BY <2>2 DEF t
<1> QED BY <1>4, <1>6, IsSequence

LEMMA MaskedIs ==
    ASSUME NEW f, WellFormed(f)
    PROVE  LET m == Masked(Payload(f), f.key) IN
           /\ m \in Seq(Nat) /\ Len(m) = f.n
           /\ \A i \in 1 .. f.n : /\ Payload(f)[i] \in 0 .. 255
                                  /\ m[i] = IF f.key = <<>> THEN Payload(f)[i]
                                            ELSE Xor(Payload(f)[i], f.key[((i - 1) % 4) + 1])
<1> DEFINE p == Payload(f)
           m == Masked(p, f.key)
<1>1. f.n \in Nat /\ f.op \in Nat /\ (f.key # <<>> => f.key \in [1 .. 4 -> 0 .. 255])
    BY LenIsNat DEF WellFormed
<1>2. p \in [1 .. f.n -> 1 .. 255] /\ p \in Seq(Nat) /\ Len(p) = f.n
    BY <1>1, TextIs DEF Payload
<1> HIDE DEF p
<1>3. \A i \in 1 .. f.n : p[i] \in 0 .. 255
  <2>1. \A i \in 1 .. f.n : p[i] \in 1 .. 255
    BY <1>2, Zenon
  <2> QED BY <2>1
<1>4. CASE f.key = <<>>
  <2>1. m = p
    BY <1>4 DEF Masked
  <2> HIDE DEF m
  <2>2. m \in Seq(Nat) /\ Len(m) = f.n /\ \A i \in 1 .. f.n : p[i] \in 0 .. 255 /\ m[i] = p[i]
    BY <1>2, <1>3, <2>1
  <2> QED BY <1>4, <2>2 DEF m, p
<1>5. CASE f.key # <<>>
  <2> DEFINE k == f.key
             At(i) == ((i - 1) % 4) + 1
  <2>0. k \in [1 .. 4 -> 0 .. 255]
    BY <1>1, <1>5
  <2>1. ASSUME NEW i \in 1 .. f.n PROVE Xor(p[i], k[At(i)]) \in Nat
    <3>0. i \in Nat /\ i >= 1
        BY <1>1
    <3>1. At(i) \in 1 .. 4
        BY <3>0
    <3>2. k[At(i)] \in 0 .. 255
        BY <2>0, <3>1
    <3>3. Xor(p[i], k[At(i)]) \in 0 .. 255
        BY <1>3, <3>2, XorTwice
    <3> QED BY <3>3
  <2>2. DOMAIN p = 1 .. f.n
    BY <1>2
  <2>3. m = [i \in 1 .. f.n |-> Xor(p[i], k[At(i)])]
    BY <1>5, <2>2 DEF Masked
  <2> HIDE DEF m, k, At
  <2>4. m \in [1 .. f.n -> Nat]
    BY <2>1, <2>3, Zenon
  <2>5. m \in Seq(Nat) /\ Len(m) = f.n
    BY <1>1, <2>4, IsSequence
  <2>6. \A i \in 1 .. f.n : m[i] = Xor(p[i], k[At(i)])
    BY <2>3, Zenon
  <2> QED BY <1>3, <1>5, <2>5, <2>6, Zenon DEF m, k, p, At
<1> QED BY <1>4, <1>5

\* The form of the length fixes that of the header.
LEMMA HeadLenIs ==
    ASSUME NEW f, f.form \in {0, 126, 127}
    PROVE  /\ HeadLen(f) \in {2, 4, 10}
           /\ f.form = 0 => HeadLen(f) = 2
           /\ f.form = 126 => HeadLen(f) = 4
           /\ f.form = 127 => HeadLen(f) = 10
<1>1. CASE f.form = 0
    BY <1>1 DEF HeadLen
<1>2. CASE f.form = 126
    BY <1>2 DEF HeadLen
<1>3. CASE f.form = 127
    BY <1>3 DEF HeadLen
<1> QED BY <1>1, <1>2, <1>3

\* The bytes of a frame, one by one.
LEMMA FrameIs ==
    ASSUME NEW f, WellFormed(f)
    PROVE  LET w == Frame(f)
               m == Masked(Payload(f), f.key)
           IN
           /\ w \in Seq(Nat) /\ Len(w) = Start(f) + f.n
           /\ w[1] = (IF f.fin THEN 128 ELSE 0) + f.op
           /\ f.form = 0 => w[2] = MaskBit(f) + f.n
           /\ f.form = 126 => w[2] = MaskBit(f) + 126 /\ w[3] = f.n \div 256 /\ w[4] = f.n % 256
           /\ f.form = 127 => /\ w[2] = MaskBit(f) + 127
                              /\ w[3] = 0 /\ w[4] = 0 /\ w[5] = 0 /\ w[6] = 0
                              /\ w[7] = (f.n \div 65536) \div 256 /\ w[8] = (f.n \div 65536) % 256
                              /\ w[9] = (f.n % 65536) \div 256 /\ w[10] = (f.n % 65536) % 256
           /\ f.key # <<>> => \A j \in 1 .. 4 : w[HeadLen(f) + j] = f.key[j]
           /\ \A i \in 1 .. f.n : w[Start(f) + i] = m[i]
<1> DEFINE a == <<(IF f.fin THEN 128 ELSE 0) + f.op>>
           s == SizeField(f)
           k == f.key
           m == Masked(Payload(f), f.key)
<1>1. f.n \in Nat /\ f.op \in Nat /\ f.form \in {0, 126, 127} /\ f.fin \in BOOLEAN
    BY LenIsNat DEF WellFormed
<1>2. a \in Seq(Nat) /\ Len(a) = 1 /\ a[1] = (IF f.fin THEN 128 ELSE 0) + f.op
    BY <1>1
<1>3. s \in Seq(Nat) /\ Len(s) = HeadLen(f) - 1
  <2>1. /\ s \in Seq(Nat) /\ (f.form = 0 => Len(s) = 1)
        /\ (f.form = 126 => Len(s) = 3) /\ (f.form = 127 => Len(s) = 9)
    BY SizeIs, SMT
  <2> HIDE DEF a, s, k, m
  <2>2. CASE f.form = 0
    BY <2>1, <2>2, HeadLenIs
  <2>3. CASE f.form = 126
    BY <2>1, <2>3, HeadLenIs
  <2>4. CASE f.form = 127
    BY <2>1, <2>4, HeadLenIs
  <2> QED BY <1>1, <2>2, <2>3, <2>4, Zenon
<1>4. k \in Seq(Nat) /\ Len(k) = Start(f) - HeadLen(f) /\ (k # <<>> => Len(k) = 4)
  <2>1. CASE k = <<>>
    BY <2>1, EmptySeq DEF Start, HeadLen
  <2>2. CASE k # <<>>
    <3>1. k \in [1 .. 4 -> 0 .. 255]
        BY <2>2 DEF WellFormed
    <3>2. k \in [1 .. 4 -> Nat]
        BY <3>1
    <3> HIDE DEF a, s, k, m
    <3>4. k \in Seq(Nat) /\ Len(k) = 4
      <4>1. \A n \in Nat : k \in [1 .. n -> Nat] => k \in Seq(Nat) /\ Len(k) = n
          BY IsSequence
      <4> QED BY <3>2, <4>1
    <3>5. f.key # <<>>
        BY <2>2 DEF k
    <3>6. Start(f) = HeadLen(f) + 4
        BY <3>5, Zenon DEF Start
    <3>7. HeadLen(f) \in {2, 4, 10}
        BY <1>1, HeadLenIs
    <3>8. Len(k) = Start(f) - HeadLen(f)
        BY <3>4, <3>6, <3>7
    <3> QED BY <3>4, <3>8
  <2> QED BY <2>1, <2>2
<1>5. m \in Seq(Nat) /\ Len(m) = f.n
    BY MaskedIs
<1>6. Frame(f) = a \o s \o k \o m
    BY DEF Frame
<1>7. HeadLen(f) \in {2, 4, 10} /\ Start(f) \in Nat /\ Start(f) >= HeadLen(f)
    BY DEF HeadLen, Start
<1> HIDE DEF a, s, k, m
<1>8. PICK u \in Seq(Nat) : /\ Joins(u, a, s) /\ Len(u) = Len(a) + Len(s)
                            /\ \A i \in 1 .. Len(a) : u[i] = a[i]
                            /\ \A i \in 1 .. Len(s) : u[Len(a) + i] = s[i]
  <2>1. a \in Seq(Nat) /\ s \in Seq(Nat)
    BY <1>2, <1>3
  <2> QED BY <2>1, Joined
<1>9. PICK v \in Seq(Nat) : /\ Joins(v, u, k) /\ Len(v) = Len(u) + Len(k)
                            /\ \A i \in 1 .. Len(u) : v[i] = u[i]
                            /\ \A i \in 1 .. Len(k) : v[Len(u) + i] = k[i]
  <2>1. u \in Seq(Nat) /\ k \in Seq(Nat)
    BY <1>4
  <2> QED BY <2>1, Joined
<1>10. PICK w \in Seq(Nat) : /\ Joins(w, v, m) /\ Len(w) = Len(v) + Len(m)
                             /\ \A i \in 1 .. Len(v) : w[i] = v[i]
                             /\ \A i \in 1 .. Len(m) : w[Len(v) + i] = m[i]
  <2>1. v \in Seq(Nat) /\ m \in Seq(Nat)
    BY <1>5
  <2> QED BY <2>1, Joined
<1>11. Frame(f) = w
    BY <1>6, <1>8, <1>9, <1>10 DEF Joins
<1>12. /\ Len(u) = HeadLen(f) /\ u[1] = a[1]
       /\ \A i \in 1 .. HeadLen(f) - 1 : u[1 + i] = s[i]
  <2>1. Len(a) = 1 /\ Len(s) = HeadLen(f) - 1
    BY <1>2, <1>3
  <2>2. Len(u) = HeadLen(f)
    BY <1>7, <1>8, <2>1
  <2>3. \A i \in 1 .. 1 : u[i] = a[i]
    BY <1>8, <2>1, Zenon
  <2>4. \A i \in 1 .. HeadLen(f) - 1 : u[1 + i] = s[i]
    BY <1>8, <2>1, Zenon
  <2> QED BY <2>2, <2>3, <2>4
<1>13. /\ Len(v) = Start(f)
       /\ \A i \in 1 .. HeadLen(f) : v[i] = u[i]
       /\ k # <<>> => \A j \in 1 .. 4 : v[HeadLen(f) + j] = k[j]
  <2>1. Len(u) = HeadLen(f) /\ Len(k) = Start(f) - HeadLen(f) /\ (k # <<>> => Len(k) = 4)
    BY <1>4, <1>12
  <2>2. Len(v) = Start(f)
    BY <1>7, <1>9, <2>1
  <2>3. \A i \in 1 .. HeadLen(f) : v[i] = u[i]
    BY <1>9, <2>1, Zenon
  <2>4. k # <<>> => \A j \in 1 .. 4 : v[HeadLen(f) + j] = k[j]
    BY <1>9, <2>1, Zenon
  <2> QED BY <2>2, <2>3, <2>4
<1>14. /\ Len(w) = Start(f) + f.n
       /\ \A i \in 1 .. Start(f) : w[i] = v[i]
       /\ \A i \in 1 .. f.n : w[Start(f) + i] = m[i]
  <2>1. Len(v) = Start(f) /\ Len(m) = f.n
    BY <1>5, <1>13
  <2> QED BY <1>10, <2>1
<1>15. w[1] = a[1] /\ \A i \in 1 .. HeadLen(f) - 1 : w[1 + i] = s[i]
  <2>1. \A i \in 1 .. HeadLen(f) : w[i] = u[i]
    BY <1>7, <1>13, <1>14
  <2>2. 1 \in 1 .. HeadLen(f) /\ \A i \in 1 .. HeadLen(f) - 1 : 1 + i \in 1 .. HeadLen(f)
    BY <1>7
  <2> QED BY <1>12, <2>1, <2>2, Zenon
<1>16. k # <<>> => \A j \in 1 .. 4 : w[HeadLen(f) + j] = k[j]
  <2>1. k # <<>> => Start(f) = HeadLen(f) + 4
    BY <1>4, <1>7
  <2>2. ASSUME k # <<>>, NEW j \in 1 .. 4 PROVE w[HeadLen(f) + j] = k[j]
    <3>1. HeadLen(f) + j \in 1 .. Start(f)
        BY <1>7, <2>1, <2>2
    <3> QED BY <1>13, <1>14, <2>2, <3>1
  <2> QED BY <2>2
<1>17. CASE f.form = 0
  <2>1. w[1 + 1] = s[1] /\ s[1] = MaskBit(f) + f.n
    BY <1>15, <1>17, SizeIs DEF HeadLen, s
  <2> QED BY <1>2, <1>11, <1>14, <1>15, <1>16, <1>17, <2>1 DEF k, m
<1>18. CASE f.form = 126
  <2>1. w[1 + 1] = s[1] /\ w[1 + 2] = s[2] /\ w[1 + 3] = s[3]
    BY <1>15, <1>18 DEF HeadLen
  <2>2. s[1] = MaskBit(f) + 126 /\ s[2] = f.n \div 256 /\ s[3] = f.n % 256
    BY <1>18, SizeIs DEF s
  <2>3. w[2] = s[1] /\ w[3] = s[2] /\ w[4] = s[3]
    BY <2>1
  <2> QED BY <1>2, <1>11, <1>14, <1>15, <1>16, <1>18, <2>2, <2>3 DEF k, m
<1>19. CASE f.form = 127
  <2>1. /\ w[1 + 1] = s[1] /\ w[1 + 2] = s[2] /\ w[1 + 3] = s[3] /\ w[1 + 4] = s[4] /\ w[1 + 5] = s[5]
        /\ w[1 + 6] = s[6] /\ w[1 + 7] = s[7] /\ w[1 + 8] = s[8] /\ w[1 + 9] = s[9]
    BY <1>15, <1>19 DEF HeadLen
  <2>2. /\ w[2] = s[1] /\ w[3] = s[2] /\ w[4] = s[3] /\ w[5] = s[4] /\ w[6] = s[5]
        /\ w[7] = s[6] /\ w[8] = s[7] /\ w[9] = s[8] /\ w[10] = s[9]
    BY <2>1
  <2>3. /\ s[1] = MaskBit(f) + 127 /\ s[2] = 0 /\ s[3] = 0 /\ s[4] = 0 /\ s[5] = 0
        /\ s[6] = (f.n \div 65536) \div 256 /\ s[7] = (f.n \div 65536) % 256
        /\ s[8] = (f.n % 65536) \div 256 /\ s[9] = (f.n % 65536) % 256
    BY <1>19, SizeIs, SMT DEF s
  <2> QED BY <1>2, <1>11, <1>14, <1>15, <1>16, <1>19, <2>2, <2>3, SMT DEF k, m
<1> QED BY <1>1, <1>17, <1>18, <1>19

-----------------------------------------------------------------------------
(* The decoder.                                                            *)

\* What recv returns of a frame: as far as both go, the bytes are the same.
Received(d, f) ==
    /\ d \in Seq(Nat) /\ Len(d) <= MAX_MSG_LEN
    /\ \A i \in 1 .. Len(d) : i <= Len(Frame(f)) => d[i] = Frame(f)[i]

\* The bytes of the header that are there are those of the frame.
LEMMA HeaderBytes ==
    ASSUME NEW f, WellFormed(f), NEW d, Received(d, f)
    PROVE  /\ Len(d) \in Nat /\ HeadLen(f) \in {2, 4, 10} /\ f.n \in Nat /\ f.op \in 0 .. 15 /\ f.op \in Nat
           /\ f.fin \in BOOLEAN /\ f.form \in {0, 126, 127} /\ Start(f) \in Nat /\ HeadLen(f) <= Start(f)
           /\ Len(Frame(f)) = Start(f) + f.n
           /\ Len(d) >= 1 => d[1] = (IF f.fin THEN 128 ELSE 0) + f.op
           /\ \A i \in 1 .. HeadLen(f) : i <= Len(d) => d[i] = Frame(f)[i]
<1>1. f.n \in Nat /\ f.op \in 0 .. 15 /\ f.op \in Nat /\ f.fin \in BOOLEAN /\ f.form \in {0, 126, 127}
    BY LenIsNat DEF WellFormed
<1>2. HeadLen(f) \in {2, 4, 10}
    BY <1>1, HeadLenIs
<1>3. Start(f) \in Nat /\ HeadLen(f) <= Start(f)
    BY <1>2 DEF Start
<1>4. Len(Frame(f)) = Start(f) + f.n /\ Frame(f)[1] = (IF f.fin THEN 128 ELSE 0) + f.op
    BY FrameIs, SMT
<1>5. Len(d) \in Nat /\ \A i \in 1 .. Len(d) : i <= Len(Frame(f)) => d[i] = Frame(f)[i]
    BY DEF Received
<1>6. ASSUME NEW i \in 1 .. HeadLen(f), i <= Len(d) PROVE d[i] = Frame(f)[i]
  <2>1. i \in 1 .. Len(d) /\ i <= Len(Frame(f))
    BY <1>1, <1>2, <1>3, <1>4, <1>5, <1>6
  <2> QED BY <1>5, <2>1
<1>7. Len(d) >= 1 => d[1] = Frame(f)[1]
  <2>1. 1 \in 1 .. HeadLen(f)
    BY <1>2
  <2> QED BY <1>5, <1>6, <2>1
<1> QED BY <1>1, <1>2, <1>3, <1>4, <1>5, <1>6, <1>7

\* The first two bytes tell the type, the mask and the form of the length.
LEMMA FirstBytes ==
    ASSUME NEW f, WellFormed(f), NEW d, Received(d, f), Len(d) >= 2
    PROVE  /\ FrameType(d) = IF f.fin THEN TypeOfOp(f.op)
                             ELSE IF f.op = 0 THEN "WDT_MINDATA" ELSE "WDT_ERR"
           /\ IsMasked(d) <=> f.key # <<>>
           /\ d[2] % 128 = IF f.form = 0 THEN f.n ELSE f.form
<1> DEFINE w == Frame(f)
<1>1. /\ f.n \in Nat /\ f.op \in 0 .. 15 /\ f.fin \in BOOLEAN /\ f.form \in {0, 126, 127}
      /\ d[1] = (IF f.fin THEN 128 ELSE 0) + f.op
    BY HeaderBytes
<1>2. d[2] = w[2]
  <2>1. \A i \in 1 .. HeadLen(f) : i <= Len(d) => d[i] = w[i]
    BY HeaderBytes
  <2>2. 2 \in 1 .. HeadLen(f) /\ 2 <= Len(d)
    BY HeaderBytes
  <2> QED BY <2>1, <2>2, Zenon
<1>3. MaskBit(f) \in {0, 128} /\ (MaskBit(f) = 128 <=> f.key # <<>>)
    BY DEF MaskBit
<1>4. w[2] = MaskBit(f) + (IF f.form = 0 THEN f.n ELSE f.form)
  <2>1. /\ f.form = 0 => w[2] = MaskBit(f) + f.n
        /\ f.form = 126 => w[2] = MaskBit(f) + 126
        /\ f.form = 127 => w[2] = MaskBit(f) + 127
    BY FrameIs, SMT
  <2> HIDE DEF w
  <2>2. CASE f.form = 0
    BY <2>1, <2>2, Zenon
  <2>3. CASE f.form = 126
    <3>1. f.form # 0
        BY <2>3
    <3> QED BY <2>1, <2>3, <3>1, Zenon
  <2>4. CASE f.form = 127
    <3>1. f.form # 0
        BY <2>4
    <3> QED BY <2>1, <2>4, <3>1, Zenon
  <2> QED BY <1>1, <2>2, <2>3, <2>4, Zenon
<1> HIDE DEF w
<1>5. PICK x \in 0 .. 127 : x = IF f.form = 0 THEN f.n ELSE f.form
  <2>1. f.form = 0 => f.n <= 125
    BY DEF WellFormed
  <2>2. CASE f.form = 0
    <3>1. f.n \in 0 .. 127
      <4>1. PICK n \in Nat : n = f.n
          BY <1>1
      <4>2. n <= 125
          BY <2>1, <2>2, <4>1, Zenon
      <4>3. n \in 0 .. 127
          BY <4>2
      <4> QED BY <4>1, <4>3, Zenon
    <3>2. f.n = IF f.form = 0 THEN f.n ELSE f.form
        BY <2>2, Zenon
    <3> QED BY <3>1, <3>2, Zenon
  <2>3. CASE f.form # 0
    <3>1. f.form \in 0 .. 127 /\ f.form = IF f.form = 0 THEN f.n ELSE f.form
        BY <1>1, <2>3
    <3> QED BY <3>1, Zenon
  <2> QED BY <2>2, <2>3
<1>6. IsMasked(d) <=> f.key # <<>>
  <2>1. d[2] = MaskBit(f) + x
    BY <1>2, <1>4, <1>5, Zenon
  <2>2. d[2] >= 128 <=> MaskBit(f) = 128
    BY <1>3, <2>1
  <2> QED BY <1>3, <2>2 DEF IsMasked
<1>7. d[2] % 128 = IF f.form = 0 THEN f.n ELSE f.form
  <2>1. d[2] = MaskBit(f) + x
    BY <1>2, <1>4, <1>5, Zenon
  <2>2. d[2] % 128 = x
    BY <1>3, <2>1
  <2> QED BY <1>5, <2>2
<1>8. CASE f.fin
  <2>0. PICK op \in 0 .. 15 : op = f.op
    BY <1>1
  <2>1. d[1] >= 128 /\ d[1] % 16 = f.op
    <3>1. d[1] = 128 + op
        BY <1>1, <1>8, <2>0, Zenon
    <3>2. 128 + op >= 128 /\ (128 + op) % 16 = op
        OBVIOUS
    <3> QED BY <2>0, <3>1, <3>2, Zenon
  <2> QED BY <1>6, <1>7, <1>8, <2>1, Zenon DEF FrameType
<1>9. CASE ~f.fin
  <2>0. PICK op \in 0 .. 15 : op = f.op
    BY <1>1
  <2>1. d[1] = f.op /\ ~(d[1] >= 128) /\ d[1] % 16 = f.op
    <3>1. d[1] = 0 + op
        BY <1>1, <1>9, <2>0, Zenon
    <3>2. 0 + op = op /\ ~(0 + op >= 128) /\ (0 + op) % 16 = op
        OBVIOUS
    <3> QED BY <2>0, <3>1, <3>2, Zenon
  <2> QED BY <1>6, <1>7, <1>9, <2>1, Zenon DEF FrameType
<1> QED BY <1>8, <1>9

\* With all of the header there, the code knows where the text is; with a
\* part of it, it knows that it does not.
LEMMA HeaderIsRead ==
    ASSUME NEW f, WellFormed(f), NEW d, Received(d, f), Len(d) >= 2
    PROVE  /\ Len(d) < HeadLen(f) => HeaderLen(d) = 0
           /\ Len(d) >= HeadLen(f) =>
                /\ HeaderLen(d) = HeadLen(f)
                /\ PayloadLen(d) = f.n
                /\ DataStart(d) = Start(f)
<1> DEFINE w == Frame(f)
<1>1. /\ f.n \in Nat /\ f.form \in {0, 126, 127} /\ Len(d) \in Nat
      /\ \A i \in 1 .. HeadLen(f) : i <= Len(d) => d[i] = w[i]
    BY HeaderBytes
<1>2. d[2] % 128 = IF f.form = 0 THEN f.n ELSE f.form
    BY FirstBytes, Zenon
<1>3. ASSUME HeaderLen(d) = HeadLen(f) PROVE DataStart(d) = Start(f)
    BY <1>3, FirstBytes, Zenon DEF DataStart, Start
<1>4. CASE f.form = 0
  <2>1. f.n <= 125 /\ d[2] % 128 = f.n /\ HeadLen(f) = 2
    BY <1>2, <1>4, HeadLenIs DEF WellFormed
  <2>2. HeaderLen(d) = 2
    BY <1>1, <2>1 DEF HeaderLen
  <2>3. PayloadLen(d) = f.n
    BY <2>1, <2>2 DEF PayloadLen
  <2> QED BY <1>1, <1>3, <2>1, <2>2, <2>3
<1>5. CASE f.form = 126
  <2>1. d[2] % 128 = 126 /\ HeadLen(f) = 4
    BY <1>2, <1>5, HeadLenIs
  <2>2. HeaderLen(d) = IF Len(d) < 4 THEN 0 ELSE 4
    BY <2>1 DEF HeaderLen
  <2>3. CASE Len(d) < 4
    BY <1>1, <2>1, <2>2, <2>3
  <2>4. CASE ~(Len(d) < 4)
    <3>1. HeaderLen(d) = 4
        BY <2>2, <2>4
    <3>2. w[3] = f.n \div 256 /\ w[4] = f.n % 256
        BY <1>5, FrameIs, SMT
    <3> HIDE DEF w
    <3>3. d[3] = w[3] /\ d[4] = w[4]
        BY <1>1, <2>1, <2>4
    <3>4. PayloadLen(d) = Word(d, 3)
        BY <3>1 DEF PayloadLen
    <3>5. Word(d, 3) = 256 * d[3] + d[4]
        BY DEF Word
    <3>6. PayloadLen(d) = f.n
        BY <1>1, <3>2, <3>3, <3>4, <3>5
    <3> QED BY <1>1, <1>3, <2>1, <2>4, <3>1, <3>6
  <2> QED BY <2>3, <2>4
<1>6. CASE f.form = 127
  <2>1. d[2] % 128 = 127 /\ HeadLen(f) = 10
    BY <1>2, <1>6, HeadLenIs
  <2>2. HeaderLen(d) = IF Len(d) < 10 THEN 0 ELSE IF \E i \in 3 .. 6 : d[i] # 0 THEN 0 ELSE 10
    BY <2>1 DEF HeaderLen
  <2>3. CASE Len(d) < 10
    BY <1>1, <2>1, <2>2, <2>3
  <2>4. CASE ~(Len(d) < 10)
    <3>1. /\ w[3] = 0 /\ w[4] = 0 /\ w[5] = 0 /\ w[6] = 0
          /\ w[7] = (f.n \div 65536) \div 256 /\ w[8] = (f.n \div 65536) % 256
          /\ w[9] = (f.n % 65536) \div 256 /\ w[10] = (f.n % 65536) % 256
        BY <1>6, FrameIs, SMT
    <3> HIDE DEF w
    <3>2. \A i \in 3 .. 10 : d[i] = w[i]
        BY <1>1, <2>1, <2>4
    <3>3. \A i \in 3 .. 6 : d[i] = 0
        BY <3>1, <3>2
    <3>4. HeaderLen(d) = 10
        BY <2>2, <2>4, <3>3
    <3>5. PayloadLen(d) = 65536 * Word(d, 7) + Word(d, 9)
        BY <3>4, SMT DEF PayloadLen
    <3>6. Word(d, 7) = 256 * d[7] + d[8] /\ Word(d, 9) = 256 * d[9] + d[10]
        BY DEF Word
    <3>7. PICK hi \in Nat, lo \in Nat : hi = f.n \div 65536 /\ lo = f.n % 65536 /\ 65536 * hi + lo = f.n
      <4>1. PICK m \in Nat : m = f.n
          BY <1>1
      <4>2. m \div 65536 \in Nat /\ m % 65536 \in Nat /\ 65536 * (m \div 65536) + (m % 65536) = m
          BY SMT
      <4> QED BY <4>1, <4>2, SMT
    <3>8. Word(d, 7) = hi /\ Word(d, 9) = lo
      <4>1. d[7] = w[7] /\ d[8] = w[8] /\ d[9] = w[9] /\ d[10] = w[10]
          BY <3>2
      <4>2. d[7] = hi \div 256 /\ d[8] = hi % 256 /\ d[9] = lo \div 256 /\ d[10] = lo % 256
          BY <3>1, <3>7, <4>1, SMT
      <4> QED BY <3>6, <4>2
    <3>9. PayloadLen(d) = f.n
        BY <3>5, <3>7, <3>8, SMT
    <3> QED BY <1>1, <1>3, <2>1, <2>4, <3>4, <3>9
  <2> QED BY <2>3, <2>4
<1> QED BY <1>1, <1>4, <1>5, <1>6

\* A frame cut short is refused, and one that is all there and of a known
\* type gives back the text.
LEMMA FrameIsDecoded ==
    ASSUME NEW f, WellFormed(f), NEW d, Received(d, f)
    PROVE  /\ Len(d) < Len(Frame(f)) => Refused(d)
           /\ Len(d) >= Len(Frame(f)) =>
                (Refused(d) <=> FrameType(d) = "WDT_ERR") /\ Unmasked(d) = Payload(f)
<1>1. /\ Len(d) \in Nat /\ HeadLen(f) \in {2, 4, 10} /\ f.n \in Nat /\ Start(f) \in Nat
      /\ HeadLen(f) <= Start(f) /\ Len(Frame(f)) = Start(f) + f.n /\ f.op \in Nat
    BY HeaderBytes
<1>2. ASSUME Len(d) < Len(Frame(f)) PROVE Refused(d)
  <2>1. CASE Len(d) < 2
    BY <2>1 DEF Refused
  <2>2. CASE Len(d) >= 2 /\ Len(d) < HeadLen(f)
    BY <2>2, HeaderIsRead DEF Refused
  <2>3. CASE Len(d) >= 2 /\ Len(d) >= HeadLen(f)
    <3>1. PayloadLen(d) = f.n /\ DataStart(d) = Start(f)
        BY <2>3, HeaderIsRead
    <3>2. Len(d) < PayloadLen(d) + DataStart(d)
        BY <1>1, <1>2, <3>1
    <3> QED BY <3>2 DEF Refused
  <2> QED BY <1>1, <2>1, <2>2, <2>3
<1>3. ASSUME Len(d) >= Len(Frame(f))
      PROVE  (Refused(d) <=> FrameType(d) = "WDT_ERR") /\ Unmasked(d) = Payload(f)
  <2>1. Len(d) >= 2 /\ Len(d) >= HeadLen(f)
    BY <1>1, <1>3
  <2>2. HeaderLen(d) = HeadLen(f) /\ PayloadLen(d) = f.n /\ DataStart(d) = Start(f)
    BY <2>1, HeaderIsRead
  <2>3. Len(d) <= MAX_MSG_LEN /\ MAX_MSG_LEN \in Nat
    BY WsAssumption DEF Received
  <2>4. /\ ~(Len(d) < 2) /\ HeaderLen(d) # 0 /\ ~(Len(d) < PayloadLen(d) + DataStart(d))
        /\ ~(MAX_MSG_LEN < PayloadLen(d) + 1)
    BY <1>1, <1>3, <2>1, <2>2, <2>3
  <2>5. Refused(d) <=> FrameType(d) = "WDT_ERR"
    BY <2>4 DEF Refused
  <2> DEFINE p == Payload(f)
             w == Frame(f)
             m == Masked(p, f.key)
             Byte(i) == IF IsMasked(d) THEN Xor(d[Start(f) + i], d[Start(f) - 3 + ((i - 1) % 4)])
                        ELSE d[Start(f) + i]
  <2>6. \A i \in 1 .. f.n : p[i] \in 0 .. 255 /\ m[i] = IF f.key = <<>> THEN p[i]
                                                       ELSE Xor(p[i], f.key[((i - 1) % 4) + 1])
    BY MaskedIs
  <2>7. /\ \A i \in 1 .. f.n : w[Start(f) + i] = m[i]
        /\ f.key # <<>> => \A j \in 1 .. 4 : w[HeadLen(f) + j] = f.key[j]
    BY FrameIs, SMT
  <2>8. IsMasked(d) <=> f.key # <<>>
    BY <2>1, FirstBytes, Zenon
  <2>9. \A i \in 1 .. Len(w) : d[i] = w[i]
    <3>1. \A i \in 1 .. Len(d) : i <= Len(w) => d[i] = w[i]
        BY DEF Received
    <3> HIDE DEF w
    <3> QED BY <1>1, <1>3, <3>1 DEF w
  <2>10. p = [i \in 1 .. f.n |-> p[i]]
    <3> HIDE DEF p, w, m, Byte
    <3>1. f.n \in Nat /\ f.op \in Nat
        BY <1>1, Zenon
    <3>2. Payload(f) \in [1 .. f.n -> 1 .. 255]
        BY <3>1, TextIs, Zenon DEF Payload
    <3>3. p \in [1 .. f.n -> 1 .. 255]
        BY <3>2 DEF p
    <3> QED BY <3>3
  <2> HIDE DEF p, w, m
  <2>11. \A i \in 1 .. f.n : d[Start(f) + i] = m[i]
    <3>1. \A i \in 1 .. f.n : Start(f) + i \in 1 .. Len(w)
        BY <1>1 DEF w
    <3> QED BY <2>7, <2>9, <3>1
  <2>12. ASSUME NEW i \in 1 .. f.n PROVE Byte(i) = p[i]
    <3>1. CASE f.key = <<>>
        BY <2>6, <2>8, <2>11, <3>1
    <3>2. CASE f.key # <<>>
      <4>1. PICK r \in 0 .. 3 : r = (i - 1) % 4
          BY <1>1
      <4>2. Start(f) = HeadLen(f) + 4
          BY <3>2, Zenon DEF Start
      <4>3. Start(f) - 3 + r = HeadLen(f) + (r + 1) /\ r + 1 \in 1 .. 4
        <5> HIDE DEF Byte
        <5>1. PICK h \in Nat, st \in Nat : h = HeadLen(f) /\ st = Start(f)
            BY <1>1
        <5>2. st = h + 4
            BY <4>2, <5>1, Zenon
        <5>3. st - 3 + r = h + (r + 1) /\ r + 1 \in 1 .. 4
            BY <5>2
        <5> QED BY <5>1, <5>3
      <4>4. HeadLen(f) + (r + 1) \in 1 .. Len(w)
        <5>1. Len(w) = Start(f) + f.n /\ f.n \in Nat /\ HeadLen(f) \in Nat
            BY <1>1 DEF w
        <5> HIDE DEF Byte
        <5> QED BY <4>2, <4>3, <5>1
      <4>5. d[Start(f) - 3 + r] = f.key[r + 1]
          BY <2>7, <2>9, <3>2, <4>3, <4>4
      <4>6. f.key[r + 1] \in 0 .. 255
        <5>1. f.key \in [1 .. 4 -> 0 .. 255]
            BY <3>2 DEF WellFormed
        <5> QED BY <4>3, <5>1
      <4>7. m[i] = Xor(p[i], f.key[r + 1]) /\ p[i] \in 0 .. 255
          BY <2>6, <3>2, <4>1
      <4>8. Byte(i) = Xor(m[i], f.key[r + 1])
          BY <2>8, <2>11, <3>2, <4>1, <4>5, Zenon
      <4>9. Xor(m[i], f.key[r + 1]) = p[i]
        <5> HIDE DEF Byte
        <5>1. PICK x \in 0 .. 255, y \in 0 .. 255 : x = p[i] /\ y = f.key[r + 1]
            BY <4>6, <4>7
        <5>2. Xor(Xor(x, y), y) = x
            BY XorTwice
        <5> QED BY <4>7, <5>1, <5>2, Zenon
      <4> QED BY <4>8, <4>9, Zenon
    <3> QED BY <3>1, <3>2
  <2>13. Unmasked(d) = [i \in 1 .. f.n |-> Byte(i)]
    BY <2>2, Zenon DEF Unmasked
  <2>14. Unmasked(d) = p
    <3> HIDE DEF Byte
    <3> QED BY <2>10, <2>12, <2>13, Zenon
  <2> QED BY <2>5, <2>14 DEF p
<1> QED BY <1>2, <1>3

-----------------------------------------------------------------------------
(* The packet.                                                             *)

\* The answer follows its header, and is what is read of the packet.
LEMMA TextFollows ==
    ASSUME NEW h \in Seq(Nat), NEW k \in Nat, Len(h) = k, NEW n \in Nat,
           NEW p, Joins(p, h, Text(n, n))
    PROVE  /\ p \in Seq(Nat) /\ Len(p) = k + n
           /\ \A i \in 1 .. k : p[i] = h[i]
           /\ SubSeq(p, 1, k + n) = p
           /\ SubSeq(p, k + 1, k + n) = Text(n, n)
<1>1. PICK t \in Seq(Nat) : t = Text(n, n) /\ Len(t) = n
    BY TextIs
<1>2. /\ p \in Seq(Nat) /\ Len(p) = Len(h) + n
      /\ \A i \in 1 .. Len(h) : p[i] = h[i]
      /\ \A i \in 1 .. n : p[Len(h) + i] = t[i]
  <2>1. PICK q \in Seq(Nat) : /\ Joins(q, h, t) /\ Len(q) = Len(h) + Len(t)
                              /\ \A i \in 1 .. Len(h) : q[i] = h[i]
                              /\ \A i \in 1 .. Len(t) : q[Len(h) + i] = t[i]
    BY Joined
  <2>2. Len(t) = n
    BY <1>1
  <2>3. p = q
    BY <1>1, <2>1, Zenon DEF Joins
  <2> QED BY <2>1, <2>2, <2>3, Zenon
<1>3. Len(h) \in Nat
    OBVIOUS
<1>4. SubSeq(p, 1, Len(h) + n) = p
    BY <1>2, SubSeqFull
<1>5. SubSeq(p, Len(h) + 1, Len(h) + n) = t
  <2> DEFINE a == Len(h) + 1
             b == Len(h) + n
             q == SubSeq(p, a, b)
  <2>1. a \in Int /\ b \in Int /\ b - a + 1 = n /\ \A i \in a .. b : i \in 1 .. Len(p)
    BY <1>2, <1>3
  <2>2. \A i \in a .. b : p[i] \in Nat
    <3>1. \A i \in 1 .. Len(p) : p[i] \in Nat
        BY <1>2
    <3> HIDE DEF a, b
    <3> QED BY <2>1, <3>1, Zenon
  <2>3. Len(q) = (IF a <= b THEN b - a + 1 ELSE 0) /\ q \in Seq(Nat) /\ \A i \in 1 .. n : q[i] = p[a + i - 1]
    <3> HIDE DEF a, b
    <3>1. /\ SubSeq(p, a, b) \in Seq(Nat) /\ Len(SubSeq(p, a, b)) = (IF a <= b THEN b - a + 1 ELSE 0)
          /\ \A i \in 1 .. b - a + 1 : SubSeq(p, a, b)[i] = p[a + i - 1]
        BY <2>1, <2>2, SubSeqProperties
    <3> QED BY <2>1, <3>1
  <2>4. \A i \in 1 .. n : a + i - 1 = Len(h) + i
    BY <1>3
  <2>5. Len(q) = n
    <3> HIDE DEF q
    <3> QED BY <1>3, <2>1, <2>3
  <2> HIDE DEF a, b, q
  <2>6. \A i \in 1 .. n : q[i] = t[i]
    BY <1>2, <2>3, <2>4
  <2>7. q = t
    BY <1>1, <2>3, <2>5, <2>6, SeqEqual
  <2> QED BY <2>7 DEF q, a, b
<1> QED BY <1>1, <1>2, <1>4, <1>5, Zenon

\* p, of length l, is what the code builds of an answer of n bytes.
IsPacket(p, l, n) ==
    \/ n < 126 /\ p = <<129, n>> \o Text(n, n) /\ l = n + 2
    \/ n >= 126 /\ p = <<129, 126, n \div 256, n % 256>> \o Text(n, n) /\ l = n + 4

LEMMA PacketIsRead ==
    ASSUME NEW n \in Nat, NEW p, NEW l, IsPacket(p, l, n)
    PROVE  p \in Seq(Nat) /\ ReadPacket(SubSeq(p, 1, l)) = Text(n, n)
<1>1. CASE n < 126 /\ p = <<129, n>> \o Text(n, n) /\ l = n + 2
  <2> DEFINE h == <<129, n>>
  <2>1. h \in Seq(Nat) /\ Len(h) = 2 /\ h[1] = 129 /\ h[2] = n
    OBVIOUS
  <2> HIDE DEF h
  <2>2. Joins(p, h, Text(n, n))
    BY <1>1, Zenon DEF h, Joins
  <2>3. /\ p \in Seq(Nat) /\ Len(p) = 2 + n /\ \A i \in 1 .. 2 : p[i] = h[i]
        /\ SubSeq(p, 1, 2 + n) = p /\ SubSeq(p, 2 + 1, 2 + n) = Text(n, n)
    <3>1. PICK k \in Nat : k = 2
        OBVIOUS
    <3>2. h \in Seq(Nat) /\ Len(h) = k
        BY <2>1, <3>1
    <3>3. /\ p \in Seq(Nat) /\ Len(p) = k + n /\ \A i \in 1 .. k : p[i] = h[i]
          /\ SubSeq(p, 1, k + n) = p /\ SubSeq(p, k + 1, k + n) = Text(n, n)
        BY <2>2, <3>2, TextFollows, SMTT(30)
    <3> QED BY <3>1, <3>3, Zenon
  <2>4. p[1] = 129 /\ p[2] = n /\ p[2] # 126 /\ ~(Len(p) < 2) /\ l = 2 + n
    BY <1>1, <2>1, <2>3
  <2>5. ReadPacket(p) = Text(n, n)
    BY <2>3, <2>4, Zenon DEF ReadPacket
  <2> QED BY <2>3, <2>4, <2>5
<1>2. CASE n >= 126 /\ p = <<129, 126, n \div 256, n % 256>> \o Text(n, n) /\ l = n + 4
  <2> DEFINE h == <<129, 126, n \div 256, n % 256>>
  <2>0. n \div 256 \in Nat /\ n % 256 \in Nat /\ 256 * (n \div 256) + (n % 256) = n
    OBVIOUS
  <2>1. /\ h \in Seq(Nat) /\ Len(h) = 4
        /\ h[1] = 129 /\ h[2] = 126 /\ h[3] = n \div 256 /\ h[4] = n % 256
    BY <2>0
  <2> HIDE DEF h
  <2>2. Joins(p, h, Text(n, n))
    BY <1>2, Zenon DEF h, Joins
  <2>3. /\ p \in Seq(Nat) /\ Len(p) = 4 + n /\ \A i \in 1 .. 4 : p[i] = h[i]
        /\ SubSeq(p, 1, 4 + n) = p /\ SubSeq(p, 4 + 1, 4 + n) = Text(n, n)
    <3>1. PICK k \in Nat : k = 4
        OBVIOUS
    <3>2. h \in Seq(Nat) /\ Len(h) = k
        BY <2>1, <3>1
    <3>3. /\ p \in Seq(Nat) /\ Len(p) = k + n /\ \A i \in 1 .. k : p[i] = h[i]
          /\ SubSeq(p, 1, k + n) = p /\ SubSeq(p, k + 1, k + n) = Text(n, n)
        BY <2>2, <3>2, TextFollows, SMTT(30)
    <3> QED BY <3>1, <3>3, Zenon
  <2>4. p[1] = 129 /\ p[2] = 126 /\ p[3] = n \div 256 /\ p[4] = n % 256
    BY <2>1, <2>3
  <2>5. 256 * p[3] + p[4] = n /\ ~(Len(p) < 2) /\ l = 4 + n
    BY <1>2, <2>0, <2>3, <2>4
  <2>6. ReadPacket(p) = Text(n, n)
    BY <2>3, <2>4, <2>5, Zenon DEF ReadPacket
  <2> QED BY <2>3, <2>5, <2>6
<1> QED BY <1>1, <1>2 DEF IsPacket

-----------------------------------------------------------------------------
(* The inductive invariant.                                                *)

Phases == {"idle", "sent", "received", "decoded", "answered"}

WsInv ==
    /\ phase \in Phases
    /\ phase \in {"sent", "received", "decoded"} => frame \in Frames
    /\ phase = "received" => Received(data, frame)
    /\ send_data \in Seq(Nat)
    /\ DecodeIsRight /\ PacketIsRight

LEMMA NextIsWellFormed == WellFormed(NextFrame)
<1>1. 3 \in 0 .. MaxLen
  <2>1. 3 <= MaxLen
    BY SMT DEF MaxLen
  <2> QED BY <2>1, LenIsNat
<1>2. NextFrame \in [fin : BOOLEAN, op : 0 .. 15, form : {0, 126, 127},
                     key : {<<>>} \cup [1 .. 4 -> 0 .. 255], n : 0 .. MaxLen]
    BY <1>1 DEF NextFrame
<1>3. NextFrame.form = 0 /\ NextFrame.n = 3
    BY DEF NextFrame
<1> QED BY <1>2, <1>3 DEF WellFormed

\* recv returns a beginning of the frame, or the frame and what follows it.
RecvMay(d, f) ==
    LET wire == Frame(f)
        most == IF Len(wire) < MAX_MSG_LEN THEN Len(wire) ELSE MAX_MSG_LEN
    IN  \/ \E cut \in Losses : cut < most /\ d = SubSeq(wire, 1, most - cut)
        \/ \E more \in Trails : /\ Len(wire) + more <= MAX_MSG_LEN
                                /\ d = wire \o SubSeq(Frame(NextFrame), 1, more)

LEMMA RecvReturns ==
    ASSUME NEW f, WellFormed(f), NEW d, RecvMay(d, f)
    PROVE  Received(d, f)
<1> DEFINE w == Frame(f)
           most == IF Len(w) < MAX_MSG_LEN THEN Len(w) ELSE MAX_MSG_LEN
<1>1. w \in Seq(Nat)
    BY FrameIs, SMT
<1> HIDE DEF w
<1>2. Len(w) \in Nat /\ MAX_MSG_LEN \in Nat /\ most \in Nat /\ most <= Len(w) /\ most <= MAX_MSG_LEN
  <2>1. Len(w) \in Nat
    BY <1>1
  <2>2. MAX_MSG_LEN \in Nat
    BY WsAssumption
  <2> QED BY <2>1, <2>2
<1> HIDE DEF most
<1>3. \A i \in 1 .. Len(w) : w[i] \in Nat
    BY <1>1
<1>4. ASSUME NEW cut \in Losses, cut < most, d = SubSeq(w, 1, most - cut) PROVE Received(d, f)
  <2>1. PICK b \in Nat : b = most - cut /\ b >= 1 /\ b <= most
    <3>1. Losses \subseteq Nat
        BY WsAssumption
    <3>2. cut \in Nat /\ cut < most
        BY <1>4, <3>1, Zenon
    <3> QED BY <1>2, <3>2
  <2>2. d = SubSeq(w, 1, b) /\ \A i \in 1 .. b : w[i] \in Nat
    BY <1>2, <1>3, <1>4, <2>1
  <2>3. d \in Seq(Nat) /\ Len(d) = b /\ \A i \in 1 .. b : d[i] = w[i]
    <3>1. /\ SubSeq(w, 1, b) \in Seq(Nat) /\ Len(SubSeq(w, 1, b)) = (IF 1 <= b THEN b - 1 + 1 ELSE 0)
          /\ \A i \in 1 .. b - 1 + 1 : SubSeq(w, 1, b)[i] = w[1 + i - 1]
        BY <2>2, SubSeqProperties
    <3>2. b - 1 + 1 = b /\ 1 <= b /\ \A i \in 1 .. b : 1 + i - 1 = i
        BY <2>1
    <3> QED BY <2>2, <3>1, <3>2, Zenon
  <2>4. Len(d) <= MAX_MSG_LEN
    BY <1>2, <2>1, <2>3
  <2> QED BY <2>3, <2>4, Zenon DEF Received, w
<1>5. ASSUME NEW more \in Trails, Len(w) + more <= MAX_MSG_LEN, d = w \o SubSeq(Frame(NextFrame), 1, more)
      PROVE  Received(d, f)
  <2> DEFINE next == Frame(NextFrame)
             t == SubSeq(next, 1, more)
  <2>1. next \in Seq(Nat)
    <3> HIDE DEF t
    <3>1. \A g : WellFormed(g) => Frame(g) \in Seq(Nat)
        BY FrameIs, SMT
    <3>2. Frame(NextFrame) \in Seq(Nat)
        BY <3>1, NextIsWellFormed, Zenon
    <3> QED BY <3>2 DEF next
  <2>2. more \in 1 .. Len(next)
    BY <1>5, TrailAssumption
  <2> HIDE DEF next
  <2>3. t \in Seq(Nat) /\ Len(t) = more
    <3>1. 1 \in Int /\ more \in Int /\ \A i \in 1 .. more : next[i] \in Nat
        BY <2>1, <2>2
    <3>2. t \in Seq(Nat) /\ Len(t) = (IF 1 <= more THEN more - 1 + 1 ELSE 0)
        BY <3>1, SubSeqProperties
    <3> HIDE DEF t
    <3> QED BY <2>1, <2>2, <3>2
  <2> HIDE DEF t
  <2>4. PICK v \in Seq(Nat) : /\ Joins(v, w, t) /\ Len(v) = Len(w) + Len(t)
                              /\ \A i \in 1 .. Len(w) : v[i] = w[i]
    BY <1>1, <2>3, Joined
  <2>5. d = v
    BY <1>5, <2>4 DEF Joins, t, next
  <2>6. Len(v) <= MAX_MSG_LEN
    BY <1>5, <2>3, <2>4
  <2>7. \A i \in 1 .. Len(v) : i <= Len(w) => v[i] = w[i]
    BY <1>2, <2>4
  <2> QED BY <2>5, <2>6, <2>7 DEF Received, w
<1> QED BY <1>4, <1>5, Zenon DEF RecvMay, w, most

\* What ws_decode_data makes of what was received.
Returns(d, t, p) ==
    /\ t = (IF Refused(d) THEN "WDT_ERR" ELSE FrameType(d))
    /\ ~Refused(d) => p = Unmasked(d)

RightFor(d, f, t, p) ==
    /\ Len(d) >= Len(Frame(f)) /\ f.fin /\ f.op \in Control =>
           t = TypeOfOp(f.op) /\ p = Payload(f)
    /\ ~(Len(d) >= Len(Frame(f))) => t = "WDT_ERR"
    /\ ~f.fin \/ f.op = 0 => t \in {"WDT_MINDATA", "WDT_ERR"}

LEMMA DecodedIsRight ==
    ASSUME NEW f, WellFormed(f), NEW d, Received(d, f), NEW t, NEW p, Returns(d, t, p)
    PROVE  RightFor(d, f, t, p)
<1>0. /\ t = (IF Refused(d) THEN "WDT_ERR" ELSE FrameType(d))
      /\ ~Refused(d) => p = Unmasked(d)
    BY Zenon DEF Returns
<1>1. Len(d) \in Nat /\ Len(Frame(f)) \in Nat /\ Len(Frame(f)) >= 2
    BY HeaderBytes
<1>2. Len(d) >= 2 => FrameType(d) = IF f.fin THEN TypeOfOp(f.op)
                                    ELSE IF f.op = 0 THEN "WDT_MINDATA" ELSE "WDT_ERR"
    BY FirstBytes, Zenon
<1>3. ASSUME Len(d) >= Len(Frame(f)), f.fin, f.op \in Control
      PROVE  t = TypeOfOp(f.op) /\ p = Payload(f)
  <2>1. FrameType(d) = TypeOfOp(f.op)
    <3>1. Len(d) >= 2
        BY <1>1, <1>3
    <3> QED BY <1>2, <1>3, <3>1, Zenon
  <2>2. TypeOfOp(f.op) # "WDT_ERR"
    BY <1>3 DEF TypeOfOp, Control
  <2>3. (Refused(d) <=> FrameType(d) = "WDT_ERR") /\ Unmasked(d) = Payload(f)
    BY <1>3, FrameIsDecoded, Zenon
  <2> QED BY <1>0, <2>1, <2>2, <2>3, Zenon
<1>4. ASSUME ~(Len(d) >= Len(Frame(f))) PROVE t = "WDT_ERR"
  <2>1. Len(d) < Len(Frame(f))
    BY <1>1, <1>4
  <2> QED BY <1>0, <2>1, FrameIsDecoded, Zenon
<1>5. ASSUME ~f.fin \/ f.op = 0 PROVE t \in {"WDT_MINDATA", "WDT_ERR"}
  <2>1. CASE Refused(d)
    BY <1>0, <2>1
  <2>2. CASE ~Refused(d)
    <3>1. Len(d) >= 2
        BY <1>1, <2>2 DEF Refused
    <3>2. TypeOfOp(0) = "WDT_ERR"
        BY DEF TypeOfOp
    <3>3. FrameType(d) \in {"WDT_MINDATA", "WDT_ERR"}
        BY <1>2, <1>5, <3>1, <3>2, Zenon
    <3> QED BY <1>0, <2>2, <3>3
  <2> QED BY <2>1, <2>2
<1> QED BY <1>3, <1>4, <1>5, Zenon DEF RightFor

LEMMA InitWs == Init => WsInv
<1> SUFFICES ASSUME Init PROVE WsInv
    OBVIOUS
<1>1. phase = "idle" /\ send_data = <<>>
    BY DEF Init
<1>2. send_data \in Seq(Nat)
    BY <1>1
<1> QED BY <1>1, <1>2 DEF WsInv, Phases, DecodeIsRight, PacketIsRight

LEMMA ClientSendKeeps ==
    ASSUME WsInv, NEW f \in Frames, ClientSend(f)
    PROVE  WsInv'
<1>1. phase' = "sent" /\ frame' = f /\ send_data' = send_data
    BY DEF ClientSend
<1> QED BY <1>1 DEF WsInv, Phases, DecodeIsRight, PacketIsRight

LEMMA RecvKeeps == WsInv /\ Recv => WsInv'
<1> SUFFICES ASSUME WsInv, Recv PROVE WsInv'
    OBVIOUS
<1>1. /\ phase = "sent" /\ phase' = "received" /\ frame' = frame /\ send_data' = send_data
      /\ RecvMay(data', frame)
    BY Zenon DEF Recv, RecvMay
<1>2. frame \in Frames /\ send_data \in Seq(Nat)
    BY <1>1 DEF WsInv
<1>3. WellFormed(frame)
    BY <1>2, FrameAssumption
<1>4. Received(data', frame')
    BY <1>1, <1>3, RecvReturns, Zenon
<1> QED BY <1>1, <1>2, <1>4 DEF WsInv, Phases, DecodeIsRight, PacketIsRight

LEMMA DecodeKeeps == WsInv /\ ws_decode_data => WsInv'
<1> SUFFICES ASSUME WsInv, ws_decode_data PROVE WsInv'
    OBVIOUS
<1>1. /\ phase = "received" /\ phase' = "decoded"
      /\ frame' = frame /\ data' = data /\ send_data' = send_data
      /\ Returns(data, type', package')
    BY Zenon DEF ws_decode_data, Returns
<1>2. frame \in Frames /\ send_data \in Seq(Nat) /\ Received(data, frame)
    BY <1>1 DEF WsInv
<1>3. WellFormed(frame)
    BY <1>2, FrameAssumption
<1>4. RightFor(data, frame, type', package')
    BY <1>1, <1>2, <1>3, DecodedIsRight, Zenon
<1>5. DecodeIsRight'
    BY <1>1, <1>4, Zenon DEF DecodeIsRight, Whole, RightFor
<1>6. PacketIsRight'
    BY <1>1 DEF PacketIsRight
<1> QED BY <1>1, <1>2, <1>5, <1>6 DEF WsInv, Phases

LEMMA ConstructKeeps ==
    ASSUME WsInv, NEW n \in AnswerLens, ws_construct_packet_data(n)
    PROVE  WsInv'
<1>1. n \in Nat /\ SEND_DATA_LEN_MAX - 4 \in Nat /\ SEND_DATA_LEN_MAX - 4 >= 126
  <2>1. AnswerLens \subseteq Nat
    BY WsAssumption
  <2>2. SEND_DATA_LEN_MAX \in Nat /\ SEND_DATA_LEN_MAX >= 130
    BY WsAssumption
  <2> QED BY <2>1, <2>2
<1>2. phase' = "answered" /\ message' = n
    BY DEF ws_construct_packet_data
<1>3. CASE n < SEND_DATA_LEN_MAX - 4
  <2>1. IsPacket(send_data', len', n)
    <3>1. CASE n < 126
      <4>1. send_data' = <<129, n>> \o Text(n, n) /\ len' = n + 2
          BY <3>1, Zenon DEF ws_construct_packet_data, Short
      <4> QED BY <3>1, <4>1, Zenon DEF IsPacket
    <3>2. CASE ~(n < 126)
      <4>1. n >= 126
          BY <1>1, <3>2
      <4>2. send_data' = <<129, 126, n \div 256, n % 256>> \o Text(n, n) /\ len' = n + 4
          BY <1>3, <3>2, Zenon DEF ws_construct_packet_data, Short, Fits
      <4> QED BY <4>1, <4>2, Zenon DEF IsPacket
    <3> QED BY <3>1, <3>2
  <2>2. send_data' \in Seq(Nat) /\ ReadPacket(SubSeq(send_data', 1, len')) = Text(n, n)
    BY <1>1, <2>1, PacketIsRead, Zenon
  <2>3. PacketIsRight'
    BY <1>2, <1>3, <2>2, Zenon DEF PacketIsRight
  <2>4. DecodeIsRight'
    BY <1>2 DEF DecodeIsRight
  <2> QED BY <1>2, <2>2, <2>3, <2>4 DEF WsInv, Phases
<1>4. CASE ~(n < SEND_DATA_LEN_MAX - 4)
  <2>1. ~(n < 126)
    BY <1>1, <1>4
  <2>2. send_data' = send_data /\ len' = 0
    BY <1>4, <2>1, Zenon DEF ws_construct_packet_data, Short, Fits
  <2>3. SubSeq(send_data', 1, len') = <<>>
    <3>1. 0 < 1 /\ 0 \in Int /\ 1 \in Int
        OBVIOUS
    <3> QED BY <2>2, <3>1, SubSeqEmpty, Zenon
  <2>4. PacketIsRight'
    BY <1>2, <1>4, <2>3, Zenon DEF PacketIsRight
  <2>5. DecodeIsRight'
    BY <1>2 DEF DecodeIsRight
  <2>6. send_data \in Seq(Nat)
    BY DEF WsInv
  <2> QED BY <1>2, <2>2, <2>4, <2>5, <2>6 DEF WsInv, Phases
<1> QED BY <1>3, <1>4

LEMMA SentKeeps == WsInv /\ Sent => WsInv'
<1> SUFFICES ASSUME WsInv, Sent PROVE WsInv'
    OBVIOUS
<1>1. phase' = "idle" /\ send_data' = send_data
    BY DEF Sent
<1> QED BY <1>1 DEF WsInv, Phases, DecodeIsRight, PacketIsRight

LEMMA WsInvHolds == Spec => []WsInv
<1>1. Init => WsInv
    BY InitWs
<1>2. ASSUME WsInv, [Next]_vars PROVE WsInv'
  <2>1. ASSUME NEW f \in Frames, ClientSend(f) PROVE WsInv'
    BY <1>2, <2>1, ClientSendKeeps
  <2>2. CASE Recv
    BY <1>2, <2>2, RecvKeeps
  <2>3. CASE ws_decode_data
    BY <1>2, <2>3, DecodeKeeps
  <2>4. ASSUME NEW n \in AnswerLens, ws_construct_packet_data(n) PROVE WsInv'
    BY <1>2, <2>4, ConstructKeeps
  <2>5. CASE Sent
    BY <1>2, <2>5, SentKeeps
  <2>6. CASE UNCHANGED vars
    BY <1>2, <2>6, Zenon DEF vars, WsInv, Received, DecodeIsRight, Whole, PacketIsRight
  <2> QED BY <1>2, <2>1, <2>2, <2>3, <2>4, <2>5, <2>6 DEF Next
<1> QED BY <1>1, <1>2, PTL DEF Spec

\* Of every frame that the protocol allows, in each form of the length, with
\* any mask key, cut anywhere or with any bytes behind it, the code finds the
\* type and the text that the app sent, or refuses it (ws.c:113-285).
THEOREM DecodingIsRight == Spec => []DecodeIsRight
<1>1. WsInv => DecodeIsRight
    BY DEF WsInv
<1> QED BY <1>1, WsInvHolds, PTL

\* Every answer that fits into the send buffer leaves as one frame that reads
\* back as the answer, and a longer one leaves nothing (ws.c:394-437).
THEOREM PacketsAreRight == Spec => []PacketIsRight
<1>1. WsInv => PacketIsRight
    BY DEF WsInv
<1> QED BY <1>1, WsInvHolds, PTL
=============================================================================
