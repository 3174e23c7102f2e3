---------------------------- MODULE TtyReadProofs ---------------------------
(***************************************************************************)
(* For buffers of every size and streams of any bytes, however they are    *)
(* cut: tputc never stores past a buffer, utf8decode never takes a byte    *)
(* that was not read, ttyread always has room for the next read, tputc is  *)
(* given the characters of the whole stream, and the control functions     *)
(* executed are the ones that were sent, with their arguments.             *)
(***************************************************************************)
EXTENDS TtyRead, WellFoundedInduction, SequenceTheorems, TLAPS

(* What tputc keeps, strengthened with the types and with the states       *)
(* term.esc can be in: a string is open only in {START, STR}.              *)
ParserInv ==
  /\ esc \in EscStates
  /\ csibuf \in Seq(Byte)
  /\ str \in [type : Byte, buf : Seq(Byte)]
  /\ SequenceRoom
  /\ esc = {"START"} => csibuf = <<>>

ReadInv ==
  /\ ParserInv
  /\ buf \in Seq(Byte) /\ Len(buf) <= BufSiz
  /\ alphabet \in Alphabets

-----------------------------------------------------------------------------
(* What the UTF-8 routines return.                                         *)

(* A lead byte announces at most three more.                               *)
LEMMA AnnouncedRange ==
  ASSUME NEW b \in Byte PROVE Announced(b) \in -1..3
  BY DEF Announced, Byte

(* No more bytes are taken than announced.                                 *)
LEMMA FollowersRange ==
  ASSUME NEW s \in Seq(Byte), s # <<>>
  PROVE  /\ Followers(s) \in 0..3
         /\ Followers(s) <= Announced(s[1]) \/ Followers(s) = 0
<1>1. s[1] \in Byte
  OBVIOUS
<1>2. Announced(s[1]) \in -1..3
  BY <1>1, AnnouncedRange
<1> QED
  BY <1>2 DEF Followers

(* isfullutf8 promises what utf8decode takes: the bytes before the first   *)
(* one that does not continue are all there.                               *)
LEMMA SizeFits ==
  ASSUME NEW s \in Seq(Byte), Len(s) >= 4 \/ isfullutf8(s)
  PROVE  utf8decode(s).size \in 1..Len(s)
<1>1. Len(s) \in Nat /\ Len(s) >= 1 /\ s # <<>>
  BY DEF isfullutf8
<1>2. s[1] \in Byte
  BY <1>1
<1>3. Announced(s[1]) \in -1..3
  BY <1>2, AnnouncedRange
<1>4. utf8decode(s).size = Followers(s) + 1
  BY DEF utf8decode
<1>5. Followers(s) \in 0..3 /\ (Followers(s) <= Announced(s[1]) \/ Followers(s) = 0)
  BY <1>1, FollowersRange
<1>6. CASE Len(s) >= 4
  BY <1>1, <1>4, <1>5, <1>6
<1>7. CASE Len(s) < 4
  <2>1. isfullutf8(s)
    BY <1>1, <1>7
  <2>2. CASE Len(s) > Announced(s[1])
    BY <1>1, <1>3, <1>4, <1>5, <2>2
  <2>3. CASE Len(s) >= 2 /\ ~Continues(s[2])
    <3>1. Followers(s) = 0
      BY <2>3 DEF Followers
    <3> QED
      BY <1>1, <1>4, <3>1
  <2>4. CASE Len(s) >= 3 /\ ~Continues(s[3])
    <3>1. Followers(s) \in 0..1
      BY <2>4, <1>3 DEF Followers
    <3> QED
      BY <1>1, <1>4, <3>1, <2>4
  <2> QED
    BY <1>1, <1>3, <2>1, <2>2, <2>3, <2>4 DEF isfullutf8
<1> QED
  BY <1>1, <1>6, <1>7

-----------------------------------------------------------------------------
(* What tputc and the log are given is what was read.                      *)

(* A number written with digits in base 64.                                *)
Number3(a, b, d) == (4096 * a) + (64 * b) + d
Number4(a, b, d, e) == (262144 * a) + (4096 * b) + (64 * d) + e

(* The bytes of U+FFFD.                                                    *)
LEMMA InvalidEncoded == utf8encode(Invalid) = <<239, 191, 189>>
<1>1. /\ 65533 \div 4096 = 15 /\ 65533 \div 64 = 1023 /\ 1023 % 64 = 63
      /\ 65533 \div 1 = 65533 /\ 65533 % 64 = 61
  OBVIOUS
<1> QED
  BY <1>1 DEF utf8encode, Invalid

(* utf8encode undoes what utf8decode collected, length by length.          *)
LEMMA Encode2 ==
  ASSUME NEW b1 \in 192..223, NEW b2 \in 128..191, NEW u,
         u = ((b1 - 192) * 64) + (b2 - 128), ~(u < 128)
  PROVE  utf8encode(u) = <<b1, b2>>
<1>1. u \in Nat /\ u < 2048
  OBVIOUS
<1>2. u \div 64 = b1 - 192 /\ u % 64 = b2 - 128 /\ u \div 1 = u
  BY <1>1
<1>3. utf8encode(u) = <<192 + (u \div 64), 128 + ((u \div 1) % 64)>>
  BY <1>1 DEF utf8encode
<1> QED
  BY <1>2, <1>3

ThreeDigits(a, b, d) ==
  /\ a \in 0..15 /\ b \in 0..63 /\ d \in 0..63
  /\ ~(Number3(a, b, d) < 2048)

Encoded3(a, b, d) == utf8encode(Number3(a, b, d)) = <<224 + a, 128 + b, 128 + d>>

(* The same for three bytes, by their digits in base 64,                   *)
LEMMA Encode3 ==
  ASSUME NEW a, NEW b, NEW d, ThreeDigits(a, b, d)
  PROVE  Encoded3(a, b, d)
<1>. a \in 0..15 /\ b \in 0..63 /\ d \in 0..63 /\ ~(Number3(a, b, d) < 2048)
  BY DEF ThreeDigits
<1> DEFINE u == Number3(a, b, d)
<1>1. u \in Nat /\ u < 65536
  BY DEF Number3
<1>2. u \div 4096 = a /\ (u \div 64) % 64 = b /\ u % 64 = d
  <2>1. u = (4096 * a) + (64 * b) + d
    BY DEF Number3
  <2> HIDE DEF u
  <2>2. u \div 4096 = a /\ u \div 64 = (64 * a) + b /\ u % 64 = d
    BY <2>1
  <2>3. ((64 * a) + b) % 64 = b
    OBVIOUS
  <2> QED
    BY <2>2, <2>3
<1>3. ~(u < 2048)
  OBVIOUS
<1> HIDE DEF u
<1>4. u \div 1 = u
  BY <1>1
<1>5. utf8encode(u) = <<224 + (u \div 4096), 128 + ((u \div 64) % 64), 128 + ((u \div 1) % 64)>>
  BY <1>1, <1>3 DEF utf8encode
<1>6. utf8encode(u) = <<224 + a, 128 + b, 128 + d>>
  BY <1>2, <1>4, <1>5
<1> QED
  BY <1>6 DEF u, Encoded3

Encoded4(a, b, d, e) ==
  utf8encode(Number4(a, b, d, e)) =
    IF Number4(a, b, d, e) <= 1114111 THEN <<240 + a, 128 + b, 128 + d, 128 + e>>
    ELSE utf8encode(Invalid)

FourDigits(a, b, d, e) ==
  /\ a \in 0..7 /\ b \in 0..63 /\ d \in 0..63 /\ e \in 0..63
  /\ ~(Number4(a, b, d, e) < 65536)

(* and for four, unless the value is above U+10FFFF.                       *)
LEMMA Encode4 ==
  ASSUME NEW a, NEW b, NEW d, NEW e, FourDigits(a, b, d, e)
  PROVE  Encoded4(a, b, d, e)
<1>. /\ a \in 0..7 /\ b \in 0..63 /\ d \in 0..63 /\ e \in 0..63
     /\ ~(Number4(a, b, d, e) < 65536)
  BY DEF FourDigits
<1> DEFINE u == Number4(a, b, d, e)
<1>1. u \in Nat
  BY DEF Number4
<1>2. /\ u \div 262144 = a /\ (u \div 4096) % 64 = b
      /\ (u \div 64) % 64 = d /\ u % 64 = e
  <2>1. u = (262144 * a) + (4096 * b) + (64 * d) + e
    BY DEF Number4
  <2> HIDE DEF u
  <2>2. u \div 262144 = a /\ u \div 4096 = (64 * a) + b
    BY <2>1
  <2>3. u \div 64 = (4096 * a) + (64 * b) + d /\ u % 64 = e
    BY <2>1
  <2>4. ((64 * a) + b) % 64 = b
    OBVIOUS
  <2>5. ((4096 * a) + (64 * b) + d) % 64 = d
    OBVIOUS
  <2> QED
    BY <2>2, <2>3, <2>4, <2>5
<1>3. ~(u < 65536)
  OBVIOUS
<1> HIDE DEF u
<1>4. u \div 1 = u
  BY <1>1
<1>5. utf8encode(u) =
        IF u <= 1114111
        THEN <<240 + (u \div 262144), 128 + ((u \div 4096) % 64),
               128 + ((u \div 64) % 64), 128 + ((u \div 1) % 64)>>
        ELSE <<239, 191, 189>>
  BY <1>1, <1>3 DEF utf8encode
<1>6. utf8encode(u) = IF u <= 1114111 THEN <<240 + a, 128 + b, 128 + d, 128 + e>>
                      ELSE utf8encode(Invalid)
  BY <1>2, <1>4, <1>5, InvalidEncoded
<1> QED
  BY <1>6 DEF u, Encoded4

(* The bits a continuation byte and a lead byte carry.                     *)
LEMMA CarriedBits ==
  /\ \A x \in 128..191 : x % 64 \in 0..63 /\ x = 128 + (x % 64)
  /\ \A x \in 224..239 : x % 16 \in 0..15 /\ x = 224 + (x % 16)
  /\ \A x \in 240..247 : x % 8 \in 0..7 /\ x = 240 + (x % 8)
  OBVIOUS

(* Those of a lead byte that announces one more.                           *)
LEMMA LeadBitsOfTwo == \A x \in 192..223 : x % 32 \in 0..31 /\ x = 192 + (x % 32)
  OBVIOUS

(* A byte that announces nothing is ASCII.                                 *)
LEMMA AnnouncedZero ==
  ASSUME NEW b \in Byte, Announced(b) = 0 PROVE b \in 0..127
  BY DEF Announced, Byte

(* The first bytes of a sequence, spelt out.                               *)
LEMMA FirstBytes ==
  ASSUME NEW s \in Seq(Byte)
  PROVE  /\ Len(s) >= 1 => SubSeq(s, 1, 1) = <<s[1]>>
         /\ Len(s) >= 2 => SubSeq(s, 1, 2) = <<s[1], s[2]>>
         /\ Len(s) >= 3 => SubSeq(s, 1, 3) = <<s[1], s[2], s[3]>>
         /\ Len(s) >= 4 => SubSeq(s, 1, 4) = <<s[1], s[2], s[3], s[4]>>
<1>1. \A n \in 1..4 : Len(s) >= n => SubSeq(s, 1, n) = [i \in 1..n |-> s[i]]
  OBVIOUS
<1>2. <<s[1]>> = [i \in 1..1 |-> s[i]] /\ <<s[1], s[2]>> = [i \in 1..2 |-> s[i]]
  OBVIOUS
<1>3. <<s[1], s[2], s[3]>> = [i \in 1..3 |-> s[i]]
  OBVIOUS
<1>4. <<s[1], s[2], s[3], s[4]>> = [i \in 1..4 |-> s[i]]
  OBVIOUS
<1>5. 1 \in 1..4 /\ 2 \in 1..4 /\ 3 \in 1..4 /\ 4 \in 1..4
  OBVIOUS
<1> QED
  BY <1>1, <1>2, <1>3, <1>4, <1>5

(* What is a character, by the digits of its bytes.                         *)
LEMMA WellFormed1 == \A a \in 0..127 : WellFormed(<<a>>)
  BY DEF WellFormed

LEMMA WellFormed2 ==
  ASSUME NEW a \in 192..223, NEW b \in 128..191
  PROVE  WellFormed(<<a, b>>) <=> a >= 194
  BY DEF WellFormed

(* A character c whose bytes carry the value u: it is well formed unless   *)
(* the value is refused, and then it is encoded as it was.                 *)
Kept(c, n, u) ==
  /\ WellFormed(c) <=> ~Overlong(n, u) /\ u <= 1114111
  /\ ~Overlong(n, u) => utf8encode(u) = IF u <= 1114111 THEN c ELSE utf8encode(Invalid)

LEMMA Kept1 ==
  ASSUME NEW a \in 0..127
  PROVE  Kept(<<a>>, 0, a)
<1>1. ~Overlong(0, a) /\ a <= 1114111
  BY SMT DEF Overlong
<1>2. utf8encode(a) = <<a>>
  BY DEF utf8encode
<1> QED
  <2> DEFINE c == <<a>>
  <2>1. WellFormed(c) /\ utf8encode(a) = c
    BY <1>2, WellFormed1
  <2> HIDE DEF c
  <2>2. Kept(c, 0, a)
    BY <1>1, <2>1, SMT DEF Kept
  <2> QED
    BY <2>2 DEF c

LEMMA Kept2 ==
  ASSUME NEW a \in 192..223, NEW b \in 128..191, NEW u,
         u = ((a - 192) * 64) + (b - 128)
  PROVE  Kept(<<a, b>>, 1, u)
<1>1. u \in 0..2047 /\ (u < 128 <=> a < 194)
  OBVIOUS
<1>2. ~(u < 128) => utf8encode(u) = <<a, b>>
  BY Encode2
<1>3. WellFormed(<<a, b>>) <=> a >= 194
  BY WellFormed2
<1> DEFINE c == <<a, b>>
<1>4. (WellFormed(c) <=> a >= 194) /\ (~(u < 128) => utf8encode(u) = c)
  BY <1>2, <1>3
<1> HIDE DEF c
<1>5. Overlong(1, u) <=> u < 128
  BY <1>1, SMT DEF Overlong
<1> QED
  BY <1>1, <1>4, <1>5, SMT DEF Kept, c

LEMMA Kept3 ==
  ASSUME NEW a \in 0..15, NEW b \in 0..63, NEW d \in 0..63
  PROVE  Kept(<<224 + a, 128 + b, 128 + d>>, 2, Number3(a, b, d))
<1> DEFINE u == Number3(a, b, d)
           c == <<224 + a, 128 + b, 128 + d>>
<1>1. Len(c) = 3 /\ c[1] = 224 + a /\ c[2] = 128 + b /\ c[3] = 128 + d
  OBVIOUS
<1>2. u = (4096 * a) + (64 * b) + d
  BY DEF Number3
<1>3. u >= 2048 => utf8encode(u) = c
  <2>1. ASSUME ThreeDigits(a, b, d) PROVE utf8encode(u) = c
    BY <2>1, Encode3 DEF Encoded3
  <2>2. u >= 2048 => ThreeDigits(a, b, d)
    BY <1>2 DEF ThreeDigits
  <2> QED
    BY <2>1, <2>2
<1> HIDE DEF c, u
<1>4. u \in Nat /\ u < 65536
  BY <1>2
<1>5. WellFormed(c) <=> (a = 0 => b >= 32) /\ (a = 13 => b < 32)
  BY <1>1 DEF WellFormed
<1>6. u >= 2048 <=> (a = 0 => b >= 32)
  BY <1>2
<1>7. u \in 55296..57343 <=> ~(a = 13 => b < 32)
  BY <1>2
<1>8. Overlong(2, u) <=> ~(u >= 2048) \/ u \in 55296..57343
  BY <1>4, SMT DEF Overlong
<1>9. u <= 1114111
  BY <1>4, SMT
<1>10. Kept(c, 2, u)
  BY <1>3, <1>5, <1>6, <1>7, <1>8, <1>9, SMT DEF Kept
<1> QED
  BY <1>10 DEF u, c

LEMMA Kept4 ==
  ASSUME NEW a \in 0..7, NEW b \in 0..63, NEW d \in 0..63, NEW e \in 0..63
  PROVE  Kept(<<240 + a, 128 + b, 128 + d, 128 + e>>, 3, Number4(a, b, d, e))
<1> DEFINE u == Number4(a, b, d, e)
           c == <<240 + a, 128 + b, 128 + d, 128 + e>>
<1>1. /\ Len(c) = 4 /\ c[1] = 240 + a /\ c[2] = 128 + b
      /\ c[3] = 128 + d /\ c[4] = 128 + e
  OBVIOUS
<1>2. u = (262144 * a) + (4096 * b) + (64 * d) + e
  BY DEF Number4
<1>3. u >= 65536 => utf8encode(u) = IF u <= 1114111 THEN c ELSE utf8encode(Invalid)
  <2>1. ASSUME FourDigits(a, b, d, e)
        PROVE  utf8encode(u) = IF u <= 1114111 THEN c ELSE utf8encode(Invalid)
    BY <2>1, Encode4, SMT DEF Encoded4
  <2>2. u >= 65536 => FourDigits(a, b, d, e)
    BY <1>2, SMT DEF FourDigits
  <2> QED
    BY <2>1, <2>2, SMT
<1> HIDE DEF c, u
<1>4. u \in Nat
  BY <1>2
<1>5. WellFormed(c) <=> (a = 0 => b >= 16) /\ (a = 4 => b < 16) /\ a <= 4
  BY <1>1 DEF WellFormed
<1>6. u >= 65536 <=> (a = 0 => b >= 16)
  BY <1>2, SMT
<1>7. u <= 1114111 <=> (a = 4 => b < 16) /\ a <= 4
  BY <1>2, SMT
<1>8. Overlong(3, u) <=> ~(u >= 65536)
  BY <1>4, SMT DEF Overlong
<1>9. Kept(c, 3, u)
  BY <1>3, <1>5, <1>6, <1>7, <1>8, SMT DEF Kept
<1> QED
  BY <1>9 DEF u, c

(* The bytes of a character that are all there.                            *)
Complete(s, n) ==
  /\ n = Announced(s[1]) /\ n + 1 <= Len(s)
  /\ \A i \in 2..(n + 1) : Continues(s[i])

LEMMA CompleteKept ==
  ASSUME NEW s \in Seq(Byte), NEW n \in 0..3, Complete(s, n)
  PROVE  Kept(SubSeq(s, 1, n + 1), n, Collected(s, n))
<1> DEFINE c == SubSeq(s, 1, n + 1)
           u == Collected(s, n)
<1>1. Len(s) \in Nat /\ n + 1 <= Len(s) /\ s[1] \in Byte /\ n = Announced(s[1])
  BY DEF Complete
<1>2. /\ n >= 1 => Continues(s[2])
      /\ n >= 2 => Continues(s[3])
      /\ n >= 3 => Continues(s[4])
  BY DEF Complete
<1>3. SUFFICES Kept(c, n, u)
  OBVIOUS
<1>4. CASE n = 0
  <2>1. s[1] \in 0..127
    <3>1. Announced(s[1]) = 0
      BY <1>1, <1>4
    <3> QED
      BY <1>1, <3>1, AnnouncedZero
  <2>2. u = s[1]
    BY <1>1, <1>4 DEF Collected, LeadBits
  <2>3. c = <<s[1]>>
    BY <1>1, <1>4, FirstBytes
  <2> QED
    BY <1>4, <2>1, <2>2, <2>3, Kept1
<1>5. CASE n = 1
  <2>1. s[1] \in 192..223 /\ s[2] \in 128..191
    BY <1>1, <1>2, <1>5 DEF Announced, Byte, Continues
  <2>2. u = ((s[1] % 32) * 64) + (s[2] % 64)
    BY <1>1, <1>5 DEF Collected, LeadBits
  <2>3. c = <<s[1], s[2]>>
    BY <1>1, <1>5, FirstBytes
  <2> DEFINE x == s[1]
             y == s[2]
  <2>4. x \in 192..223 /\ x = 192 + (x % 32) /\ y \in 128..191 /\ y = 128 + (y % 64)
    BY <2>1, CarriedBits, LeadBitsOfTwo
  <2>5. u = ((x % 32) * 64) + (y % 64) /\ c = <<x, y>>
    BY <2>2, <2>3
  <2> HIDE DEF c, u, x, y
  <2>6. x % 32 = x - 192 /\ y % 64 = y - 128
    BY <2>4
  <2>7. u = ((x - 192) * 64) + (y - 128)
    BY <2>5, <2>6
  <2> QED
    BY <1>5, <2>4, <2>5, <2>7, Kept2
<1>6. CASE n = 2
  <2>1. s[1] \in 224..239 /\ s[2] \in 128..191 /\ s[3] \in 128..191
    BY <1>1, <1>2, <1>6 DEF Announced, Byte, Continues
  <2>2. u = ((((s[1] % 16) * 64) + (s[2] % 64)) * 64) + (s[3] % 64)
    BY <1>1, <1>6 DEF Collected, LeadBits
  <2> DEFINE x == s[1] % 16
             y == s[2] % 64
             z == s[3] % 64
  <2>3. x \in 0..15 /\ y \in 0..63 /\ z \in 0..63
    BY <2>1, CarriedBits
  <2>4. s[1] = 224 + x /\ s[2] = 128 + y /\ s[3] = 128 + z
    BY <2>1, CarriedBits
  <2>5. u = (((x * 64) + y) * 64) + z
    BY <2>2
  <2>6. c = <<s[1], s[2], s[3]>>
    BY <1>1, <1>6, FirstBytes
  <2> HIDE DEF c, u, x, y, z
  <2>7. c = <<224 + x, 128 + y, 128 + z>>
    BY <2>4, <2>6
  <2>8. u = Number3(x, y, z)
    BY <2>3, <2>5 DEF Number3
  <2> QED
    BY <1>6, <2>3, <2>7, <2>8, Kept3
<1>7. CASE n = 3
  <2>1. s[1] \in 240..247 /\ s[2] \in 128..191 /\ s[3] \in 128..191 /\ s[4] \in 128..191
    BY <1>1, <1>2, <1>7 DEF Announced, Byte, Continues
  <2>2. u = ((((((s[1] % 8) * 64) + (s[2] % 64)) * 64) + (s[3] % 64)) * 64) + (s[4] % 64)
    BY <1>1, <1>7 DEF Collected, LeadBits
  <2> DEFINE w == s[1] % 8
             x == s[2] % 64
             y == s[3] % 64
             z == s[4] % 64
  <2>3. w \in 0..7 /\ s[1] = 240 + w
    BY <2>1, CarriedBits
  <2>4. x \in 0..63 /\ s[2] = 128 + x
    BY <2>1, CarriedBits
  <2>5. y \in 0..63 /\ s[3] = 128 + y
    BY <2>1, CarriedBits
  <2>6. z \in 0..63 /\ s[4] = 128 + z
    BY <2>1, CarriedBits
  <2>7. u = (((((w * 64) + x) * 64) + y) * 64) + z
    BY <2>2
  <2>8. c = <<s[1], s[2], s[3], s[4]>>
    BY <1>1, <1>7, FirstBytes
  <2> HIDE DEF c, u, w, x, y, z
  <2>9. c = <<240 + w, 128 + x, 128 + y, 128 + z>>
    BY <2>3, <2>4, <2>5, <2>6, <2>8
  <2>10. u = Number4(w, x, y, z)
    BY <2>3, <2>4, <2>5, <2>6, <2>7 DEF Number4
  <2> QED
    BY <1>7, <2>3, <2>4, <2>5, <2>6, <2>9, <2>10, Kept4
<1> QED
  BY <1>4, <1>5, <1>6, <1>7

(* A lead byte is followed by the continuation bytes counted, and by none  *)
(* more of those announced.                                                *)
LEMMA FollowersContinue ==
  ASSUME NEW s \in Seq(Byte), s # <<>>
  PROVE  /\ \A i \in 2..(Followers(s) + 1) : Continues(s[i])
         /\ Followers(s) < Announced(s[1]) => ~Continues(s[Followers(s) + 2])
<1> DEFINE n == Announced(s[1])
<1>1. n \in -1..3
  BY AnnouncedRange
<1>2. Followers(s) = IF n < 1 \/ ~Continues(s[2]) THEN 0
                     ELSE IF n = 1 \/ ~Continues(s[3]) THEN 1
                     ELSE IF n = 2 \/ ~Continues(s[4]) THEN 2 ELSE 3
  BY DEF Followers
<1> HIDE DEF n
<1>3. /\ Followers(s) >= 1 => Continues(s[2])
      /\ Followers(s) >= 2 => Continues(s[3])
      /\ Followers(s) >= 3 => Continues(s[4])
  BY <1>2
<1>4. Followers(s) \in 0..3
  BY <1>2
<1>5. \A i \in 2..(Followers(s) + 1) : Continues(s[i])
  BY <1>3, <1>4
<1>6. Followers(s) < n => ~Continues(s[Followers(s) + 2])
  BY <1>1, <1>2
<1> QED
  BY <1>5, <1>6 DEF n

(* A well-formed character is as long as its first byte announces.          *)
LEMMA WellFormedShape ==
  ASSUME NEW c \in Seq(Byte), WellFormed(c)
  PROVE  Len(c) = Announced(c[1]) + 1 /\ \A i \in 2..Len(c) : Continues(c[i])
<1> DEFINE n == Len(c)
           a == c[1]
           b == c[2]
<1>1. /\ n \in 1..4
      /\ n = 1 => a \in 0..127
      /\ n = 2 => a \in 194..223 /\ b \in 128..191
      /\ n = 3 => a \in 224..239 /\ b \in 128..191
      /\ n = 4 => a \in 240..244 /\ b \in 128..191
      /\ \A i \in 3..n : Continues(c[i])
  <2>1. n \in 1..4 /\ \A i \in 3..n : Continues(c[i])
    BY DEF WellFormed, Continues
  <2>2. CASE n = 1
    BY <2>1, <2>2 DEF WellFormed
  <2>3. CASE n = 2
    BY <2>1, <2>3 DEF WellFormed
  <2>4. CASE n = 3
    BY <2>1, <2>4 DEF WellFormed
  <2>5. CASE n = 4
    BY <2>1, <2>5 DEF WellFormed
  <2> QED
    BY <2>1, <2>2, <2>3, <2>4, <2>5
<1> HIDE DEF n, a, b
<1>2. n = Announced(a) + 1
  <2>1. CASE n = 1
    <3>1. a \in 0..127
      BY <1>1, <2>1
    <3>2. Announced(a) = 0
      BY <3>1 DEF Announced
    <3> QED
      BY <2>1, <3>2
  <2>2. CASE n = 2
    <3>1. a \in 194..223
      BY <1>1, <2>2
    <3>2. Announced(a) = 1
      BY <3>1 DEF Announced
    <3> QED
      BY <2>2, <3>2
  <2>3. CASE n = 3
    <3>1. a \in 224..239
      BY <1>1, <2>3
    <3>2. Announced(a) = 2
      BY <3>1 DEF Announced
    <3> QED
      BY <2>3, <3>2
  <2>4. CASE n = 4
    <3>1. a \in 240..244
      BY <1>1, <2>4
    <3>2. Announced(a) = 3
      BY <3>1 DEF Announced
    <3> QED
      BY <2>4, <3>2
  <2> QED
    BY <1>1, <2>1, <2>2, <2>3, <2>4
<1>3. n >= 2 => Continues(b)
  BY <1>1 DEF Continues
<1>4. \A i \in 2..n : Continues(c[i])
  BY <1>1, <1>3 DEF b
<1> QED
  BY <1>2, <1>4 DEF n, a

(* What tputc is given for the first character of s, once it can be        *)
(* decoded: the bytes themselves when they are a character, else U+FFFD.   *)
LEMMA DecodedAsGiven ==
  ASSUME NEW s \in Seq(Byte), Len(s) >= 4 \/ isfullutf8(s)
  PROVE  LET d == utf8decode(s)
             c == SubSeq(s, 1, d.size)
         IN  utf8encode(d.u) = IF WellFormed(c) THEN c ELSE Replacement
<1> DEFINE n == Announced(s[1])
           f == Followers(s)
           d == utf8decode(s)
           u == Collected(s, n)
           c == SubSeq(s, 1, f + 1)
<1>1. Len(s) \in Nat /\ Len(s) >= 1 /\ s # <<>> /\ s[1] \in Byte
  BY DEF isfullutf8
<1>2. n \in -1..3 /\ f \in 0..3 /\ (f <= n \/ f = 0)
  BY <1>1, AnnouncedRange, FollowersRange
<1>3. d.size = f + 1 /\ d.size \in 1..Len(s)
  BY SizeFits DEF utf8decode
<1>4. d.u = IF n = -1 \/ f < n \/ Overlong(n, u) THEN Invalid ELSE u
  BY DEF utf8decode
<1>5. Replacement = utf8encode(Invalid)
  BY InvalidEncoded DEF Replacement
<1>6. Len(c) = f + 1 /\ c[1] = s[1]
  BY <1>1, <1>2, <1>3
<1>7. n = f => Kept(c, n, u)
  <2>1. n = f => Complete(s, n)
    BY <1>1, <1>2, <1>3, FollowersContinue DEF Complete
  <2> QED
    BY <1>2, <2>1, CompleteKept
<1>8. WellFormed(c) => n = f
  <2>1. c \in Seq(Byte)
    BY <1>1, <1>2, <1>3
  <2>2. WellFormed(c) => Len(c) = Announced(c[1]) + 1
    <3> HIDE DEF c
    <3> QED
      BY <2>1, WellFormedShape
  <2>3. WellFormed(c) => f + 1 = n + 1
    BY <1>6, <2>2
  <2> HIDE DEF c, f, n
  <2> QED
    BY <1>2, <2>3
<1>9. SUFFICES utf8encode(d.u) = IF WellFormed(c) THEN c ELSE Replacement
  BY <1>3
<1> HIDE DEF n, f, d, u, c
<1>10. CASE n = f
  BY <1>2, <1>4, <1>5, <1>7, <1>10, SMT DEF Kept
<1>11. CASE n # f
  BY <1>2, <1>4, <1>5, <1>8, <1>11
<1> QED
  BY <1>10, <1>11

(* A character that is not replaced reaches tputc byte for byte as it was  *)
(* read: the ranges of utf8decode and utf8encode fit together.             *)
THEOREM CharactersUnchanged ==
  ASSUME NEW s \in Seq(Byte), Len(s) >= 4 \/ isfullutf8(s)
  PROVE  LET d == utf8decode(s)
         IN  utf8encode(d.u) \in {SubSeq(s, 1, d.size), utf8encode(Invalid)}
<1>1. Replacement = utf8encode(Invalid)
  BY InvalidEncoded DEF Replacement
<1> QED
  BY <1>1, DecodedAsGiven

-----------------------------------------------------------------------------
(* tputc keeps the invariant, state by state of the parser.                *)

(* A character of a string.                                                *)
LEMMA StrCharKeeps ==
  ASSUME ParserInv, "STR" \in esc, NEW ch \in Byte, StrChar(ch)
  PROVE  ParserInv'
<1>1. esc = {"START", "STR"}
  BY DEF ParserInv, EscStates
<1>2. csibuf' = csibuf /\ csibuf \in Seq(Byte) /\ Len(csibuf) <= EscBufSiz
  BY DEF ParserInv, StrChar, SequenceRoom
<1>3. Len(str.buf) < StrBufSiz - 1 /\ str.buf \in Seq(Byte) /\ Len(str.buf) \in Nat
  BY DEF ParserInv, SequenceRoom
<1>4. CASE ch = ESC
  BY <1>2, <1>3, <1>4 DEF StrChar, ParserInv, SequenceRoom, EscStates, ESC, BEL
<1>5. CASE ch = BEL
  BY <1>2, <1>3, <1>5 DEF StrChar, ParserInv, SequenceRoom, EscStates, ESC, BEL
<1>6. CASE ch # ESC /\ ch # BEL
  <2>1. str' = [str EXCEPT !.buf = Append(str.buf, ch)]
    BY <1>6 DEF StrChar
  <2>2. /\ str' \in [type : Byte, buf : Seq(Byte)]
        /\ Len(str'.buf) = Len(str.buf) + 1
    <3>1. Append(str.buf, ch) \in Seq(Byte) /\ Len(Append(str.buf, ch)) = Len(str.buf) + 1
      BY <1>3
    <3> QED
      BY <2>1, <3>1 DEF ParserInv
  <2>3. CASE StringFull(Append(str.buf, ch))
    <3>1. esc' = {}
      BY <2>3, <1>6 DEF StrChar
    <3> QED
      BY <3>1, <1>2, <1>3, <2>2, ParserAssumption DEF ParserInv, SequenceRoom, EscStates
  <2>4. CASE ~StringFull(Append(str.buf, ch))
    <3>1. esc' = esc
      BY <2>4, <1>6 DEF StrChar
    <3>2. Len(str'.buf) + 1 < StrBufSiz
      BY <2>1, <2>2, <2>4, <1>3, ParserAssumption DEF StringFull, ParserInv
    <3>3. "CSI" \notin esc' /\ esc' # {"START"} /\ esc' \in EscStates
      BY <3>1, <1>1 DEF EscStates
    <3>4. SequenceRoom'
      BY <3>2, <3>3, <1>2, <2>2, <1>3, ParserAssumption DEF SequenceRoom
    <3> QED
      BY <3>3, <3>4, <1>2, <2>2 DEF ParserInv
  <2> QED
    BY <2>3, <2>4
<1> QED
  BY <1>4, <1>5, <1>6

(* A character of a control sequence.                                      *)
LEMMA CsiCharKeeps ==
  ASSUME ParserInv, "CSI" \in esc, NEW ch \in Byte, CsiChar(ch)
  PROVE  ParserInv'
<1>1. esc = {"START", "CSI"}
  BY DEF ParserInv, EscStates
<1>2. str' = str /\ str \in [type : Byte, buf : Seq(Byte)] /\ Len(str.buf) < StrBufSiz
  BY DEF ParserInv, CsiChar, SequenceRoom
<1>3. /\ csibuf' = Append(csibuf, ch) /\ csibuf' \in Seq(Byte)
      /\ Len(csibuf') = Len(csibuf) + 1 /\ Len(csibuf) \in Nat /\ Len(csibuf) < EscBufSiz
  BY DEF CsiChar, ParserInv, SequenceRoom
<1>4. CASE EndsAt(ch, Append(csibuf, ch))
  <2>1. esc' = {}
    BY <1>4 DEF CsiChar
  <2> QED
    BY <2>1, <1>2, <1>3, ParserAssumption DEF ParserInv, SequenceRoom, EscStates
<1>5. CASE ~EndsAt(ch, Append(csibuf, ch))
  <2>1. esc' = esc
    BY <1>5 DEF CsiChar
  <2>2. Len(csibuf') < EscBufSiz
    BY <1>5, <1>3, ParserAssumption DEF EndsAt
  <2> QED
    <3>1. "STR" \notin esc' /\ esc' # {"START"} /\ esc' \in EscStates
      BY <2>1, <1>1 DEF EscStates
    <3>2. SequenceRoom'
      BY <3>1, <2>2, <1>2, <1>3, ParserAssumption DEF SequenceRoom
    <3> QED
      BY <3>1, <3>2, <1>2, <1>3 DEF ParserInv
<1> QED
  BY <1>4, <1>5

(* A control character, in the middle of a sequence or not.                *)
LEMMA ControlCharKeeps ==
  ASSUME ParserInv, "STR" \notin esc, NEW ch \in Byte, ControlChar(ch)
  PROVE  ParserInv'
<1>1. str' = str
  BY DEF ControlChar, Show, csireset, StartFresh, ESC, CAN, SUB, SO, SI, Executed, Ignored
<1>2. \/ UNCHANGED <<esc, csibuf>>
      \/ csibuf' = <<>> /\ esc' \in {esc, {"START"}}
  BY DEF ControlChar, Show, csireset, StartFresh, ESC, CAN, SUB, SO, SI, Executed, Ignored
<1>3. CASE UNCHANGED <<esc, csibuf>>
  BY <1>1, <1>3 DEF ParserInv, SequenceRoom
<1>4. CASE csibuf' = <<>> /\ esc' \in {esc, {"START"}}
  <2>1. esc' \in EscStates /\ "STR" \notin esc'
    BY <1>4 DEF ParserInv, EscStates
  <2>2. SequenceRoom'
    BY <2>1, <1>1, <1>4, ParserAssumption DEF ParserInv, SequenceRoom
  <2> QED
    BY <2>1, <2>2, <1>1, <1>4 DEF ParserInv
<1> QED
  BY <1>2, <1>3, <1>4

(* ESC empties the buffer, so that a sequence starts with all of it.       *)
LEMMA StartCharKeeps ==
  ASSUME ParserInv, esc = {"START"}, NEW ch \in Byte, StartChar(ch)
  PROVE  ParserInv'
<1>1. csibuf' = csibuf /\ csibuf = <<>>
  BY DEF StartChar, ParserInv
<1>2. DOMAIN Opens = {LBracket, 35, LParen}
  BY DEF Opens
<1>3. CASE ch \in StringTypes
  <2>1. ch \notin DOMAIN Opens
    BY <1>2, <1>3 DEF StringTypes, LBracket, LParen
  <2>2. esc' = {"START", "STR"} /\ str' = [type |-> ch, buf |-> <<>>]
    BY <1>3, <2>1 DEF StartChar
  <2>3. esc' \in EscStates /\ "CSI" \notin esc' /\ esc' # {"START"}
    BY <2>2 DEF EscStates
  <2>4. SequenceRoom'
    BY <2>2, <2>3, <1>1, ParserAssumption DEF SequenceRoom
  <2> QED
    BY <2>2, <2>3, <2>4, <1>1 DEF ParserInv
<1>4. CASE ch \notin StringTypes
  <2>1. str' = str /\ (esc' = {} \/ (ch \in DOMAIN Opens /\ esc' = {"START", Opens[ch]}))
    BY <1>4 DEF StartChar
  <2>2. ch \in DOMAIN Opens => Opens[ch] \in {"CSI", "TEST", "ALTCHARSET"}
    BY DEF Opens
  <2>3. esc' \in EscStates /\ "STR" \notin esc'
    BY <2>1, <2>2 DEF EscStates
  <2>4. SequenceRoom'
    BY <2>1, <2>3, <1>1, ParserAssumption DEF ParserInv, SequenceRoom
  <2> QED
    BY <2>1, <2>3, <2>4, <1>1 DEF ParserInv
<1> QED
  BY <1>3, <1>4

(* A character that ends a sequence.                                       *)
LEMMA ClosingKeeps ==
  ASSUME ParserInv, esc' = {}, csibuf' = csibuf, str' = str
  PROVE  ParserInv'
  BY DEF ParserInv, SequenceRoom, EscStates

(* Whatever the character, tputc keeps the invariant.                      *)
LEMMA TputcKeeps ==
  ASSUME ParserInv, NEW ch \in Byte, tputc(ch)
  PROVE  ParserInv'
<1>1. CASE "STR" \in esc
  BY <1>1, StrCharKeeps DEF tputc
<1>2. CASE "STR" \notin esc /\ Control(ch)
  BY <1>2, ControlCharKeeps DEF tputc
<1>3. CASE "STR" \notin esc /\ ~Control(ch)
  <2>1. CASE "START" \notin esc /\ Show(ch)
    BY <2>1 DEF Show, ParserInv, SequenceRoom
  <2>2. CASE "CSI" \in esc /\ CsiChar(ch)
    BY <2>2, CsiCharKeeps
  <2>3. CASE "STR_END" \in esc /\ StrEnd(ch)
    BY <2>3, ClosingKeeps DEF StrEnd
  <2>4. CASE "ALTCHARSET" \in esc /\ CharsetChar(ch)
    BY <2>4, ClosingKeeps DEF CharsetChar
  <2>5. CASE "TEST" \in esc /\ TestChar(ch)
    BY <2>5, ClosingKeeps DEF TestChar
  <2>6. CASE esc = {"START"} /\ StartChar(ch)
    BY <2>6, StartCharKeeps
  <2> QED
    BY <1>3, <2>1, <2>2, <2>3, <2>4, <2>5, <2>6 DEF tputc
<1> QED
  BY <1>1, <1>2, <1>3

-----------------------------------------------------------------------------
(* read() fills the buffer at most.                                        *)
LEMMA ReadKeeps ==
  ASSUME ReadInv, Read PROVE ReadInv'
<1>1. PICK n \in 1..(BufSiz - Len(buf)) : \E new \in [1..n -> alphabet] : buf' = buf \o new
  BY DEF Read
<1>2. PICK new \in [1..n -> alphabet] : buf' = buf \o new
  BY <1>1
<1>3. BufSiz \in Nat /\ Len(buf) \in Nat /\ n \in Nat
  BY <1>1, ReadAssumption DEF ReadInv, UtfSiz
<1>4. new \in Seq(Byte) /\ Len(new) = n
  <2>1. alphabet \subseteq Byte
    BY ReadAssumption DEF ReadInv, Byte
  <2>2. new \in [1..n -> Byte]
    BY <2>1, <1>2
  <2> QED
    BY <2>2, <1>3
<1>5. buf' \in Seq(Byte) /\ Len(buf') = Len(buf) + n
  <2>1. buf \in Seq(Byte)
    BY DEF ReadInv
  <2>2. buf \o new \in Seq(Byte) /\ Len(buf \o new) = Len(buf) + Len(new)
    BY <2>1, <1>4
  <2> QED
    BY <2>2, <1>2, <1>4
<1>6. Len(buf') <= BufSiz
  BY <1>1, <1>3, <1>5
<1>7. ParserInv'
  BY DEF Read, pvars, ReadInv, ParserInv, SequenceRoom
<1>8. alphabet' \in Alphabets
  BY DEF Read, ReadInv
<1> QED
  BY <1>5, <1>6, <1>7, <1>8 DEF ReadInv

(* What is decoded is given to tputc as bytes.                             *)
LEMMA GivenAByte ==
  ASSUME ReadInv, Decode PROVE \E ch \in Byte : tputc(ch)
<1> DEFINE d == utf8decode(buf)
           s == utf8encode(d.u)
<1>1. buf \in Seq(Byte) /\ (Len(buf) >= 4 \/ isfullutf8(buf)) /\ Len(buf) \in Nat
  BY DEF Decode, Ready, ReadInv, UtfSiz
<1>2. d.size \in 1..Len(buf)
  BY <1>1, SizeFits
<1>3. s[1] \in Byte
  <2>1. s = SubSeq(buf, 1, d.size) \/ s = utf8encode(Invalid)
    BY <1>1, CharactersUnchanged
  <2>2. utf8encode(Invalid)[1] \in Byte
    BY InvalidEncoded DEF Byte
  <2>3. SubSeq(buf, 1, d.size)[1] \in Byte
    BY <1>1, <1>2
  <2> HIDE DEF d, s
  <2> QED
    BY <2>1, <2>2, <2>3
<1>4. tputc(s[1])
  BY DEF Decode
<1> QED
  BY <1>3, <1>4

(* The loop of ttyread takes a character off the buffer.                   *)
LEMMA DecodeKeeps ==
  ASSUME ReadInv, Decode PROVE ReadInv'
<1> DEFINE d == utf8decode(buf)
<1>1. buf \in Seq(Byte) /\ (Len(buf) >= 4 \/ isfullutf8(buf)) /\ Len(buf) \in Nat
  BY DEF Decode, Ready, ReadInv, UtfSiz
<1>2. d.size \in 1..Len(buf)
  BY <1>1, SizeFits
<1>3. buf' = SubSeq(buf, d.size + 1, Len(buf)) /\ alphabet' = alphabet
  BY DEF Decode
<1> HIDE DEF d
<1>4. ParserInv'
  BY GivenAByte, TputcKeeps DEF ReadInv
<1>5. buf' \in Seq(Byte) /\ Len(buf') <= Len(buf)
  BY <1>1, <1>2, <1>3
<1>6. Len(buf') \in Nat /\ BufSiz \in Nat
  BY <1>5, ReadAssumption
<1> QED
  BY <1>1, <1>3, <1>4, <1>5, <1>6 DEF ReadInv

(* Neither reading nor decoding disturbs the invariant.                    *)
LEMMA ReadNextInv == ReadInv /\ [ReadNext]_<<pvars, tvars>> => ReadInv'
<1> SUFFICES ASSUME ReadInv, [ReadNext]_<<pvars, tvars>> PROVE ReadInv'
  OBVIOUS
<1>1. CASE Read
  BY <1>1, ReadKeeps
<1>2. CASE Decode
  BY <1>2, DecodeKeeps
<1>3. CASE UNCHANGED <<pvars, tvars>>
  BY <1>3 DEF pvars, tvars, ReadInv, ParserInv, SequenceRoom
<1> QED
  BY <1>1, <1>2, <1>3 DEF ReadNext

(* Nothing is read or open at the start.                                   *)
LEMMA ReadInitInv == ReadInit => ReadInv
<1> SUFFICES ASSUME ReadInit PROVE ReadInv
  OBVIOUS
<1>1. ParserInv
  BY ParserAssumption DEF ReadInit, Init, ParserInv, SequenceRoom, EscStates, NUL, Byte
<1> QED
  BY <1>1, ReadAssumption DEF ReadInit, ReadInv

(* The invariant leaves the room that is promised.                         *)
LEMMA ReadInvRoom == ReadInv => RoomForMore
<1> SUFFICES ASSUME ReadInv PROVE RoomForMore
  OBVIOUS
<1>1. Ready => utf8decode(buf).size <= Len(buf)
  BY SizeFits DEF Ready, ReadInv, UtfSiz
<1>2. ~Ready => Len(buf) < BufSiz
  BY ReadAssumption DEF Ready, ReadInv, UtfSiz
<1> QED
  BY <1>1, <1>2 DEF RoomForMore, ReadInv, ParserInv

(* Graphic mode is on or off, whichever sequence set, saved or loaded it.   *)
GraphicsOK == gfx \in BOOLEAN /\ savedGfx \in BOOLEAN

LEMMA GraphicsKept == GraphicsOK /\ [ReadNext]_<<pvars, tvars>> => GraphicsOK'
<1> SUFFICES ASSUME gfx \in BOOLEAN, savedGfx \in BOOLEAN, [ReadNext]_<<pvars, tvars>>
             PROVE  gfx' \in BOOLEAN /\ savedGfx' \in BOOLEAN
  BY Zenon DEF GraphicsOK
<1>1. ASSUME NEW ch, tputc(ch)
      PROVE  gfx' \in BOOLEAN /\ savedGfx' \in BOOLEAN
  <2>1. CASE StrChar(ch) \/ StrEnd(ch) \/ TestChar(ch) \/ Show(ch)
    BY <2>1, Zenon DEF StrChar, StrEnd, TestChar, Show
  <2>2. CASE ControlChar(ch)
    BY <2>2, Zenon DEF ControlChar, Show
  <2>3. CASE CsiChar(ch)
    <3>1. \/ UNCHANGED <<gfx, savedGfx>>
          \/ savedGfx' \in {savedGfx, gfx} /\ gfx' \in {gfx, savedGfx}
      BY <2>3, Zenon DEF CsiChar, csihandle
    <3> QED
      BY <3>1, Zenon
  <2>4. CASE CharsetChar(ch)
    BY <2>4, Zenon DEF CharsetChar
  <2>5. CASE StartChar(ch)
    BY <2>5, Zenon DEF StartChar
  <2> QED
    BY <1>1, <2>1, <2>2, <2>3, <2>4, <2>5, Zenon DEF tputc
<1>2. CASE Read
  BY <1>2, Zenon DEF Read, pvars
<1>3. CASE Decode
  <2>1. PICK ch : tputc(ch)
    BY <1>3, Zenon DEF Decode
  <2> QED
    BY <1>1, <2>1
<1>4. CASE UNCHANGED <<pvars, tvars>>
  BY <1>4, Zenon DEF pvars
<1> QED
  BY <1>2, <1>3, <1>4, Zenon DEF ReadNext

(* term.esc is always one of seven states, whatever CAN, ESC and strings   *)
(* that are cut do to it, and only bytes are ever kept of a sequence.      *)
THEOREM ParserAlwaysTyped == ReadSpec => []ParserTypeOK
<1>1. ReadInit => GraphicsOK
  BY Zenon DEF ReadInit, Init, GraphicsOK
<1>2. ReadInv /\ GraphicsOK => ParserTypeOK
  <2>1. ReadInv => esc \in EscStates /\ csibuf \in Seq(0..255) /\ str.buf \in Seq(0..255)
    BY DEF ReadInv, ParserInv, Byte
  <2> QED
    BY <2>1, Zenon DEF ParserTypeOK, GraphicsOK
<1> QED
  BY <1>1, <1>2, GraphicsKept, ReadNextInv, ReadInitInv, PTL DEF ReadSpec

(* For every size of the buffers and every stream of bytes, however it is  *)
(* cut: no character is stored past the end of a sequence's or a string's  *)
(* buffer, no byte is decoded that was not read, and read() always has     *)
(* room (tputc, utf8decode, isfullutf8, ttyread).                          *)
THEOREM ReadAlwaysHasRoom == ReadSpec => []RoomForMore
<1> QED
  BY ReadNextInv, ReadInitInv, ReadInvRoom, PTL DEF ReadSpec

(* A turn of the loop takes some bytes, and hands on those bytes or U+FFFD.*)
Turn ==
  LET k == Len(buf) - Len(buf')
  IN  /\ k \in 1..Len(buf)
      /\ \/ out' = Append(out, SubSeq(buf, 1, k))
         \/ out' = Append(out, utf8encode(Invalid))

(* The loop of ttyread always moves on, and nothing is made up: tputc is   *)
(* given exactly the bytes taken off the buffer, or U+FFFD for them.       *)
THEOREM TurnsTakeWhatTheyGive == ReadSpec => [][Decode => Turn]_<<pvars, tvars>>
<1>1. ReadInv => [Decode => Turn]_<<pvars, tvars>>
  <2> SUFFICES ASSUME ReadInv, Decode PROVE Turn
    OBVIOUS
  <2> DEFINE d == utf8decode(buf)
             x == utf8encode(d.u)
  <2>1. buf \in Seq(Byte) /\ (Len(buf) >= 4 \/ isfullutf8(buf)) /\ Len(buf) \in Nat
    BY DEF Decode, Ready, ReadInv, UtfSiz
  <2>2. d.size \in 1..Len(buf)
    BY <2>1, SizeFits
  <2>3. x = SubSeq(buf, 1, d.size) \/ x = utf8encode(Invalid)
    BY <2>1, CharactersUnchanged
  <2>4. out' = Append(out, x) /\ buf' = SubSeq(buf, d.size + 1, Len(buf))
    BY DEF Decode
  <2> HIDE DEF d, x
  <2>5. Len(buf') = Len(buf) - d.size
    BY <2>1, <2>2, <2>4
  <2>6. Len(buf) - Len(buf') = d.size
    BY <2>1, <2>2, <2>5
  <2> QED
    BY <2>2, <2>3, <2>4, <2>6 DEF Turn
<1> QED
  BY <1>1, ReadNextInv, ReadInitInv, PTL DEF ReadSpec

-----------------------------------------------------------------------------
(* The characters of a stream do not depend on where it is cut.            *)

(* Induction on the natural numbers, for a set: WFMin of the library says   *)
(* that what is missing from it would have a least element.                *)
LEMMA NatSetInduction ==
  ASSUME NEW S, 0 \in S, \A n \in Nat : n \in S => n + 1 \in S
  PROVE  Nat \subseteq S
<1> DEFINE T == {n \in Nat : n \notin S}
           R == OpToRel(<, Nat)
<1>1. IsWellFoundedOn(R, Nat)
  BY NatLessThanWellFounded
<1>2. \A x, y \in Nat : <<y, x>> \in R <=> y < x
  BY DEF OpToRel
<1>3. ASSUME T # {} PROVE FALSE
  <2> HIDE DEF R
  <2>1. T \subseteq Nat
    OBVIOUS
  <2>2. PICK x \in T : \A y \in T : ~ (<<y, x>> \in R)
    <3> HIDE DEF T
    <3> QED
      BY <1>1, <1>3, <2>1, WFMin
  <2>3. x \in Nat /\ x \notin S /\ x # 0
    OBVIOUS
  <2>4. x - 1 \in Nat /\ x - 1 < x /\ (x - 1) + 1 = x
    BY <2>3
  <2>5. x - 1 \notin S
    BY <2>3, <2>4
  <2> QED
    BY <2>2, <2>3, <2>4, <2>5, <1>2
<1> QED
  BY <1>3

-----------------------------------------------------------------------------
(* Characters is a function: its definition has exactly one solution.      *)

Rest(s) == SubSeq(s, Taken(s) + 1, Len(s))
Short(n) == {s \in Seq(Byte) : Len(s) <= n}
Text == Seq(Seq(Byte))

(* A solution for sequences of length up to n.                             *)
Solution(n) ==
  {h \in [Short(n) -> Text] :
     \A s \in Short(n) : h[s] = IF Taken(s) = 0 THEN <<>> ELSE <<Given(s)>> \o h[Rest(s)]}

(* The largest run of continuation bytes.                                  *)
LEMMA TrailMax ==
  ASSUME NEW s \in Seq(Byte), s # <<>>
  PROVE  Trail(s) \in Trails(s) /\ \A m \in Trails(s) : m <= Trail(s)
<1>1. Len(s) \in Nat /\ Len(s) >= 1
  OBVIOUS
<1>2. Trails(s) \subseteq 0..(Len(s) - 1) /\ 0 \in Trails(s)
  BY <1>1 DEF Trails
<1>3. ASSUME ~ \E n \in Trails(s) : \A m \in Trails(s) : m <= n
      PROVE  FALSE
  <2> DEFINE U == {k \in Nat : \E n \in Trails(s) : n >= k}
  <2>1. 0 \in U
    BY <1>2
  <2>2. \A n \in Nat : n \in U => n + 1 \in U
    BY <1>1, <1>2, <1>3
  <2> HIDE DEF U
  <2>3. Nat \subseteq U
    BY <2>1, <2>2, NatSetInduction
  <2>4. Len(s) \in U
    BY <1>1, <2>3
  <2> QED
    BY <1>1, <1>2, <2>4 DEF U
<1> QED
  BY <1>3 DEF Trail

(* A character takes no more than there is.                                *)
LEMMA TakenRange ==
  ASSUME NEW s \in Seq(Byte)
  PROVE  /\ Taken(s) \in 0..Len(s)
         /\ Given(s) \in Seq(Byte)
         /\ Rest(s) \in Seq(Byte)
         /\ Len(Rest(s)) = Len(s) - Taken(s)
<1>1. Len(s) \in Nat /\ (s # <<>> => Len(s) >= 1)
  OBVIOUS
<1>2. Taken(s) \in 0..Len(s)
  <2>1. CASE s = <<>>
    BY <1>1, <2>1 DEF Taken
  <2>2. CASE s # <<>> /\ WellFormedAt(s) # {}
    <3>1. Taken(s) \in WellFormedAt(s)
      BY <2>2 DEF Taken
    <3> QED
      BY <1>1, <3>1 DEF WellFormedAt
  <2>3. CASE s # <<>> /\ WellFormedAt(s) = {}
    <3>1. Trail(s) \in 0..(Len(s) - 1)
      BY <2>3, TrailMax DEF Trails
    <3>2. Taken(s) = 0 \/ Taken(s) = Trail(s) + 1
      BY <2>3 DEF Taken
    <3> QED
      BY <1>1, <3>1, <3>2
  <2> QED
    BY <2>1, <2>2, <2>3
<1>3. SubSeq(s, 1, Taken(s)) \in Seq(Byte)
  BY <1>1, <1>2
<1>4. Replacement \in Seq(Byte)
  BY DEF Replacement, Byte
<1>5. Given(s) \in Seq(Byte)
  BY <1>3, <1>4 DEF Given
<1>6. Rest(s) \in Seq(Byte) /\ Len(Rest(s)) = Len(s) - Taken(s)
  BY <1>1, <1>2 DEF Rest
<1> QED
  BY <1>2, <1>5, <1>6
(* What a solution for n says of a sequence stays within n - 1.            *)
LEMMA RestShort ==
  ASSUME NEW n \in Nat, NEW s \in Short(n), Taken(s) # 0
  PROVE  n # 0 /\ Rest(s) \in Short(n - 1) /\ Rest(s) \in Short(n)
<1>1. s \in Seq(Byte) /\ Len(s) <= n /\ Len(s) \in Nat
  BY DEF Short
<1>2. Taken(s) \in 0..Len(s) /\ Rest(s) \in Seq(Byte) /\ Len(Rest(s)) = Len(s) - Taken(s)
  BY <1>1, TakenRange
<1> QED
  BY <1>1, <1>2 DEF Short

(* For texts up to any length there is a function that decodes them.       *)
LEMMA SolutionExists == \A n \in Nat : Solution(n) # {}
<1> DEFINE S == {n \in Nat : Solution(n) # {}}
<1>1. 0 \in S
  <2> DEFINE h == [s \in Short(0) |-> <<>>]
  <2>1. \A s \in Short(0) : Taken(s) = 0
    BY RestShort
  <2>2. <<>> \in Text
    BY DEF Text
  <2>3. h \in Solution(0)
    BY <2>1, <2>2 DEF Solution
  <2> QED
    BY <2>3
<1>2. ASSUME NEW n \in Nat, n \in S PROVE n + 1 \in S
  <2>1. PICK g : g \in Solution(n)
    BY <1>2
  <2> DEFINE h == [s \in Short(n + 1) |->
                     IF Taken(s) = 0 THEN <<>> ELSE <<Given(s)>> \o g[Rest(s)]]
  <2>2. \A s \in Short(n + 1) : Taken(s) # 0 => Rest(s) \in Short(n) /\ Rest(s) \in Short(n + 1)
    <3> TAKE s \in Short(n + 1)
    <3> HAVE Taken(s) # 0
    <3>1. n + 1 \in Nat /\ (n + 1) - 1 = n
      OBVIOUS
    <3> QED
      BY <3>1, RestShort
  <2>3. g \in [Short(n) -> Text]
    BY <2>1 DEF Solution
  <2>4. h \in [Short(n + 1) -> Text]
    <3> SUFFICES ASSUME NEW s \in Short(n + 1), Taken(s) # 0
                 PROVE  <<Given(s)>> \o g[Rest(s)] \in Text
      BY DEF Text
    <3>1. g[Rest(s)] \in Text
      BY <2>2, <2>3
    <3>2. Given(s) \in Seq(Byte)
      BY TakenRange DEF Short
    <3> QED
      BY <3>1, <3>2 DEF Text
  <2>5. \A r \in Short(n) : r \in Short(n + 1)
    BY DEF Short
  <2>6. \A r \in Short(n) : h[r] = g[r]
    BY <2>1, <2>5 DEF Solution
  <2>7. \A s \in Short(n + 1) :
           h[s] = IF Taken(s) = 0 THEN <<>> ELSE <<Given(s)>> \o h[Rest(s)]
    <3> TAKE s \in Short(n + 1)
    <3>1. h[s] = IF Taken(s) = 0 THEN <<>> ELSE <<Given(s)>> \o g[Rest(s)]
      OBVIOUS
    <3>2. Taken(s) # 0 => h[Rest(s)] = g[Rest(s)]
      BY <2>2, <2>6
    <3> HIDE DEF h
    <3> QED
      BY <3>1, <3>2
  <2> HIDE DEF h
  <2>8. h \in Solution(n + 1)
    BY <2>4, <2>7 DEF Solution
  <2> QED
    BY <2>8
<1> HIDE DEF S
<1>3. Nat \subseteq S
  BY <1>1, <1>2, NatSetInduction
<1> QED
  BY <1>3 DEF S

(* Two solutions agree on what both are defined on.                        *)
LEMMA SolutionUnique ==
  ASSUME NEW m \in Nat, NEW n \in Nat, NEW g \in Solution(m), NEW h \in Solution(n),
         NEW r \in Short(m), r \in Short(n)
  PROVE  g[r] = h[r]
<1> DEFINE S == {k \in Nat : \A s \in Short(m) \cap Short(n) : Len(s) <= k => g[s] = h[s]}
<1>1. \A s \in Short(m) : g[s] = IF Taken(s) = 0 THEN <<>> ELSE <<Given(s)>> \o g[Rest(s)]
  BY DEF Solution
<1>2. \A s \in Short(n) : h[s] = IF Taken(s) = 0 THEN <<>> ELSE <<Given(s)>> \o h[Rest(s)]
  BY DEF Solution
<1>3. ASSUME NEW k \in Nat, NEW s \in Short(m), s \in Short(n), Taken(s) # 0, Len(s) <= k
      PROVE  k # 0 /\ Rest(s) \in Short(m) \cap Short(n) /\ Len(Rest(s)) <= k - 1
  <2>1. Rest(s) \in Short(m) /\ Rest(s) \in Short(n)
    BY <1>3, RestShort
  <2>2. s \in Short(k)
    BY <1>3 DEF Short
  <2>3. k # 0 /\ Rest(s) \in Short(k - 1)
    BY <1>3, <2>2, RestShort
  <2> QED
    BY <2>1, <2>3 DEF Short
<1>4. 0 \in S
  <2> SUFFICES ASSUME NEW s \in Short(m), s \in Short(n), Len(s) <= 0 PROVE g[s] = h[s]
    OBVIOUS
  <2>1. Taken(s) = 0
    BY <1>3
  <2> QED
    BY <1>1, <1>2, <2>1
<1>5. ASSUME NEW k \in Nat, k \in S PROVE k + 1 \in S
  <2> SUFFICES ASSUME NEW s \in Short(m), s \in Short(n), Len(s) <= k + 1 PROVE g[s] = h[s]
    OBVIOUS
  <2>1. CASE Taken(s) = 0
    BY <1>1, <1>2, <2>1
  <2>2. CASE Taken(s) # 0
    <3>1. k + 1 \in Nat /\ (k + 1) - 1 = k
      OBVIOUS
    <3>2. Rest(s) \in Short(m) \cap Short(n) /\ Len(Rest(s)) <= k
      BY <1>3, <2>2, <3>1
    <3>3. g[Rest(s)] = h[Rest(s)]
      BY <1>5, <3>2
    <3> QED
      BY <1>1, <1>2, <2>2, <3>3
  <2> QED
    BY <2>1, <2>2
<1> HIDE DEF S
<1>6. Nat \subseteq S
  BY <1>4, <1>5, NatSetInduction
<1>7. m \in S
  BY <1>6
<1> QED
  BY <1>7 DEF S, Short

(* So Characters is the decoding its definition says.                      *)
LEMMA CharactersDef ==
  /\ Characters \in [Seq(Byte) -> Text]
  /\ \A s \in Seq(Byte) :
       Characters[s] = IF Taken(s) = 0 THEN <<>> ELSE <<Given(s)>> \o Characters[Rest(s)]
<1> DEFINE H(n) == CHOOSE h : h \in Solution(n)
           g == [s \in Seq(Byte) |-> H(Len(s))[s]]
           Good(f) == f = [s \in Seq(Byte) |->
                             IF Taken(s) = 0 THEN <<>> ELSE <<Given(s)>> \o f[Rest(s)]]
<1>1. \A n \in Nat : H(n) \in Solution(n)
  BY SolutionExists
<1> HIDE DEF H
<1>2. \A s \in Seq(Byte) : g[s] = IF Taken(s) = 0 THEN <<>> ELSE <<Given(s)>> \o g[Rest(s)]
  <2> TAKE s \in Seq(Byte)
  <2>1. Len(s) \in Nat /\ s \in Short(Len(s))
    BY DEF Short
  <2>2. H(Len(s)) \in Solution(Len(s))
    BY <1>1, <2>1
  <2>3. g[s] = IF Taken(s) = 0 THEN <<>> ELSE <<Given(s)>> \o H(Len(s))[Rest(s)]
    BY <2>1, <2>2 DEF Solution
  <2>4. ASSUME Taken(s) # 0 PROVE H(Len(s))[Rest(s)] = g[Rest(s)]
    <3> DEFINE r == Rest(s)
    <3>1. r \in Seq(Byte) /\ r \in Short(Len(s))
      BY <2>1, <2>4, RestShort DEF Short
    <3>2. Len(r) \in Nat /\ r \in Short(Len(r))
      BY <3>1 DEF Short
    <3>3. H(Len(r)) \in Solution(Len(r))
      BY <1>1, <3>2
    <3>4. g[r] = H(Len(r))[r]
      BY <3>1
    <3> HIDE DEF r, g
    <3>5. H(Len(s))[r] = H(Len(r))[r]
      BY <2>1, <2>2, <3>1, <3>2, <3>3, SolutionUnique
    <3> QED
      BY <3>4, <3>5 DEF r
  <2> HIDE DEF g
  <2> QED
    BY <2>3, <2>4
<1>3. Good(g)
  <2>1. g = [s \in Seq(Byte) |-> g[s]]
    OBVIOUS
  <2> HIDE DEF g
  <2> QED
    BY <1>2, <2>1
<1>4. Characters = CHOOSE f : Good(f)
  BY DEF Characters, Rest
<1>5. Good(Characters)
  <2> HIDE DEF Good, g
  <2> QED
    BY <1>3, <1>4
<1>6. \A s \in Seq(Byte) :
        Characters[s] = IF Taken(s) = 0 THEN <<>> ELSE <<Given(s)>> \o Characters[Rest(s)]
  BY <1>5
<1>7. Characters = [s \in Seq(Byte) |-> Characters[s]]
  <2> DEFINE e(s) == IF Taken(s) = 0 THEN <<>> ELSE <<Given(s)>> \o Characters[Rest(s)]
  <2>1. Characters = [s \in Seq(Byte) |-> e(s)]
    BY <1>5
  <2> HIDE DEF e, Good
  <2> QED
    BY <2>1
<1> HIDE DEF Good, g
<1> DEFINE S == {k \in Nat : \A s \in Seq(Byte) : Len(s) <= k => Characters[s] \in Text}
<1>8. \A s \in Seq(Byte) : Taken(s) = 0 => Characters[s] \in Text
  <2>1. <<>> \in Text
    BY DEF Text
  <2> QED
    BY <1>6, <2>1
<1>9. 0 \in S
  <2>1. \A s \in Seq(Byte) : Len(s) <= 0 => Taken(s) = 0
    BY TakenRange
  <2> QED
    BY <1>8, <2>1
<1>10. ASSUME NEW k \in Nat, k \in S PROVE k + 1 \in S
  <2> SUFFICES ASSUME NEW s \in Seq(Byte), Len(s) <= k + 1, Taken(s) # 0
               PROVE  Characters[s] \in Text
    BY <1>8
  <2>1. Given(s) \in Seq(Byte) /\ Rest(s) \in Seq(Byte) /\ Len(Rest(s)) <= k
    <3>1. Taken(s) \in 0..Len(s) /\ Len(s) \in Nat /\ Len(Rest(s)) = Len(s) - Taken(s)
      BY TakenRange
    <3>2. Given(s) \in Seq(Byte) /\ Rest(s) \in Seq(Byte)
      BY TakenRange
    <3> QED
      BY <3>1, <3>2
  <2>2. Characters[Rest(s)] \in Text
    BY <1>10, <2>1
  <2>3. <<Given(s)>> \o Characters[Rest(s)] \in Text
    <3> DEFINE x == Given(s)
               y == Characters[Rest(s)]
    <3> HIDE DEF x, y
    <3>1. x \in Seq(Byte) /\ y \in Text
      BY <2>1, <2>2 DEF x, y
    <3>2. <<x>> \o y \in Text
      BY <3>1 DEF Text
    <3> QED
      BY <3>2 DEF x, y
  <2> QED
    BY <1>6, <2>3
<1> HIDE DEF S
<1>11. Nat \subseteq S
  BY <1>9, <1>10, NatSetInduction
<1>12. \A s \in Seq(Byte) : Characters[s] \in Text
  <2> TAKE s \in Seq(Byte)
  <2>1. Len(s) \in S
    BY <1>11
  <2> QED
    BY <2>1 DEF S
<1> QED
  BY <1>6, <1>7, <1>12

(* Three sequences one after the other, however they are put together.     *)
Regrouped(a, b, c) == a \o (b \o c) = (a \o b) \o c

LEMMA ConcatRegrouped ==
  ASSUME NEW S, NEW a \in Seq(S), NEW b \in Seq(S), NEW c \in Seq(S)
  PROVE  Regrouped(a, b, c)
  BY SMT DEF Regrouped

(* What is left of two sequences after some of the first.                  *)
LEMMA SubSeqConcat ==
  ASSUME NEW S, NEW s \in Seq(S), NEW t \in Seq(S), NEW k \in 1..Len(s)
  PROVE  SubSeq(s \o t, k + 1, Len(s \o t)) = SubSeq(s, k + 1, Len(s)) \o t
<1> DEFINE m == Len(s)
           n == Len(t)
           x == SubSeq(s \o t, k + 1, m + n)
           y == SubSeq(s, k + 1, m)
<1>1. m \in Nat /\ n \in Nat /\ k \in 1..m /\ Len(s \o t) = m + n /\ s \o t \in Seq(S)
  OBVIOUS
<1>2. x \in Seq(S) /\ Len(x) = (m + n) - k /\ \A i \in 1..((m + n) - k) : x[i] = (s \o t)[k + i]
  BY <1>1
<1>3. y \in Seq(S) /\ Len(y) = m - k /\ \A i \in 1..(m - k) : y[i] = s[k + i]
  BY <1>1
<1>4. y \o t \in Seq(S) /\ Len(y \o t) = (m - k) + n
  BY <1>1, <1>3
<1>5. \A i \in 1..((m + n) - k) : (y \o t)[i] = IF i <= m - k THEN y[i] ELSE t[i - (m - k)]
  BY <1>1, <1>3
<1>6. \A i \in 1..((m + n) - k) : (s \o t)[k + i] = IF k + i <= m THEN s[k + i] ELSE t[(k + i) - m]
  BY <1>1
<1> HIDE DEF m, n, x, y
<1>7. \A i \in 1..((m + n) - k) : x[i] = (y \o t)[i]
  <2> TAKE i \in 1..((m + n) - k)
  <2>1. x[i] = (s \o t)[k + i]
    BY <1>2
  <2>2. CASE i <= m - k
    <3>1. (y \o t)[i] = y[i] /\ y[i] = s[k + i] /\ k + i <= m
      BY <1>1, <1>3, <1>5, <2>2
    <3> QED
      BY <1>6, <2>1, <3>1
  <2>3. CASE ~(i <= m - k)
    <3>1. (y \o t)[i] = t[i - (m - k)]
      BY <1>5, <2>3
    <3>2. ~(k + i <= m)
      BY <1>1, <2>3
    <3>3. i - (m - k) = (k + i) - m
      BY <1>1
    <3>4. (s \o t)[k + i] = t[(k + i) - m]
      BY <1>6, <3>2
    <3> QED
      BY <2>1, <3>1, <3>3, <3>4
  <2> QED
    BY <2>2, <2>3
<1>8. Len(x) = Len(y \o t)
  BY <1>1, <1>2, <1>4
<1>9. x = y \o t
  BY <1>2, <1>4, <1>7, <1>8, SeqEqual
<1> QED
  BY <1>1, <1>9 DEF m, n, x, y

(* A buffer of which nothing can be decoded holds no whole character.       *)
LEMMA NothingTaken ==
  ASSUME NEW s \in Seq(Byte), ~(Len(s) >= 4 \/ isfullutf8(s))
  PROVE  Taken(s) = 0
<1> DEFINE n == Announced(s[1])
<1>1. CASE s = <<>>
  BY <1>1 DEF Taken
<1>2. CASE s # <<>>
  <2>1. Len(s) \in 1..3 /\ s[1] \in Byte
    <3>1. Len(s) \in Nat /\ Len(s) >= 1 /\ s[1] \in Byte
      BY <1>2
    <3> DEFINE m == Len(s)
    <3>2. ~(m >= 4)
      OBVIOUS
    <3>3. m \in Nat /\ m >= 1
      BY <3>1
    <3> HIDE DEF m, n
    <3>4. m \in 1..3
      BY <3>2, <3>3
    <3> QED
      BY <3>1, <3>4 DEF m
  <2>2. n \in -1..3
    BY <2>1, AnnouncedRange
  <2>3. /\ Len(s) <= n
        /\ Len(s) >= 2 => Continues(s[2])
        /\ Len(s) >= 3 => Continues(s[3])
    BY <2>1 DEF isfullutf8
  <2>4. WellFormedAt(s) = {}
    <3> SUFFICES ASSUME NEW m \in 1..Len(s), WellFormed(SubSeq(s, 1, m)) PROVE FALSE
      BY DEF WellFormedAt
    <3> DEFINE c == SubSeq(s, 1, m)
    <3>1. c \in Seq(Byte) /\ Len(c) = m /\ c[1] = s[1]
      BY <2>1
    <3>2. Len(c) = Announced(c[1]) + 1
      <4> HIDE DEF c
      <4> QED
        BY <3>1, WellFormedShape DEF c
    <3>3. m = n + 1
      BY <3>1, <3>2
    <3> HIDE DEF c, n
    <3> QED
      BY <2>1, <2>2, <2>3, <3>3
  <2>5. Trail(s) = Len(s) - 1
    <3>1. Trail(s) \in Trails(s) /\ \A m \in Trails(s) : m <= Trail(s)
      BY <1>2, TrailMax
    <3>2. Len(s) - 1 \in Trails(s)
      <4>1. \A i \in 2..((Len(s) - 1) + 1) : Continues(s[i])
        <5> SUFFICES ASSUME NEW i \in 2..Len(s) PROVE Continues(s[i])
          BY <2>1
        <5>1. i = 2 \/ i = 3
          BY <2>1
        <5> QED
          BY <2>1, <2>3, <5>1
      <4>2. Len(s) - 1 \in 0..(Len(s) - 1) /\ Len(s) - 1 <= n
        BY <2>1, <2>2, <2>3
      <4> QED
        BY <4>1, <4>2 DEF Trails
    <3>3. Trail(s) \in 0..(Len(s) - 1)
      BY <3>1 DEF Trails
    <3> QED
      BY <2>1, <3>1, <3>2, <3>3
  <2>6. Trail(s) < n /\ Trail(s) + 1 = Len(s)
    <3> HIDE DEF n
    <3> QED
      BY <2>1, <2>2, <2>3, <2>5
  <2> QED
    BY <1>2, <2>4, <2>6 DEF Taken
<1> QED
  BY <1>1, <1>2

(* A character that can be decoded is the one a reader of the whole stream *)
(* sees: what follows it does not matter.                                  *)
LEMMA DecodedIsTaken ==
  ASSUME NEW s \in Seq(Byte), Len(s) >= 4 \/ isfullutf8(s), NEW t \in Seq(Byte)
  PROVE  /\ Taken(s \o t) = utf8decode(s).size
         /\ Given(s \o t) = utf8encode(utf8decode(s).u)
<1> DEFINE n == Announced(s[1])
           f == Followers(s)
           w == s \o t
           c == SubSeq(s, 1, f + 1)
<1>1. Len(s) \in Nat /\ Len(s) >= 1 /\ s # <<>> /\ s[1] \in Byte
  BY DEF isfullutf8
<1>2. n \in -1..3 /\ f \in 0..3 /\ (f <= n \/ f = 0)
  BY <1>1, AnnouncedRange, FollowersRange
<1>3. utf8decode(s).size = f + 1 /\ f + 1 <= Len(s)
  <2>1. utf8decode(s).size = f + 1
    BY DEF utf8decode
  <2>2. utf8decode(s).size \in 1..Len(s)
    BY SizeFits
  <2> QED
    BY <1>1, <2>1, <2>2
<1>4. \A i \in 2..(f + 1) : Continues(s[i])
  BY <1>1, FollowersContinue
<1>5. f < n => f + 2 <= Len(s) /\ ~Continues(s[f + 2])
  <2>1. f < n => ~Continues(s[f + 2])
    BY <1>1, FollowersContinue
  <2>2. CASE Len(s) >= 4
    BY <1>1, <1>2, <2>1, <2>2
  <2>3. CASE Len(s) < 4
    <3>1. \/ Len(s) > n
          \/ Len(s) >= 2 /\ ~Continues(s[2])
          \/ Len(s) >= 3 /\ ~Continues(s[3])
      BY <1>1, <1>2, <2>3 DEF isfullutf8
    <3>2. f >= 1 => Continues(s[2])
      BY <1>2, <1>4
    <3>3. f >= 2 => Continues(s[3])
      BY <1>2, <1>4
    <3> HIDE DEF f, n
    <3> QED
      BY <1>1, <1>2, <2>1, <3>1, <3>2, <3>3
  <2> QED
    BY <1>1, <2>2, <2>3
<1>6. /\ w \in Seq(Byte) /\ Len(w) \in Nat /\ Len(w) >= Len(s) /\ w # <<>>
      /\ \A i \in 1..Len(s) : w[i] = s[i]
  BY <1>1
<1>7. SubSeq(w, 1, f + 1) = c
  <2> HIDE DEF w, f
  <2> QED
    BY <1>1, <1>2, <1>3, <1>6
<1>8. Len(c) = f + 1 /\ c[1] = s[1] /\ c \in Seq(Byte)
  BY <1>1, <1>2, <1>3
<1> HIDE DEF w, f, c, n
<1>9. Announced(w[1]) = n
  BY <1>1, <1>6 DEF n
<1>10. f < n => f + 2 <= Len(w) /\ ~Continues(w[f + 2])
  BY <1>1, <1>2, <1>5, <1>6
<1>11. \A i \in 2..(f + 1) : Continues(w[i])
  BY <1>1, <1>2, <1>3, <1>4, <1>6
<1>12. \A m \in WellFormedAt(w) : m = f + 1 /\ WellFormed(c)
  <2> SUFFICES ASSUME NEW m \in 1..Len(w), WellFormed(SubSeq(w, 1, m))
               PROVE  m = f + 1 /\ WellFormed(c)
    BY DEF WellFormedAt
  <2> DEFINE e == SubSeq(w, 1, m)
  <2>1. e \in Seq(Byte) /\ Len(e) = m /\ \A i \in 1..m : e[i] = w[i]
    BY <1>6
  <2>2. WellFormed(e)
    OBVIOUS
  <2> HIDE DEF e
  <2>3. Len(e) = Announced(e[1]) + 1 /\ \A i \in 2..Len(e) : Continues(e[i])
    BY <2>1, <2>2, WellFormedShape
  <2>4. m = n + 1 /\ \A i \in 2..m : Continues(w[i])
    BY <1>6, <1>9, <2>1, <2>3
  <2>5. n <= f
    <3> SUFFICES ASSUME f < n PROVE FALSE
      BY <1>2
    <3>1. f + 2 \in 2..m
      BY <1>2, <2>4
    <3> QED
      BY <1>10, <2>4, <3>1
  <2>6. n >= 0
    BY <1>2, <1>6, <2>4
  <2>7. n = f
    BY <1>2, <2>5, <2>6
  <2> QED
    BY <1>7, <2>2, <2>4, <2>7 DEF e
<1>13. Taken(w) = f + 1
  <2>1. CASE WellFormedAt(w) # {}
    <3>1. Taken(w) \in WellFormedAt(w)
      BY <1>6, <2>1 DEF Taken
    <3> QED
      BY <1>12, <3>1
  <2>2. CASE WellFormedAt(w) = {}
    <3>1. f \in Trails(w)
      <4>1. f \in 0..(Len(w) - 1) /\ (f = 0 \/ f <= Announced(w[1]))
        BY <1>1, <1>2, <1>3, <1>6, <1>9
      <4> QED
        BY <1>11, <4>1 DEF Trails
    <3>2. \A m \in Trails(w) : m <= f
      <4> SUFFICES ASSUME NEW m \in Trails(w), ~(m <= f) PROVE FALSE
        OBVIOUS
      <4>1. /\ m \in 0..(Len(w) - 1) /\ (m = 0 \/ m <= n)
            /\ \A i \in 2..(m + 1) : Continues(w[i])
        BY <1>9 DEF Trails
      <4>2. f < n /\ f + 2 \in 2..(m + 1)
        BY <1>2, <1>6, <4>1
      <4> QED
        BY <1>10, <4>1, <4>2
    <3>3. Trail(w) = f
      <4>1. Trail(w) \in Trails(w) /\ \A m \in Trails(w) : m <= Trail(w)
        BY <1>6, TrailMax
      <4>2. Trail(w) \in Nat
        BY <1>6, <4>1 DEF Trails
      <4> QED
        BY <1>2, <3>1, <3>2, <4>1, <4>2
    <3>4. ~(Trail(w) < Announced(w[1]) /\ Trail(w) + 1 = Len(w))
      BY <1>2, <1>6, <1>9, <1>10, <3>3
    <3>5. Taken(w) = Trail(w) + 1
      BY <1>6, <2>2, <3>4 DEF Taken
    <3> QED
      BY <3>3, <3>5
  <2> QED
    BY <2>1, <2>2
<1>14. utf8encode(utf8decode(s).u) = IF WellFormed(c) THEN c ELSE Replacement
  BY <1>3, DecodedAsGiven DEF c
<1>15. Given(w) = IF WellFormed(c) THEN c ELSE Replacement
  BY <1>7, <1>13 DEF Given
<1> QED
  BY <1>3, <1>13, <1>14, <1>15 DEF w
-----------------------------------------------------------------------------
(* Whatever is read next, the characters of the stream are those tputc was *)
(* given, and then those of the bytes left over followed by what comes.    *)
StreamInv ==
  /\ sent \in Seq(Byte) /\ out \in Text
  /\ \A t \in Seq(Byte) : Characters[sent \o t] = out \o Characters[buf \o t]

(* Reading adds bytes behind, a turn of the loop moves one character on.   *)
LEMMA StreamKept ==
  ReadInv /\ StreamInv /\ [ReadNext]_<<pvars, tvars>> => StreamInv'
<1> SUFFICES ASSUME ReadInv, StreamInv, [ReadNext]_<<pvars, tvars>> PROVE StreamInv'
  OBVIOUS
<1>1. /\ buf \in Seq(Byte) /\ Len(buf) \in Nat /\ sent \in Seq(Byte) /\ out \in Text
      /\ \A t \in Seq(Byte) : Characters[sent \o t] = out \o Characters[buf \o t]
  BY DEF ReadInv, StreamInv
<1>2. \A t \in Seq(Byte) : Characters[t] \in Text
  BY CharactersDef
<1>3. CASE Read
  <2>5. PICK k \in 1..(BufSiz - Len(buf)) : \E new \in [1..k -> alphabet] :
          /\ buf' = buf \o new
          /\ sent' = IF buf = <<>> THEN new ELSE sent \o new
          /\ out' = IF buf = <<>> THEN <<>> ELSE out
    BY <1>3 DEF Read
  <2>1. PICK new \in [1..k -> alphabet] :
          /\ buf' = buf \o new
          /\ sent' = IF buf = <<>> THEN new ELSE sent \o new
          /\ out' = IF buf = <<>> THEN <<>> ELSE out
    BY <2>5
  <2>2. new \in Seq(Byte)
    <3>1. alphabet \subseteq Byte
      BY ReadAssumption DEF ReadInv
    <3>2. new \in [1..k -> Byte] /\ k \in Nat
      BY <1>1, <2>1, <3>1, ReadAssumption
    <3> QED
      BY <3>2
  <2>3. CASE buf = <<>>
    <3>1. buf' = new /\ sent' = new /\ out' = <<>>
      BY <2>1, <2>2, <2>3
    <3>2. \A t \in Seq(Byte) : Characters[new \o t] = <<>> \o Characters[new \o t]
      <4> TAKE t \in Seq(Byte)
      <4>2. new \o t \in Seq(Byte)
        BY <2>2
      <4>1. Characters[new \o t] \in Text
        BY <1>2, <4>2
      <4> QED
        BY <4>1 DEF Text
    <3>3. <<>> \in Text
      BY DEF Text
    <3> QED
      BY <2>2, <3>1, <3>2, <3>3 DEF StreamInv
  <2>4. CASE buf # <<>>
    <3>1. buf' = buf \o new /\ sent' = sent \o new /\ out' = out
      BY <2>1, <2>4
    <3>2. \A t \in Seq(Byte) :
            Characters[(sent \o new) \o t] = out \o Characters[(buf \o new) \o t]
      <4> TAKE t \in Seq(Byte)
      <4>1. new \o t \in Seq(Byte)
        BY <2>2
      <4>2. (sent \o new) \o t = sent \o (new \o t) /\ (buf \o new) \o t = buf \o (new \o t)
        <5>1. sent \in Seq(Byte) /\ buf \in Seq(Byte) /\ new \in Seq(Byte)
          BY <1>1, <2>2
        <5>2. Regrouped(sent, new, t) /\ Regrouped(buf, new, t)
          BY <5>1, ConcatRegrouped
        <5> QED
          BY <5>2, Zenon DEF Regrouped
      <4> QED
        BY <1>1, <4>1, <4>2
    <3> QED
      BY <1>1, <2>2, <3>1, <3>2 DEF StreamInv
  <2> QED
    BY <2>3, <2>4
<1>4. CASE Decode
  <2> DEFINE d == utf8decode(buf)
             x == utf8encode(d.u)
  <2>1. Len(buf) >= 4 \/ isfullutf8(buf)
    BY <1>4 DEF Decode, Ready, UtfSiz
  <2>2. sent' = sent /\ out' = Append(out, x) /\ buf' = SubSeq(buf, d.size + 1, Len(buf))
    BY <1>4 DEF Decode
  <2>3. d.size \in 1..Len(buf)
    BY <1>1, <2>1, SizeFits
  <2>4. \A t \in Seq(Byte) : Taken(buf \o t) = d.size /\ Given(buf \o t) = x
    BY <1>1, <2>1, DecodedIsTaken
  <2>5. x \in Seq(Byte)
    <3>1. <<>> \in Seq(Byte)
      OBVIOUS
    <3>2. buf \o <<>> \in Seq(Byte)
      BY <1>1, <3>1
    <3>3. Given(buf \o <<>>) = x
      BY <2>4, <3>1
    <3> HIDE DEF x
    <3> QED
      BY <3>2, <3>3, TakenRange
  <2> HIDE DEF d, x
  <2>6. buf' \in Seq(Byte)
    BY <1>1, <2>2, <2>3
  <2>7. \A t \in Seq(Byte) : Characters[sent \o t] = Append(out, x) \o Characters[buf' \o t]
    <3> TAKE t \in Seq(Byte)
    <3> DEFINE w == buf \o t
               r == buf' \o t
    <3>1. w \in Seq(Byte) /\ r \in Seq(Byte)
      BY <1>1, <2>6
    <3>2. Rest(w) = r
      <4>1. Taken(w) = d.size
        BY <2>4
      <4>2. SubSeq(w, d.size + 1, Len(w)) = SubSeq(buf, d.size + 1, Len(buf)) \o t
        BY <1>1, <2>3, SubSeqConcat
      <4> QED
        BY <2>2, <4>1, <4>2 DEF Rest
    <3>3. Characters[w] = <<x>> \o Characters[r]
      <4>1. Taken(w) # 0 /\ Given(w) = x
        BY <2>3, <2>4
      <4> HIDE DEF w, r
      <4> QED
        BY <3>1, <3>2, <4>1, CharactersDef
    <3>4. Characters[r] \in Text
      BY <1>2, <3>1
    <3>5. out \o (<<x>> \o Characters[r]) = Append(out, x) \o Characters[r]
      <4> DEFINE y == Characters[r]
      <4>1. y \in Text
        BY <3>4
      <4> HIDE DEF y, r
      <4>2. out \in Seq(Seq(Byte)) /\ y \in Seq(Seq(Byte)) /\ x \in Seq(Byte)
        BY <1>1, <2>5, <4>1 DEF Text
      <4>3. <<x>> \in Seq(Seq(Byte)) /\ Append(out, x) = out \o <<x>>
        BY <4>2
      <4>4. Regrouped(out, <<x>>, y)
        BY <4>2, <4>3, ConcatRegrouped
      <4> QED
        BY <4>3, <4>4, Zenon DEF Regrouped, y
    <3> QED
      BY <1>1, <3>3, <3>5
  <2>8. Append(out, x) \in Text
    BY <1>1, <2>5 DEF Text
  <2> QED
    BY <1>1, <2>2, <2>7, <2>8 DEF StreamInv
<1>5. CASE UNCHANGED <<pvars, tvars>>
  BY <1>5 DEF StreamInv, tvars
<1> QED
  BY <1>3, <1>4, <1>5 DEF ReadNext

(* Nothing has been read and nothing given at the start.                   *)
LEMMA StreamInit == ReadInit => StreamInv
<1> SUFFICES ASSUME ReadInit PROVE StreamInv
  OBVIOUS
<1>1. sent = <<>> /\ out = <<>> /\ buf = <<>>
  BY DEF ReadInit
<1>2. \A t \in Seq(Byte) : Characters[<<>> \o t] = <<>> \o Characters[<<>> \o t]
  <2> TAKE t \in Seq(Byte)
  <2>1. Characters[<<>> \o t] \in Text
    BY CharactersDef
  <2> QED
    BY <2>1 DEF Text
<1>3. <<>> \in Seq(Byte) /\ <<>> \in Text
  BY DEF Text
<1> QED
  BY <1>1, <1>2, <1>3 DEF StreamInv

(* When no character can be decoded, all of them have been given.          *)
LEMMA StreamInvisible == ReadInv /\ StreamInv => ChunksInvisible
<1> SUFFICES ASSUME ReadInv, StreamInv, ~Ready PROVE out = Characters[sent]
  BY DEF ChunksInvisible
<1>1. buf \in Seq(Byte) /\ sent \in Seq(Byte) /\ out \in Text
  BY DEF ReadInv, StreamInv
<1>2. Characters[sent \o <<>>] = out \o Characters[buf \o <<>>]
  <2>1. <<>> \in Seq(Byte)
    OBVIOUS
  <2> QED
    BY <2>1 DEF StreamInv
<1>3. sent \o <<>> = sent /\ buf \o <<>> = buf
  BY <1>1
<1>4. Characters[buf] = <<>>
  <2>1. Taken(buf) = 0
    BY <1>1, NothingTaken DEF Ready, UtfSiz
  <2> QED
    BY <1>1, <2>1, CharactersDef
<1>5. out \o <<>> = out
  BY <1>1 DEF Text
<1> QED
  BY <1>2, <1>3, <1>4, <1>5

(* However read() cuts the stream, and whatever the bytes are, tputc is    *)
(* given the characters of the whole of it (isfullutf8, utf8decode,        *)
(* utf8encode and the memmove of ttyread).                                 *)
THEOREM CutsAreInvisible == ReadSpec => []ChunksInvisible
<1> QED
  BY ReadNextInv, ReadInitInv, StreamKept, StreamInit, StreamInvisible, PTL DEF ReadSpec

-----------------------------------------------------------------------------
(* What a recursive function computes, up to any bound.                    *)

(* Induction up to a bound.                                                *)
LEMMA IntervalInduction ==
  ASSUME NEW m \in Nat, NEW S, 0 \in S, \A i \in 0..(m - 1) : i \in S => i + 1 \in S
  PROVE  0..m \subseteq S
<1> DEFINE T == {k \in Nat : k <= m => k \in S}
<1>1. 0 \in T
  OBVIOUS
<1>2. \A k \in Nat : k \in T => k + 1 \in T
  <2> SUFFICES ASSUME NEW k \in Nat, k \in T, k + 1 <= m PROVE k + 1 \in S
    OBVIOUS
  <2>1. k \in 0..(m - 1) /\ k \in S
    OBVIOUS
  <2> QED
    BY <2>1
<1> HIDE DEF T
<1>3. Nat \subseteq T
  BY <1>1, <1>2, NatSetInduction
<1> QED
  BY <1>3 DEF T

(* A function given by its first value and by a step from each to the next *)
(* exists.                                                                 *)
Recursive(m, V, v0, step) ==
  \E g \in [0..m -> V] : g[0] = v0 /\ \A i \in 1..m : g[i] = step[i][g[i - 1]]

(* It exists up to every bound.                                            *)
LEMMA RecursionExists ==
  ASSUME NEW m \in Nat, NEW V, NEW v0 \in V, NEW step \in [1..m -> [V -> V]]
  PROVE  Recursive(m, V, v0, step)
<1> DEFINE Upto(k, g) == /\ g \in [0..k -> V] /\ g[0] = v0
                         /\ \A i \in 1..k : g[i] = step[i][g[i - 1]]
           S == {k \in 0..m : \E g : Upto(k, g)}
<1>1. 0 \in S
  <2> DEFINE h == [i \in 0..0 |-> v0]
  <2>1. Upto(0, h)
    OBVIOUS
  <2>2. 0 \in 0..m
    OBVIOUS
  <2> HIDE DEF Upto, h
  <2> QED
    BY <2>1, <2>2
<1>2. ASSUME NEW k \in 0..(m - 1), k \in S PROVE k + 1 \in S
  <2>1. PICK g : Upto(k, g)
    BY <1>2
  <2> DEFINE h == [i \in 0..(k + 1) |-> IF i = k + 1 THEN step[k + 1][g[k]] ELSE g[i]]
  <2>2. k \in Nat /\ k + 1 \in 1..m /\ k \in 0..k /\ g \in [0..k -> V]
    BY <2>1
  <2>3. step[k + 1][g[k]] \in V
    BY <2>2
  <2>4. h \in [0..(k + 1) -> V]
    BY <2>2, <2>3
  <2>5. \A i \in 1..(k + 1) : h[i] = step[i][h[i - 1]]
    <3> TAKE i \in 1..(k + 1)
    <3>1. CASE i = k + 1
      BY <2>2, <3>1
    <3>2. CASE i # k + 1
      <4>1. i \in 1..k /\ i \in 0..(k + 1) /\ i - 1 \in 0..(k + 1) /\ i - 1 # k + 1
        BY <2>2, <3>2
      <4>2. h[i] = g[i] /\ h[i - 1] = g[i - 1]
        BY <3>2, <4>1
      <4> HIDE DEF h
      <4> QED
        BY <2>1, <4>1, <4>2
    <3> QED
      BY <3>1, <3>2
  <2>6. h[0] = v0
    BY <2>1, <2>2
  <2> HIDE DEF h
  <2>7. Upto(k + 1, h)
    BY <2>4, <2>5, <2>6
  <2>8. k + 1 \in 0..m
    BY <2>2
  <2> HIDE DEF Upto
  <2> QED
    BY <2>7, <2>8
<1> HIDE DEF S
<1>3. 0..m \subseteq S
  BY <1>1, <1>2, IntervalInduction
<1> QED
  BY <1>3 DEF S, Recursive

-----------------------------------------------------------------------------
(* A number in decimal takes its digits one at a time, from the first.     *)
LEMMA DecimalDef ==
  ASSUME NEW p \in Seq(Int), NEW i \in 1..(Len(p) + 1)
  PROVE  /\ \A j \in 0..Len(p) : Decimal(p, i, j) \in Int
         /\ Decimal(p, i, i - 1) = 0
         /\ \A j \in i..Len(p) : Decimal(p, i, j) = (Decimal(p, i, j - 1) * 10) + (p[j] - Zero)
<1> DEFINE m == Len(p)
           e(h, x) == IF x < i THEN 0 ELSE (h[x - 1] * 10) + (p[x] - Zero)
           v == CHOOSE h : h = [x \in 0..m |-> e(h, x)]
<1>1. \A j : Decimal(p, i, j) = v[j]
  BY DEF Decimal
<1>2. m \in Nat /\ i \in 1..(m + 1) /\ p \in [1..m -> Int] /\ Zero \in Int
  BY DEF Zero
<1>3. v = [x \in 0..m |-> e(v, x)]
  <2> DEFINE step == [x \in 1..m |-> [a \in Int |-> IF x < i THEN 0 ELSE (a * 10) + (p[x] - Zero)]]
  <2>1. step \in [1..m -> [Int -> Int]]
    BY <1>2
  <2>2. PICK g \in [0..m -> Int] : g[0] = 0 /\ \A x \in 1..m : g[x] = step[x][g[x - 1]]
    <3>1. 0 \in Int /\ m \in Nat
      BY <1>2
    <3> HIDE DEF step, m
    <3>2. Recursive(m, Int, 0, step)
      BY <2>1, <3>1, RecursionExists
    <3> QED
      BY <3>2 DEF Recursive
  <2>3. \A x \in 0..m : g[x] = e(g, x)
    <3> TAKE x \in 0..m
    <3>1. CASE x = 0
      BY <1>2, <2>2, <3>1
    <3>2. CASE x # 0
      <4>1. x \in 1..m /\ x - 1 \in 0..m
        BY <1>2, <3>2
      <4>2. g[x - 1] \in Int
        BY <2>2, <4>1
      <4> QED
        BY <2>2, <4>1, <4>2
    <3> QED
      BY <3>1, <3>2
  <2>4. g = [x \in 0..m |-> e(g, x)]
    <3> HIDE DEF e, m
    <3> QED
      BY <2>2, <2>3
  <2> HIDE DEF e, m
  <2> QED
    BY <2>4
<1> HIDE DEF v
<1>4. \A x \in 0..m : v[x] = e(v, x)
  <2> HIDE DEF e, m
  <2> QED
    BY <1>3
<1>5. \A x \in 0..m : v[x] \in Int
  <2> DEFINE S == {x \in 0..m : v[x] \in Int}
  <2>1. 0 \in S
    BY <1>2, <1>4
  <2>2. \A x \in 0..(m - 1) : x \in S => x + 1 \in S
    <3> SUFFICES ASSUME NEW x \in 0..(m - 1), v[x] \in Int PROVE v[x + 1] \in Int
      BY <1>2
    <3>1. x + 1 \in 1..m /\ x + 1 \in 0..m /\ (x + 1) - 1 = x
      BY <1>2
    <3>2. v[x + 1] = IF x + 1 < i THEN 0 ELSE (v[x] * 10) + (p[x + 1] - Zero)
      BY <1>4, <3>1
    <3>3. p[x + 1] \in Int
      BY <1>2, <3>1
    <3> QED
      BY <1>2, <3>2, <3>3
  <2> HIDE DEF S, m
  <2>3. 0..m \subseteq S
    BY <1>2, <2>1, <2>2, IntervalInduction
  <2> QED
    BY <2>3 DEF S
<1>6. v[i - 1] = 0
  BY <1>2, <1>4
<1>7. \A j \in i..m : v[j] = (v[j - 1] * 10) + (p[j] - Zero)
  BY <1>2, <1>4
<1> QED
  BY <1>1, <1>5, <1>6, <1>7

(* An argument of a sequence that wraps is still a number.                 *)
LEMMA WrappedInt == ASSUME NEW v \in Int PROVE Wrapped(v) \in Int
<1>1. IntMax \in Nat
  BY ParserAssumption
<1>2. 2 * (IntMax + 1) \in Nat /\ 2 * (IntMax + 1) > 0
  BY <1>1
<1> DEFINE n == 2 * (IntMax + 1)
           a == v + IntMax + 1
<1>3. a \in Int
  BY <1>1
<1> HIDE DEF n, a
<1>4. a % n \in Int
  BY <1>2, <1>3 DEF n
<1> QED
  BY <1>1, <1>4 DEF Wrapped, n, a

(* A number below the modulus.                                             *)
LEMMA ModSmall == ASSUME NEW a \in Nat, NEW n \in Nat, a < n PROVE a % n = a
  OBVIOUS

(* One that fits in an int does not wrap.                                  *)
LEMMA WrappedSmall == ASSUME NEW v \in Nat, v <= IntMax PROVE Wrapped(v) = v
<1>1. IntMax \in Nat
  BY ParserAssumption
<1> DEFINE n == 2 * (IntMax + 1)
           a == v + IntMax + 1
<1>2. n \in Nat /\ a \in Nat /\ a < n
  BY <1>1
<1>3. a % n = a
  <2> HIDE DEF n, a
  <2> QED
    BY <1>2, ModSmall
<1>4. Wrapped(v) = a - (IntMax + 1)
  <2> HIDE DEF n
  <2> QED
  BY <1>3 DEF Wrapped, n
<1> QED
  BY <1>1, <1>4

-----------------------------------------------------------------------------
(* csiparse, step by step.                                                 *)
ParseStates(b) ==
  {q \in [priv : {b}, arg : Seq(Int), mode : Byte] : Len(q.arg) \in 1..EscArgSiz}

ParseStart(b) == [priv |-> b, arg |-> <<0>>, mode |-> NUL]

(* What one character does to the arguments.                               *)
TakesDigit(q, r, ch) ==
  /\ Digit(ch) /\ r.mode = NUL
  /\ r.arg = [q.arg EXCEPT ![Len(q.arg)] = Wrapped((q.arg[Len(q.arg)] * 10) + (ch - Zero))]
TakesSemi(q, r, ch) == ch = Semi /\ r.mode = NUL /\ r.arg = Append(q.arg, 0)
TakesName(q, r, ch) == r.mode = ch /\ r.arg = q.arg

(* A character is a digit, a semicolon that has room, or the name.         *)
LEMMA ParseStepTyped ==
  ASSUME NEW b, NEW q \in ParseStates(b), NEW ch \in Byte
  PROVE  /\ ParseStep(q, ch) \in ParseStates(b)
         /\ q.mode # NUL => ParseStep(q, ch) = q
         /\ q.mode = NUL => \/ TakesDigit(q, ParseStep(q, ch), ch)
                            \/ TakesSemi(q, ParseStep(q, ch), ch)
                            \/ TakesName(q, ParseStep(q, ch), ch)
<1> DEFINE r == ParseStep(q, ch)
           n == Len(q.arg)
           v == Wrapped((q.arg[n] * 10) + (ch - Zero))
<1>1. /\ q \in [priv : {b}, arg : Seq(Int), mode : Byte]
      /\ n \in Nat /\ n \in 1..n /\ n \in 1..EscArgSiz /\ EscArgSiz \in Nat
  BY ParserAssumption DEF ParseStates
<1>2. ch \in Int /\ q.arg[n] \in Int
  BY <1>1 DEF Byte
<1>3. v \in Int
  <2>1. (q.arg[n] * 10) + (ch - Zero) \in Int
    BY <1>2 DEF Zero
  <2> QED
    BY <2>1, WrappedInt
<1> HIDE DEF v
<1>4. CASE q.mode # NUL
  BY <1>4 DEF ParseStep
<1>5. CASE q.mode = NUL /\ Digit(ch)
  <2>1. r = [q EXCEPT !.arg = [q.arg EXCEPT ![n] = v]]
    BY <1>5 DEF ParseStep, v
  <2>2. [q.arg EXCEPT ![n] = v] \in Seq(Int) /\ Len([q.arg EXCEPT ![n] = v]) = n
    BY <1>1, <1>3
  <2>3. r \in ParseStates(b)
    BY <1>1, <2>1, <2>2 DEF ParseStates
  <2>4. r.mode = NUL /\ r.arg = [q.arg EXCEPT ![n] = v]
    BY <1>1, <1>5, <2>1
  <2> QED
    BY <1>5, <2>3, <2>4 DEF TakesDigit, v
<1>6. CASE q.mode = NUL /\ ~Digit(ch) /\ ch = Semi /\ RoomForArg(n)
  <2>1. r = [q EXCEPT !.arg = Append(q.arg, 0)]
    BY <1>6 DEF ParseStep
  <2>2. Append(q.arg, 0) \in Seq(Int) /\ Len(Append(q.arg, 0)) = n + 1
    BY <1>1
  <2>3. n + 1 \in 1..EscArgSiz
    BY <1>1, <1>6 DEF RoomForArg
  <2>4. r \in ParseStates(b)
    BY <1>1, <2>1, <2>2, <2>3 DEF ParseStates
  <2>5. r.mode = NUL /\ r.arg = Append(q.arg, 0)
    BY <1>1, <1>6, <2>1
  <2> QED
    BY <1>6, <2>4, <2>5 DEF TakesSemi
<1>7. CASE q.mode = NUL /\ ~Digit(ch) /\ ~(ch = Semi /\ RoomForArg(n))
  <2>1. r = [q EXCEPT !.mode = ch]
    BY <1>7 DEF ParseStep
  <2>2. r \in ParseStates(b)
    BY <1>1, <2>1 DEF ParseStates
  <2>3. r.mode = ch /\ r.arg = q.arg
    BY <1>1, <2>1
  <2> QED
    BY <1>7, <2>2, <2>3 DEF TakesName
<1> QED
  BY <1>4, <1>5, <1>6, <1>7

(* The states csiparse goes through on p.                                  *)
Parsing(p, b) ==
  CHOOSE q : q = [i \in 0..Len(p) |-> IF i = 0 THEN ParseStart(b) ELSE ParseStep(q[i - 1], p[i])]

(* They exist, and each follows from the one before.                       *)
LEMMA ParsingDef ==
  ASSUME NEW p \in Seq(Byte), NEW b
  PROVE  /\ \A i \in 0..Len(p) : Parsing(p, b)[i] \in ParseStates(b)
         /\ Parsing(p, b)[0] = ParseStart(b)
         /\ \A i \in 1..Len(p) : Parsing(p, b)[i] = ParseStep(Parsing(p, b)[i - 1], p[i])
<1> DEFINE m == Len(p)
           V == ParseStates(b)
           v0 == ParseStart(b)
           e(h, i) == IF i = 0 THEN v0 ELSE ParseStep(h[i - 1], p[i])
           v == CHOOSE h : h = [i \in 0..m |-> e(h, i)]
<1>1. Parsing(p, b) = v
  BY DEF Parsing
<1>2. m \in Nat /\ p \in [1..m -> Byte]
  OBVIOUS
<1>3. v0 \in V
  <2>1. 1 \in 1..EscArgSiz
    BY ParserAssumption
  <2>2. <<0>> \in Seq(Int) /\ Len(<<0>>) = 1 /\ NUL \in Byte
    BY DEF NUL, Byte
  <2>3. v0 \in [priv : {b}, arg : Seq(Int), mode : Byte] /\ v0.arg = <<0>>
    BY <2>2 DEF ParseStart
  <2> HIDE DEF v0
  <2> QED
    BY <2>1, <2>2, <2>3 DEF ParseStates
<1>4. \A q \in V, ch \in Byte : ParseStep(q, ch) \in V
  BY ParseStepTyped
<1> HIDE DEF V, v0
<1>5. v = [i \in 0..m |-> e(v, i)]
  <2> DEFINE step == [i \in 1..m |-> [q \in V |-> ParseStep(q, p[i])]]
  <2>1. step \in [1..m -> [V -> V]]
    BY <1>2, <1>4
  <2>2. PICK g \in [0..m -> V] : g[0] = v0 /\ \A i \in 1..m : g[i] = step[i][g[i - 1]]
    <3> HIDE DEF step, m
    <3>1. Recursive(m, V, v0, step)
      BY <1>2, <1>3, <2>1, RecursionExists
    <3> QED
      BY <3>1 DEF Recursive
  <2>3. \A i \in 0..m : g[i] = e(g, i)
    <3> TAKE i \in 0..m
    <3>1. CASE i = 0
      BY <2>2, <3>1
    <3>2. CASE i # 0
      <4>1. i \in 1..m /\ i - 1 \in 0..m
        BY <1>2, <3>2
      <4>2. g[i - 1] \in V
        BY <2>2, <4>1
      <4> QED
        BY <2>2, <3>2, <4>1, <4>2
    <3> QED
      BY <3>1, <3>2
  <2>4. g = [i \in 0..m |-> e(g, i)]
    <3> HIDE DEF e, m
    <3> QED
      BY <2>2, <2>3
  <2> HIDE DEF e, m
  <2> QED
    BY <2>4
<1> HIDE DEF v
<1>6. \A i \in 0..m : v[i] = e(v, i)
  <2> HIDE DEF e, m
  <2> QED
    BY <1>5
<1>7. v[0] = v0 /\ \A i \in 1..m : v[i] = ParseStep(v[i - 1], p[i])
  BY <1>2, <1>6
<1>8. \A i \in 0..m : v[i] \in V
  <2> DEFINE S == {i \in 0..m : v[i] \in V}
  <2>1. 0 \in S
    BY <1>2, <1>3, <1>7
  <2>2. \A i \in 0..(m - 1) : i \in S => i + 1 \in S
    <3> SUFFICES ASSUME NEW i \in 0..(m - 1), v[i] \in V PROVE v[i + 1] \in V /\ i + 1 \in 0..m
      OBVIOUS
    <3>1. i + 1 \in 1..m /\ i + 1 \in 0..m /\ (i + 1) - 1 = i
      BY <1>2
    <3>2. v[i + 1] = ParseStep(v[i], p[i + 1]) /\ p[i + 1] \in Byte
      BY <1>2, <1>7, <3>1
    <3> QED
      BY <1>4, <3>1, <3>2
  <2> HIDE DEF S, m
  <2>3. 0..m \subseteq S
    BY <1>2, <2>1, <2>2, IntervalInduction
  <2> QED
    BY <2>3 DEF S
<1> QED
  BY <1>1, <1>7, <1>8 DEF V, v0

-----------------------------------------------------------------------------
(* The arguments csiparse finds are the ones written.                      *)

(* The first i characters of p, cut at their semicolons: e[1..n-1] are the *)
(* places of these.                                                        *)
CutTo(p, i, n, e) ==
  /\ e \in [0..n -> 0..(i + 1)]
  /\ e[0] = 0 /\ e[n] = i + 1
  /\ \A k \in 1..n : e[k - 1] < e[k]
  /\ \A k \in 0..(n - 1) : e[k] <= i
  /\ \A x \in 1..i : p[x] = Semi <=> \E k \in 1..(n - 1) : e[k] = x

Field(p, e, k) == Decimal(p, e[k - 1] + 1, e[k] - 1)
Fits(p, e, a) == \A k \in 1..Len(a) : Field(p, e, k) <= IntMax => a[k] = Field(p, e, k)

(* The arguments a are what the first i characters of p say.               *)
ReadTo(p, i, a) == \E e : CutTo(p, i, Len(a), e) /\ Fits(p, e, a)
PlainTo(p, i) == \A x \in 1..i : Digit(p[x]) \/ p[x] = Semi

(* A string of bytes is one of numbers.                                    *)
LEMMA BytesAreInts == ASSUME NEW p \in Seq(Byte) PROVE p \in Seq(Int)
<1>1. Byte \subseteq Int
  BY DEF Byte
<1> QED
  BY <1>1, SeqMonotonic

(* Digits and semicolons make a number.                                    *)
LEMMA DecimalNat ==
  ASSUME NEW p \in Seq(Byte), NEW i \in 1..(Len(p) + 1), NEW j \in (i - 1)..Len(p), PlainTo(p, j)
  PROVE  Decimal(p, i, j) \in Nat
<1> DEFINE d == j - (i - 1)
           S == {k \in 0..d : Decimal(p, i, (i - 1) + k) \in Nat}
<1>1. p \in Seq(Int)
  BY BytesAreInts
<1>2. d \in Nat /\ Len(p) \in Nat /\ i \in Int /\ j \in Int
  OBVIOUS
<1>3. 0 \in S
  BY <1>1, <1>2, DecimalDef
<1>4. ASSUME NEW k \in 0..(d - 1), k \in S PROVE k + 1 \in S
  <2> DEFINE x == i + k
  <2>1. x \in i..Len(p) /\ x - 1 = (i - 1) + k /\ x = (i - 1) + (k + 1) /\ x \in 1..j
    BY <1>2
  <2>2. Decimal(p, i, x) = (Decimal(p, i, x - 1) * 10) + (p[x] - Zero)
    BY <1>1, <2>1, DecimalDef
  <2>3. p[x] - Zero \in Nat
    <3>1. p[x] \in Int /\ (p[x] \in 48..57 \/ p[x] = 59)
      BY <1>1, <1>2, <2>1 DEF PlainTo, Digit, Semi
    <3> DEFINE c == p[x]
    <3>2. c \in Int /\ (c \in 48..57 \/ c = 59)
      BY <3>1
    <3> HIDE DEF c
    <3>3. c - Zero \in Nat
      BY <3>2 DEF Zero
    <3> QED
      BY <3>3 DEF c
  <2>4. Decimal(p, i, x - 1) \in Nat
    BY <1>4, <2>1
  <2> HIDE DEF x
  <2>5. Decimal(p, i, x) \in Nat
    BY <2>2, <2>3, <2>4
  <2>6. k + 1 \in 0..d
    BY <1>2
  <2> QED
    BY <2>1, <2>5, <2>6
<1> HIDE DEF S
<1>5. 0..d \subseteq S
  BY <1>2, <1>3, <1>4, IntervalInduction
<1>6. d \in S
  BY <1>2, <1>5
<1>7. (i - 1) + d = j
  BY <1>2
<1> QED
  BY <1>6, <1>7 DEF S

(* Before the first character the only argument is 0.                      *)
LEMMA ReadStart ==
  ASSUME NEW p \in Seq(Byte)
  PROVE  ReadTo(p, 0, <<0>>)
<1> DEFINE e == [k \in 0..1 |-> k]
<1>1. Len(<<0>>) = 1 /\ <<0>>[1] = 0
  OBVIOUS
<1>2. CutTo(p, 0, 1, e)
  BY DEF CutTo
<1>3. Decimal(p, 1, 0) = 0
  <2>1. p \in Seq(Int) /\ 1 \in 1..(Len(p) + 1)
    BY BytesAreInts
  <2>2. Decimal(p, 1, 1 - 1) = 0
    BY <2>1, DecimalDef
  <2> QED
    BY <2>2
<1>4. Field(p, e, 1) = 0
  BY <1>3 DEF Field
<1>5. Fits(p, e, <<0>>)
  BY <1>1, <1>4 DEF Fits
<1> QED
  BY <1>1, <1>2, <1>5 DEF ReadTo

(* A digit goes to the last argument.                                      *)
LEMMA ReadDigit ==
  ASSUME NEW p \in Seq(Byte), NEW i \in 0..(Len(p) - 1), PlainTo(p, i),
         NEW a \in Seq(Int), Len(a) >= 1, ReadTo(p, i, a), Digit(p[i + 1]),
         NEW r, r = [a EXCEPT ![Len(a)] = Wrapped((a[Len(a)] * 10) + (p[i + 1] - Zero))]
  PROVE  ReadTo(p, i + 1, r)
<1> DEFINE n == Len(a)
           v == Wrapped((a[n] * 10) + (p[i + 1] - Zero))
<1>1. n \in Nat /\ n >= 1 /\ Len(p) \in Nat /\ i \in Nat /\ i + 1 \in 1..Len(p)
  OBVIOUS
<1>2. PICK e : CutTo(p, i, n, e) /\ Fits(p, e, a)
  BY DEF ReadTo
<1>3. /\ e \in [0..n -> 0..(i + 1)] /\ e[0] = 0 /\ e[n] = i + 1
      /\ \A k \in 1..n : e[k - 1] < e[k]
      /\ \A k \in 0..(n - 1) : e[k] <= i
      /\ \A x \in 1..i : p[x] = Semi <=> \E k \in 1..(n - 1) : e[k] = x
  BY <1>2 DEF CutTo
<1>4. p[i + 1] # Semi /\ p[i + 1] - Zero \in 0..9 /\ p[i + 1] \in Int
  <2> DEFINE c == p[i + 1]
  <2>1. c \in 48..57
    BY DEF Digit
  <2> HIDE DEF c
  <2>2. c # Semi /\ c - Zero \in 0..9 /\ c \in Int
    BY <2>1 DEF Semi, Zero
  <2> QED
    BY <2>2 DEF c
<1>5. Len(r) = n /\ \A k \in 1..n : r[k] = IF k = n THEN v ELSE a[k]
  BY <1>1
<1>8. \A k \in 0..n : e[k] \in 0..(i + 1) /\ e[k] \in Int
  <2>1. e \in [0..n -> 0..(i + 1)]
    BY <1>3
  <2> HIDE DEF n
  <2>2. \A k \in 0..n : e[k] \in 0..(i + 1)
    BY <2>1
  <2> QED
    BY <2>2
<1> DEFINE f == [k \in 0..n |-> IF k = n THEN i + 2 ELSE e[k]]
<1>6. CutTo(p, i + 1, n, f)
  <2>1. f \in [0..n -> 0..((i + 1) + 1)]
    BY <1>1, <1>3
  <2>2. f[0] = 0 /\ f[n] = (i + 1) + 1
    BY <1>1, <1>3
  <2>3. \A k \in 0..(n - 1) : f[k] = e[k] /\ f[k] <= i /\ f[k] <= i + 1
    <3> SUFFICES ASSUME NEW k \in 0..(n - 1) PROVE e[k] <= i /\ e[k] <= i + 1
      BY <1>1
    <3>1. e[k] \in Int /\ e[k] <= i
      BY <1>1, <1>3, <1>8
    <3> QED
      BY <1>1, <3>1
  <2>4. \A k \in 1..n : f[k - 1] < f[k]
    <3> TAKE k \in 1..n
    <3>4. k - 1 \in 0..(n - 1) /\ k - 1 \in 0..n
      BY <1>1
    <3>1. k - 1 \in 0..(n - 1) /\ f[k - 1] = e[k - 1] /\ e[k - 1] <= i /\ e[k - 1] \in Int
      <4> HIDE DEF f, n
      <4> QED
        BY <1>3, <1>8, <2>3, <3>4
    <3>2. CASE k = n
      BY <1>1, <3>1, <3>2
    <3>3. CASE k # n
      BY <1>1, <1>3, <3>1, <3>3
    <3> QED
      BY <3>2, <3>3
  <2>5. \A x \in 1..(i + 1) : p[x] = Semi <=> \E k \in 1..(n - 1) : f[k] = x
    <3>1. \A k \in 1..(n - 1) : f[k] = e[k] /\ e[k] # i + 1
      <4> TAKE k \in 1..(n - 1)
      <4>1. k \in 0..(n - 1)
        BY <1>1
      <4> HIDE DEF f
      <4> QED
        BY <1>1, <1>3, <2>3, <4>1
    <3> HIDE DEF f
    <3> TAKE x \in 1..(i + 1)
    <3>2. CASE x = i + 1
      BY <1>4, <3>1, <3>2
    <3>3. CASE x # i + 1
      <4>1. x \in 1..i
        BY <1>1, <3>3
      <4> QED
        BY <1>3, <3>1, <4>1
    <3> QED
      BY <3>2, <3>3
  <2> HIDE DEF f
  <2> QED
    BY <2>1, <2>2, <2>3, <2>4, <2>5 DEF CutTo
<1>7. Fits(p, f, r)
  <2> SUFFICES ASSUME NEW k \in 1..n, Field(p, f, k) <= IntMax PROVE r[k] = Field(p, f, k)
    BY <1>5 DEF Fits
  <2>1. CASE k # n
    <3>1. f[k] = e[k] /\ f[k - 1] = e[k - 1]
      BY <1>1, <2>1
    <3>2. Field(p, f, k) = Field(p, e, k)
      BY <3>1 DEF Field
    <3>3. a[k] = Field(p, e, k)
      BY <1>2, <3>2 DEF Fits
    <3> QED
      BY <1>5, <2>1, <3>2, <3>3
  <2>2. CASE k = n
    <3> DEFINE s == e[n - 1] + 1
               V == Decimal(p, s, i)
               W == Decimal(p, s, i + 1)
    <3>1. s \in 1..(i + 1) /\ s \in 1..(Len(p) + 1) /\ i \in (s - 1)..Len(p) /\ i + 1 \in s..Len(p)
      <4>1. n - 1 \in 0..(n - 1) /\ n - 1 \in 0..n
        BY <1>1
      <4> DEFINE c == e[n - 1]
                 l == Len(p)
      <4>2. c \in 0..(i + 1) /\ c <= i
        BY <1>3, <4>1
      <4>3. l \in Nat /\ i \in Nat /\ i + 1 <= l
        BY <1>1
      <4> HIDE DEF c, l
      <4>4. c + 1 \in 1..(i + 1) /\ c + 1 \in 1..(l + 1) /\ i \in ((c + 1) - 1)..l /\ i + 1 \in (c + 1)..l
        BY <4>2, <4>3
      <4> QED
        BY <4>4 DEF c, l
    <3>2. Field(p, f, n) = W
      <4>1. f[n] - 1 = i + 1 /\ f[n - 1] = e[n - 1]
        BY <1>1
      <4> HIDE DEF f
      <4> QED
        BY <4>1 DEF Field
    <3>3. Field(p, e, n) = V
      <4>1. e[n] - 1 = i
        BY <1>1, <1>3
      <4> QED
        BY <4>1 DEF Field
    <3> HIDE DEF s
    <3>4. V \in Nat
      BY <3>1, DecimalNat
    <3>5. W = (V * 10) + (p[i + 1] - Zero)
      <4>1. p \in Seq(Int)
        BY BytesAreInts
      <4>2. \A j \in s..Len(p) : Decimal(p, s, j) = (Decimal(p, s, j - 1) * 10) + (p[j] - Zero)
        BY <3>1, <4>1, DecimalDef
      <4>3. (i + 1) - 1 = i
        BY <1>1
      <4> QED
        BY <3>1, <4>2, <4>3
    <3>6. n \in 1..Len(a)
      BY <1>1
    <3>7. V <= IntMax => a[n] = V
      BY <1>2, <3>3, <3>6 DEF Fits
    <3>8. W <= IntMax
      BY <2>2, <3>2
    <3> DEFINE d == p[i + 1] - Zero
    <3>9. d \in 0..9 /\ W = (V * 10) + d
      BY <1>4, <3>5
    <3> HIDE DEF V, W, d
    <3>10. W \in Nat /\ V <= W
      BY <3>4, <3>9
    <3>11. V <= IntMax
      BY <3>4, <3>8, <3>10, ParserAssumption
    <3>12. v = Wrapped(W)
      BY <3>7, <3>9, <3>11 DEF d
    <3>13. Wrapped(W) = W
      BY <3>8, <3>10, WrappedSmall
    <3> QED
      BY <1>5, <2>2, <3>2, <3>12, <3>13 DEF W
  <2> QED
    BY <2>1, <2>2
<1> QED
  BY <1>5, <1>6, <1>7 DEF ReadTo

(* A semicolon opens an argument that is 0.                                *)
LEMMA ReadSemi ==
  ASSUME NEW p \in Seq(Byte), NEW i \in 0..(Len(p) - 1),
         NEW a \in Seq(Int), Len(a) >= 1, ReadTo(p, i, a), p[i + 1] = Semi
  PROVE  ReadTo(p, i + 1, Append(a, 0))
<1> DEFINE n == Len(a)
           r == Append(a, 0)
<1>1. n \in Nat /\ n >= 1 /\ Len(p) \in Nat /\ i \in Nat /\ i + 1 \in 1..Len(p)
  OBVIOUS
<1>2. PICK e : CutTo(p, i, n, e) /\ Fits(p, e, a)
  BY DEF ReadTo
<1>3. /\ e[0] = 0 /\ e[n] = i + 1
      /\ \A k \in 1..n : e[k - 1] < e[k]
      /\ \A k \in 0..(n - 1) : e[k] <= i
      /\ \A x \in 1..i : p[x] = Semi <=> \E k \in 1..(n - 1) : e[k] = x
  BY <1>2 DEF CutTo
<1>4. \A k \in 0..n : e[k] \in 0..(i + 1) /\ e[k] \in Int
  <2>1. e \in [0..n -> 0..(i + 1)]
    BY <1>2 DEF CutTo
  <2> HIDE DEF n
  <2>2. \A k \in 0..n : e[k] \in 0..(i + 1)
    BY <2>1
  <2> QED
    BY <2>2
<1>5. Len(r) = n + 1 /\ \A k \in 1..(n + 1) : r[k] = IF k = n + 1 THEN 0 ELSE a[k]
  BY <1>1
<1> DEFINE f == [k \in 0..(n + 1) |-> IF k = n + 1 THEN i + 2 ELSE e[k]]
<1>6. \A k \in 0..n : f[k] = e[k]
  BY <1>1
<1>7. f[n + 1] = i + 2 /\ DOMAIN f = 0..(n + 1)
  BY <1>1
<1>8. f \in [0..(n + 1) -> 0..((i + 1) + 1)]
  <2>1. \A k \in 0..(n + 1) : f[k] \in 0..((i + 1) + 1)
    BY <1>1, <1>4
  <2> QED
    BY <2>1
<1> HIDE DEF f, r, n
<1>9. CutTo(p, i + 1, n + 1, f)
  <2>1. f[0] = 0 /\ f[n + 1] = (i + 1) + 1
    BY <1>1, <1>3, <1>6, <1>7
  <2>2. \A k \in 0..((n + 1) - 1) : f[k] <= i + 1
    BY <1>1, <1>4, <1>6
  <2>3. \A k \in 1..(n + 1) : f[k - 1] < f[k]
    <3> TAKE k \in 1..(n + 1)
    <3>1. CASE k = n + 1
      <4>1. k - 1 = n /\ n \in 0..n /\ f[k - 1] = i + 1 /\ f[k] = i + 2
        BY <1>1, <1>3, <1>6, <1>7, <3>1
      <4> QED
        BY <1>1, <4>1
    <3>2. CASE k # n + 1
      <4>1. k \in 1..n /\ k \in 0..n /\ k - 1 \in 0..n
        BY <1>1, <3>2
      <4> QED
        BY <1>3, <1>6, <4>1
    <3> QED
      BY <3>1, <3>2
  <2>4. \A x \in 1..(i + 1) : p[x] = Semi <=> \E k \in 1..((n + 1) - 1) : f[k] = x
    <3> TAKE x \in 1..(i + 1)
    <3>1. (n + 1) - 1 = n /\ n \in 1..n /\ n \in 0..n
      BY <1>1
    <3>2. \A k \in 1..n : f[k] = e[k]
      BY <1>1, <1>6
    <3>3. CASE x = i + 1
      <4>1. f[n] = x
        BY <1>3, <3>1, <3>2, <3>3
      <4> QED
        BY <3>1, <3>3, <4>1
    <3>4. CASE x # i + 1
      <4>1. x \in 1..i
        BY <1>1, <3>4
      <4>2. (\E k \in 1..n : f[k] = x) <=> \E k \in 1..(n - 1) : e[k] = x
        <5>1. f[n] # x
          BY <1>3, <3>1, <3>2, <3>4
        <5>2. \A k \in 1..n : k = n \/ k \in 1..(n - 1)
          BY <1>1
        <5>3. \A k \in 1..(n - 1) : k \in 1..n
          BY <1>1
        <5> QED
          BY <3>2, <5>1, <5>2, <5>3
      <4> QED
        BY <1>3, <3>1, <4>1, <4>2
    <3> QED
      BY <3>3, <3>4
  <2> QED
    BY <1>8, <2>1, <2>2, <2>3, <2>4 DEF CutTo
<1>10. Fits(p, f, r)
  <2> SUFFICES ASSUME NEW k \in 1..(n + 1), Field(p, f, k) <= IntMax PROVE r[k] = Field(p, f, k)
    BY <1>5 DEF Fits
  <2>1. CASE k # n + 1
    <3>1. k \in 1..n /\ f[k] = e[k] /\ f[k - 1] = e[k - 1]
      BY <1>1, <1>6, <2>1
    <3>2. Field(p, f, k) = Field(p, e, k)
      BY <3>1 DEF Field
    <3>3. a[k] = Field(p, e, k)
      BY <1>2, <3>1, <3>2 DEF Fits, n
    <3> QED
      BY <1>5, <2>1, <3>2, <3>3
  <2>2. CASE k = n + 1
    <3>1. f[k] - 1 = i + 1 /\ f[k - 1] + 1 = i + 2
      BY <1>1, <1>3, <1>6, <1>7, <2>2
    <3>2. Decimal(p, i + 2, (i + 2) - 1) = 0
      <4>1. p \in Seq(Int) /\ i + 2 \in 1..(Len(p) + 1)
        BY <1>1, BytesAreInts
      <4> QED
        BY <4>1, DecimalDef
    <3>3. (i + 2) - 1 = i + 1
      BY <1>1
    <3>4. Field(p, f, k) = 0
      BY <3>1, <3>2, <3>3 DEF Field
    <3> QED
      BY <1>5, <2>2, <3>4
  <2> QED
    BY <2>1, <2>2
<1> QED
  BY <1>5, <1>9, <1>10 DEF ReadTo, r

(* While csiparse has found no name, the characters before are digits and  *)
(* semicolons and the arguments are what they say.                         *)
LEMMA ParsingReads ==
  ASSUME NEW s \in Seq(Byte), NEW b, NEW p \in Seq(Byte), Len(p) <= Len(s),
         \A x \in 1..Len(p) : p[x] = s[x] /\ p[x] # NUL
  PROVE  \A i \in 0..Len(p) : Parsing(s, b)[i].mode = NUL =>
           PlainTo(p, i) /\ ReadTo(p, i, Parsing(s, b)[i].arg)
<1> DEFINE m == Len(p)
           Q(i) == Parsing(s, b)[i]
           Good(i) == Q(i).mode = NUL => PlainTo(p, i) /\ ReadTo(p, i, Q(i).arg)
           S == {i \in 0..m : Good(i)}
<1>1. m \in Nat /\ Len(s) \in Nat /\ m <= Len(s)
  OBVIOUS
<1>2. \A i \in 0..Len(s) : Q(i) \in ParseStates(b)
  BY ParsingDef
<1>3. \A i \in 1..Len(s) : Q(i) = ParseStep(Q(i - 1), s[i])
  BY ParsingDef
<1>4. 0 \in S
  <2>1. Q(0).arg = <<0>>
    <3>1. Q(0) = ParseStart(b)
      BY ParsingDef
    <3> HIDE DEF Q
    <3> QED
      BY <3>1 DEF ParseStart
  <2>2. PlainTo(p, 0) /\ ReadTo(p, 0, <<0>>)
    BY ReadStart DEF PlainTo
  <2> QED
    BY <1>1, <2>1, <2>2
<1> HIDE DEF Q
<1>5. ASSUME NEW i \in 0..(m - 1), i \in S PROVE i + 1 \in S
  <2>1. i + 1 \in 0..m /\ i + 1 \in 1..m /\ i + 1 \in 1..Len(s) /\ i \in 0..Len(s) /\ (i + 1) - 1 = i
    BY <1>1
  <2> SUFFICES ASSUME Q(i + 1).mode = NUL PROVE PlainTo(p, i + 1) /\ ReadTo(p, i + 1, Q(i + 1).arg)
    BY <2>1
  <2> DEFINE q == Q(i)
             r == Q(i + 1)
             ch == p[i + 1]
  <2>2. ch = s[i + 1] /\ ch # NUL /\ ch \in Byte
    BY <2>1
  <2>3. r = ParseStep(q, ch) /\ q \in ParseStates(b)
    BY <1>2, <1>3, <2>1, <2>2
  <2>4. r.mode = NUL
    OBVIOUS
  <2> HIDE DEF q, r, ch
  <2>5. q.mode = NUL
    BY <2>2, <2>3, <2>4, ParseStepTyped
  <2>6. PlainTo(p, i) /\ ReadTo(p, i, q.arg)
    BY <1>5, <2>5 DEF q
  <2>7. q.arg \in Seq(Int) /\ Len(q.arg) >= 1
    BY <2>3 DEF ParseStates
  <2>8. TakesDigit(q, r, ch) \/ TakesSemi(q, r, ch)
    <3>1. TakesDigit(q, r, ch) \/ TakesSemi(q, r, ch) \/ TakesName(q, r, ch)
      BY <2>2, <2>3, <2>5, ParseStepTyped
    <3>2. ~TakesName(q, r, ch)
      BY <2>2, <2>4 DEF TakesName
    <3> QED
      BY <3>1, <3>2
  <2>9. PlainTo(p, i + 1)
    <3>1. Digit(ch) \/ ch = Semi
      BY <2>8 DEF TakesDigit, TakesSemi
    <3>2. \A x \in 1..(i + 1) : x = i + 1 \/ x \in 1..i
      BY <1>1
    <3> QED
      BY <2>6, <3>1, <3>2 DEF PlainTo, ch
  <2>10. ReadTo(p, i + 1, r.arg)
    <3> i \in 0..(Len(p) - 1)
      OBVIOUS
    <3>1. CASE TakesDigit(q, r, ch)
      BY <2>6, <2>7, <3>1, ReadDigit DEF TakesDigit, ch
    <3>2. CASE TakesSemi(q, r, ch)
      <4>1. ReadTo(p, i + 1, Append(q.arg, 0))
        BY <2>6, <2>7, <3>2, ReadSemi DEF TakesSemi, ch
      <4> QED
        BY <3>2, <4>1 DEF TakesSemi
    <3> QED
      BY <2>8, <3>1, <3>2
  <2> QED
    BY <2>9, <2>10 DEF r
<1> HIDE DEF S, m
<1>6. 0..m \subseteq S
  BY <1>1, <1>4, <1>5, IntervalInduction
<1> QED
  BY <1>6 DEF S, Q, m

(* The name is the first character that is not taken for an argument.      *)
NamedAt(s, b, i, j) ==
  /\ Parsing(s, b)[i].mode = s[j] /\ Parsing(s, b)[j - 1].mode = NUL
  /\ Parsing(s, b)[i].arg = Parsing(s, b)[j - 1].arg

(* csiparse stops at the name.                                             *)
LEMMA ParsingNames ==
  ASSUME NEW s \in Seq(Byte), NEW b
  PROVE  \A i \in 0..Len(s) : Parsing(s, b)[i].mode # NUL => \E j \in 1..i : NamedAt(s, b, i, j)
<1> DEFINE m == Len(s)
           Q(i) == Parsing(s, b)[i]
           S == {i \in 0..m : Q(i).mode # NUL => \E j \in 1..i : NamedAt(s, b, i, j)}
<1>1. m \in Nat
  OBVIOUS
<1>2. \A i \in 0..m : Q(i) \in ParseStates(b)
  BY ParsingDef
<1>3. \A i \in 1..m : Q(i) = ParseStep(Q(i - 1), s[i])
  BY ParsingDef
<1>4. 0 \in S
  <2>1. Q(0).mode = NUL
    <3>1. Q(0) = ParseStart(b)
      BY ParsingDef
    <3> HIDE DEF Q
    <3> QED
      BY <3>1 DEF ParseStart
  <2> QED
    BY <1>1, <2>1
<1> HIDE DEF Q
<1>5. ASSUME NEW i \in 0..(m - 1), i \in S PROVE i + 1 \in S
  <2>1. i + 1 \in 0..m /\ i + 1 \in 1..m /\ i \in 0..m /\ (i + 1) - 1 = i
    BY <1>1
  <2> SUFFICES ASSUME Q(i + 1).mode # NUL PROVE \E j \in 1..(i + 1) : NamedAt(s, b, i + 1, j)
    BY <2>1
  <2> DEFINE q == Q(i)
             r == Q(i + 1)
             ch == s[i + 1]
  <2>2. ch \in Byte
    BY <2>1
  <2>3. r = ParseStep(q, ch) /\ q \in ParseStates(b)
    BY <1>2, <1>3, <2>1
  <2>4. r.mode # NUL
    OBVIOUS
  <2>5. CASE q.mode = NUL
    <3> HIDE DEF q, r, ch
    <3>1. TakesDigit(q, r, ch) \/ TakesSemi(q, r, ch) \/ TakesName(q, r, ch)
      BY <2>2, <2>3, <2>5, ParseStepTyped
    <3>2. r.mode = ch /\ r.arg = q.arg
      BY <2>4, <3>1 DEF TakesDigit, TakesSemi, TakesName
    <3>3. NamedAt(s, b, i + 1, i + 1)
      BY <2>1, <2>5, <3>2 DEF NamedAt, Q, q, r, ch
    <3> QED
      BY <1>1, <3>3
  <2>6. CASE q.mode # NUL
    <3>1. r = q
      <4> HIDE DEF q, r, ch
      <4> QED
        BY <2>2, <2>3, <2>6, ParseStepTyped
    <3>2. PICK j \in 1..i : NamedAt(s, b, i, j)
      BY <1>5, <2>6
    <3>3. NamedAt(s, b, i + 1, j)
      BY <3>1, <3>2 DEF NamedAt, Q
    <3>4. j \in 1..(i + 1)
      BY <1>1
    <3> QED
      BY <3>3, <3>4
  <2> QED
    BY <2>5, <2>6
<1> HIDE DEF S, m
<1>6. 0..m \subseteq S
  BY <1>1, <1>4, <1>5, IntervalInduction
<1> QED
  BY <1>6 DEF S, Q, m

(* A whole sequence: its name is its last character when that is the only  *)
(* final one.                                                              *)
LEMMA ParsingWhole ==
  ASSUME NEW s \in Seq(Byte), NEW b, NEW p \in Seq(Byte),
         \A x \in 1..Len(s) : s[x] # NUL,
         \A x \in 1..(Len(s) - 1) : ~Final(s[x]),
         Parsing(s, b)[Len(s)].mode \in Known,
         Len(s) >= 1 => Len(p) = Len(s) - 1 /\ \A x \in 1..Len(p) : p[x] = s[x]
  PROVE  /\ Len(s) >= 1
         /\ Parsing(s, b)[Len(s)].mode = s[Len(s)]
         /\ PlainTo(p, Len(p)) /\ ReadTo(p, Len(p), Parsing(s, b)[Len(s)].arg)
<1> DEFINE m == Len(s)
           z == Parsing(s, b)[m]
<1>1. m \in Nat /\ m \in 0..m
  OBVIOUS
<1>2. z.mode \in 64..126 /\ z.mode # NUL
  <2>1. z.mode \in Known
    OBVIOUS
  <2> DEFINE c == z.mode
  <2>2. c \in Known
    BY <2>1
  <2> HIDE DEF c
  <2>3. c \in 64..126 /\ c # NUL
    BY <2>2 DEF Known, NUL
  <2> QED
    BY <2>3 DEF c
<1>3. PICK j \in 1..m : NamedAt(s, b, m, j)
  BY <1>1, <1>2, ParsingNames
<1>4. Final(s[j])
  BY <1>2, <1>3 DEF NamedAt, Final
<1>5. j = m
  BY <1>1, <1>3, <1>4
<1>6. Len(p) = m - 1 /\ \A x \in 1..Len(p) : p[x] = s[x] /\ p[x] # NUL
  BY <1>1, <1>3
<1>7. Parsing(s, b)[m - 1].mode = NUL /\ Parsing(s, b)[m - 1].arg = z.arg /\ z.mode = s[m]
  BY <1>3, <1>5 DEF NamedAt
<1>8. m - 1 \in 0..Len(p) /\ Len(p) <= Len(s) /\ m >= 1
  BY <1>1, <1>3, <1>6
<1>9. PlainTo(p, m - 1) /\ ReadTo(p, m - 1, Parsing(s, b)[m - 1].arg)
  BY <1>6, <1>7, <1>8, ParsingReads
<1> QED
  BY <1>6, <1>7, <1>8, <1>9

(* What SentIsExecuted says of a sequence b, its final character included. *)
Private(b) == b # <<>> /\ b[1] = Query
Parameters(b) == SubSeq(b, IF Private(b) THEN 2 ELSE 1, Len(b) - 1)
AsSent(b, q) ==
  /\ Len(b) >= 1
  /\ PlainTo(Parameters(b), Len(Parameters(b))) /\ Len(q.arg) <= EscArgSiz
  /\ q.mode = b[Len(b)]
  /\ ReadTo(Parameters(b), Len(Parameters(b)), q.arg)

(* csiparse finds the function sent, when it finds one the code knows.     *)
LEMMA ParsedAsSent ==
  ASSUME NEW b \in Seq(Byte), b # <<>>,
         \A x \in 1..Len(b) : ~Control(b[x]),
         \A x \in 1..(Len(b) - 1) : ~Final(b[x])
  PROVE  /\ csiparse(b) \in ParseStates(Private(b))
         /\ csiparse(b).mode \in Known => AsSent(b, csiparse(b))
<1> DEFINE v == Private(b)
           s == IF v THEN Tail(b) ELSE b
           p == Parameters(b)
           q == Parsing(s, v)[Len(s)]
<1>1. Len(b) \in Nat /\ Len(b) >= 1 /\ Head(b) = b[1]
  OBVIOUS
<1>2. csiparse(b) = q
  <2>1. v <=> Head(b) = Query
    BY <1>1 DEF Private
  <2> DEFINE t == IF Head(b) = Query THEN Tail(b) ELSE b
  <2>2. csiparse(b) = Parsing(t, Head(b) = Query)[Len(t)]
    BY DEF csiparse, Parsing, ParseStart
  <2>3. v = (Head(b) = Query)
    BY <2>1 DEF Private
  <2>4. t = s
    BY <2>3
  <2> HIDE DEF t, s, v
  <2> QED
    BY <2>2, <2>3, <2>4
<1>3. s \in Seq(Byte) /\ Len(s) \in Nat
  OBVIOUS
<1>4. \A x \in 1..Len(s) : s[x] # NUL
  <2>1. CASE v
    <3>1. Len(s) = Len(b) - 1 /\ \A x \in 1..Len(s) : s[x] = b[x + 1]
      BY <1>1, <2>1
    <3> QED
      BY <1>1, <3>1 DEF Control, NUL
  <2>2. CASE ~v
    BY <2>2 DEF Control, NUL
  <2> QED
    BY <2>1, <2>2
<1>5. \A x \in 1..(Len(s) - 1) : ~Final(s[x])
  <2>1. CASE v
    <3>1. Len(s) = Len(b) - 1 /\ \A x \in 1..Len(s) : s[x] = b[x + 1]
      BY <1>1, <2>1
    <3> QED
      BY <1>1, <3>1
  <2>2. CASE ~v
    BY <2>2
  <2> QED
    BY <2>1, <2>2
<1>6. Len(s) >= 1 => /\ Len(p) = Len(s) - 1 /\ \A x \in 1..Len(p) : p[x] = s[x]
                     /\ s[Len(s)] = b[Len(b)]
  <2>1. CASE v
    <3>1. Len(s) = Len(b) - 1 /\ \A x \in 1..Len(s) : s[x] = b[x + 1]
      BY <1>1, <2>1
    <3>2. p = SubSeq(b, 2, Len(b) - 1)
      BY <2>1 DEF Parameters
    <3> QED
      BY <1>1, <3>1, <3>2
  <2>2. CASE ~v
    <3>1. p = SubSeq(b, 1, Len(b) - 1) /\ s = b
      BY <2>2 DEF Parameters
    <3> QED
      BY <1>1, <3>1
  <2> QED
    BY <2>1, <2>2
<1>7. p \in Seq(Byte)
  <2>1. \A x \in 1..Len(b) : b[x] \in Byte
    OBVIOUS
  <2>2. CASE v
    <3>1. p = SubSeq(b, 2, Len(b) - 1)
      BY <2>2 DEF Parameters
    <3> QED
      BY <1>1, <2>1, <3>1
  <2>3. CASE ~v
    <3>1. p = SubSeq(b, 1, Len(b) - 1)
      BY <2>3 DEF Parameters
    <3> QED
      BY <1>1, <2>1, <3>1
  <2> QED
    BY <2>2, <2>3
<1> HIDE DEF s, p, v
<1>8. q \in ParseStates(v)
  <2>1. Len(s) \in 0..Len(s)
    BY <1>3
  <2> QED
    BY <1>3, <2>1, ParsingDef
<1>9. ASSUME q.mode \in Known PROVE AsSent(b, q)
  <2>1. Len(s) >= 1 /\ q.mode = s[Len(s)] /\ PlainTo(p, Len(p)) /\ ReadTo(p, Len(p), q.arg)
    BY <1>3, <1>4, <1>5, <1>6, <1>7, <1>9, ParsingWhole
  <2>2. Len(q.arg) <= EscArgSiz
    <3>1. Len(q.arg) \in 1..EscArgSiz
      BY <1>8 DEF ParseStates
    <3> QED
      BY <3>1, ParserAssumption
  <2> HIDE DEF q
  <2> QED
    BY <1>1, <1>6, <2>1, <2>2 DEF AsSent, p
<1> HIDE DEF q
<1> QED
  BY <1>2, <1>8, <1>9 DEF v

(* While a sequence is open, csiescseq.buf holds what was sent of it, none *)
(* of it its end; the one that was executed is the one that was sent.      *)
ExecutedAsSent(b) == heard = <<LBracket>> \o b /\ AsSent(b, did) /\ did.priv = Private(b)
HeardInv ==
  /\ esc = {"START"} => heard = <<>>
  /\ "CSI" \in esc =>
       /\ heard = <<LBracket>> \o csibuf
       /\ \A x \in 1..Len(csibuf) : ~Final(csibuf[x]) /\ ~Control(csibuf[x])
  /\ Len(csi.arg) <= EscArgSiz
  /\ did.op = "csi" => \E b \in Seq(Byte) : ExecutedAsSent(b)

(* Such a sequence is what the property asks for.                          *)
LEMMA HeardExecuted == HeardInv => SentIsExecuted
<1> SUFFICES ASSUME HeardInv, did.op = "csi"
             PROVE  LET body == Tail(heard)
                        priv == body # <<>> /\ body[1] = Query
                        p == SubSeq(body, IF priv THEN 2 ELSE 1, Len(body) - 1)
                        n == Len(did.arg)
                    IN  /\ Len(heard) >= 2 /\ Head(heard) = LBracket
                        /\ \A i \in 1..Len(p) : Digit(p[i]) \/ p[i] = Semi
                        /\ n <= EscArgSiz
                        /\ did.mode = Last(heard) /\ did.priv = priv
                        /\ \E e \in Cuts(p, n) : \A k \in 1..n :
                             Decimal(p, e[k - 1] + 1, e[k] - 1) <= IntMax =>
                               did.arg[k] = Decimal(p, e[k - 1] + 1, e[k] - 1)
  BY Zenon DEF HeardInv, SentIsExecuted
<1> DEFINE body == Tail(heard)
           p == Parameters(body)
           a == did.arg
<1>1. PICK b \in Seq(Byte) : ExecutedAsSent(b)
  BY DEF HeardInv
<1>2. heard = <<LBracket>> \o b /\ AsSent(b, did) /\ did.priv = Private(b)
  BY <1>1, Zenon DEF ExecutedAsSent
<1>3. body = b /\ Head(heard) = LBracket /\ Len(heard) = Len(b) + 1 /\ Len(b) \in Nat
  BY <1>2
<1>4. Len(b) >= 1 /\ PlainTo(p, Len(p)) /\ Len(a) <= EscArgSiz /\ did.mode = b[Len(b)]
  BY <1>2, <1>3, Zenon DEF AsSent
<1>5. Last(heard) = b[Len(b)] /\ Len(heard) >= 2
  BY <1>2, <1>3, <1>4 DEF Last
<1>6. PICK e : CutTo(p, Len(p), Len(a), e) /\ Fits(p, e, a)
  <2>1. ReadTo(p, Len(p), a)
    BY <1>2, <1>3, Zenon DEF AsSent
  <2> HIDE DEF p, a
  <2> QED
    BY <2>1 DEF ReadTo
<1>7. e \in Cuts(p, Len(a))
  <2> HIDE DEF p, a
  <2> QED
    BY <1>6 DEF CutTo, Cuts
<1>8. did.priv = Private(body)
  BY <1>2, <1>3, Zenon
<1> HIDE DEF body
<1>9. \A k \in 1..Len(a) : Decimal(p, e[k - 1] + 1, e[k] - 1) <= IntMax =>
                             a[k] = Decimal(p, e[k - 1] + 1, e[k] - 1)
  <2> HIDE DEF p, a
  <2> QED
    BY <1>6, Zenon DEF Fits, Field
<1>10. \A i \in 1..Len(p) : Digit(p[i]) \/ p[i] = Semi
  BY <1>4, Zenon DEF PlainTo
<1> QED
  BY <1>3, <1>4, <1>5, <1>7, <1>8, <1>9, <1>10, Zenon DEF Private, Parameters, body

-----------------------------------------------------------------------------
(* The sequence in progress is kept as it was heard.                       *)

(* Nothing is executed, and no sequence is open afterwards.                *)
LEMMA HeardQuiet ==
  ASSUME Len(csi'.arg) <= EscArgSiz, did'.op # "csi",
         "CSI" \notin esc', esc' # {"START"}
  PROVE  HeardInv'
  BY DEF HeardInv

(* What a character of a control sequence does to what was heard of it.    *)
LEMMA HeardCsi ==
  ASSUME ParserInv, HeardInv, "CSI" \in esc, NEW ch \in Byte, ~Control(ch), CsiChar(ch), Hear(ch)
  PROVE  HeardInv'
<1>a. PICK b : b = csibuf'
  OBVIOUS
<1>1. esc = {"START", "CSI"} /\ csibuf \in Seq(Byte)
  BY DEF ParserInv, EscStates
<1>2. /\ b = Append(csibuf, ch) /\ b \in Seq(Byte) /\ b # <<>>
      /\ Len(b) = Len(csibuf) + 1 /\ Len(csibuf) \in Nat
  BY <1>a, <1>1 DEF CsiChar
<1>3. heard' = <<LBracket>> \o b
  <2>1. heard = <<LBracket>> \o csibuf
    BY DEF HeardInv
  <2>2. heard' = Append(heard, ch)
    BY <1>1 DEF Hear, Control, ESC, CAN, SUB
  <2> QED
    BY <1>1, <1>2, <2>1, <2>2
<1>4. \A x \in 1..Len(b) : ~Control(b[x]) /\ (x # Len(b) => ~Final(b[x]))
  <2> TAKE x \in 1..Len(b)
  <2>1. \A y \in 1..Len(csibuf) : ~Final(csibuf[y]) /\ ~Control(csibuf[y])
    BY DEF HeardInv
  <2>2. CASE x = Len(b)
    <3>1. b[x] = ch
      BY <1>1, <1>2, <2>2
    <3> QED
      BY <2>2, <3>1
  <2>3. CASE x # Len(b)
    <3>1. b[x] = csibuf[x] /\ x \in 1..Len(csibuf)
      BY <1>1, <1>2, <2>3
    <3> QED
      BY <2>1, <3>1
  <2> QED
    BY <2>2, <2>3
<1>5. CASE EndsAt(ch, Append(csibuf, ch))
  <2>1. esc' = {} /\ csi' = csiparse(b) /\ csihandle(csi')
    BY <1>a, <1>5 DEF CsiChar
  <2>2. csi' \in ParseStates(Private(b)) /\ (csi'.mode \in Known => AsSent(b, csi'))
    <3>1. \A x \in 1..Len(b) : ~Control(b[x])
      BY <1>4
    <3>2. \A x \in 1..(Len(b) - 1) : ~Final(b[x])
      BY <1>2, <1>4
    <3> QED
      BY <1>2, <2>1, <3>1, <3>2, ParsedAsSent
  <2>3. Len(csi'.arg) <= EscArgSiz
    <3>1. Len(csi'.arg) \in 1..EscArgSiz
      BY <2>2 DEF ParseStates
    <3> QED
      BY <3>1, ParserAssumption
  <2>4. /\ did'.arg = csi'.arg /\ did'.mode = csi'.mode /\ did'.priv = csi'.priv
        /\ did'.op = "csi" => csi'.mode \in Known
    BY <2>1, Zenon DEF csihandle
  <2>5. did'.op = "csi" => ExecutedAsSent(b)'
    <3> SUFFICES ASSUME did'.op = "csi"
                 PROVE  heard' = <<LBracket>> \o b /\ AsSent(b, did') /\ did'.priv = Private(b)
      BY Zenon DEF ExecutedAsSent, AsSent, Private, Parameters
    <3>1. AsSent(b, csi')
      BY <2>2, <2>4
    <3>2. AsSent(b, did')
      BY <2>4, <3>1, Zenon DEF AsSent
    <3>3. csi'.priv = Private(b)
      BY <2>2, Zenon DEF ParseStates
    <3> QED
      BY <1>3, <2>4, <3>2, <3>3, Zenon
  <2>6. did'.op = "csi" => \E c \in Seq(Byte) : ExecutedAsSent(c)'
    BY <1>2, <2>5
  <2>7. esc' # {"START"} /\ "CSI" \notin esc'
    BY <2>1
  <2> QED
    BY <2>3, <2>6, <2>7, Zenon DEF HeardInv
<1>6. CASE ~EndsAt(ch, Append(csibuf, ch))
  <2>1. esc' = esc /\ csi' = csi /\ did' = Nothing
    BY <1>6 DEF CsiChar
  <2>2. ~Final(ch)
    BY <1>6 DEF EndsAt
  <2>3. \A x \in 1..Len(csibuf') : ~Final(csibuf'[x]) /\ ~Control(csibuf'[x])
    <3>1. b[Len(b)] = ch
      BY <1>1, <1>2
    <3> QED
      BY <1>a, <1>4, <2>2, <3>1
  <2>4. Len(csi'.arg) <= EscArgSiz /\ esc' # {"START"} /\ did'.op # "csi"
    BY <1>1, <2>1 DEF HeardInv, Nothing
  <2> QED
    BY <1>a, <1>3, <2>3, <2>4 DEF HeardInv
<1> QED
  BY <1>5, <1>6

(* A control character, in the middle of a sequence or not.                *)
LEMMA HeardControl ==
  ASSUME ParserInv, HeardInv, "STR" \notin esc, NEW ch \in Byte, Control(ch), ControlChar(ch), Hear(ch)
  PROVE  HeardInv'
<1>1. did'.op # "csi"
  BY DEF ControlChar, Show, Nothing, Execute, Shown
<1>2. Len(csi.arg) <= EscArgSiz /\ Len(<<0>>) <= EscArgSiz
  BY ParserAssumption DEF HeardInv
<1>3. CASE ch = ESC
  <2>1. csi' = [priv |-> FALSE, arg |-> <<0>>, mode |-> NUL] /\ esc' = {"START"}
    BY <1>3 DEF ControlChar, Show, StartFresh, csireset, ESC, CAN, SUB, SO, SI, Executed, Ignored
  <2>2. heard' = <<>>
    BY <1>3 DEF Hear
  <2>3. Len(csi'.arg) <= EscArgSiz /\ "CSI" \notin esc'
    BY <1>2, <2>1
  <2> QED
    BY <1>1, <2>1, <2>2, <2>3 DEF HeardInv
<1>4. CASE ch \in {CAN, SUB}
  <2>1. /\ csi' = [priv |-> FALSE, arg |-> <<0>>, mode |-> NUL] /\ csibuf' = <<>> /\ esc' = esc
    BY <1>4 DEF ControlChar, Show, csireset, ESC, CAN, SUB, SO, SI, Executed, Ignored
  <2>2. heard' = IF "CSI" \in esc THEN <<LBracket>> ELSE heard
    BY <1>4 DEF Hear, ESC, CAN, SUB
  <2>3. Len(csi'.arg) <= EscArgSiz
    BY <1>2, <2>1
  <2>4. esc = {"START"} => heard = <<>>
    BY DEF HeardInv
  <2>5. esc' = {"START"} => heard' = <<>>
    BY <2>1, <2>2, <2>4
  <2>6. "CSI" \in esc' => /\ heard' = <<LBracket>> \o csibuf'
                          /\ \A x \in 1..Len(csibuf') : ~Final(csibuf'[x]) /\ ~Control(csibuf'[x])
    BY <2>1, <2>2
  <2> QED
    BY <1>1, <2>3, <2>5, <2>6 DEF HeardInv
<1>5. CASE ch \notin {ESC, CAN, SUB}
  <2>1. csi' = csi /\ csibuf' = csibuf /\ esc' = esc
    BY <1>5 DEF ControlChar, Show
  <2>2. heard' = heard
    BY <1>5 DEF Hear
  <2> QED
    BY <1>1, <2>1, <2>2 DEF HeardInv
<1> QED
  BY <1>3, <1>4, <1>5

(* The first character after ESC.                                          *)
LEMMA HeardStart ==
  ASSUME ParserInv, HeardInv, esc = {"START"}, NEW ch \in Byte, ~Control(ch), StartChar(ch), Hear(ch)
  PROVE  HeardInv'
<1>1. csibuf' = <<>> /\ csi' = csi
  BY DEF StartChar, ParserInv
<1>2. did'.op # "csi"
  <2>1. did' = Nothing \/ did' = [op |-> "reply"] \/ did' = Escape(ch)
    BY DEF StartChar
  <2> QED
    BY <2>1 DEF Nothing, Escape
<1>3. heard' = <<ch>>
  <2>1. heard = <<>>
    BY DEF HeardInv
  <2> QED
    BY <2>1 DEF Hear, Control, ESC, CAN, SUB
<1>4. Len(csi'.arg) <= EscArgSiz
  BY <1>1 DEF HeardInv
<1>5. esc' # {"START"} /\ ("CSI" \in esc' => ch = LBracket)
  <2>1. DOMAIN Opens = {LBracket, 35, LParen}
    BY DEF Opens
  <2>2. CASE ch \in DOMAIN Opens
    <3>1. esc' = {"START", Opens[ch]}
      <4>1. ch \notin StringTypes
        BY <2>1, <2>2 DEF StringTypes, LBracket, LParen
      <4>2. esc' = esc \cup {Opens[ch]}
        BY <2>2, <4>1 DEF StartChar
      <4> QED
        BY <4>2
    <3>2. Opens[ch] \in {"CSI", "ALTCHARSET", "TEST"} /\ (Opens[ch] = "CSI" => ch = LBracket)
      BY <2>2 DEF Opens
    <3> QED
      BY <3>1, <3>2
  <2>3. CASE ch \notin DOMAIN Opens
    <3>1. esc' = {} \/ esc' = {"START", "STR"}
      BY <2>3 DEF StartChar
    <3> QED
      BY <3>1
  <2> QED
    BY <2>2, <2>3
<1> QED
  BY <1>1, <1>2, <1>3, <1>4, <1>5 DEF HeardInv

(* Whatever the character, what is executed is what was sent.              *)
LEMMA HeardTputc ==
  ASSUME ParserInv, HeardInv, NEW ch \in Byte, tputc(ch)
  PROVE  HeardInv'
<1>1. Hear(ch) /\ Len(csi.arg) <= EscArgSiz
  BY DEF tputc, HeardInv
<1>2. CASE "STR" \in esc
  <2>1. esc = {"START", "STR"}
    BY <1>2 DEF ParserInv, EscStates
  <2>2. StrChar(ch)
    BY <1>2 DEF tputc
  <2>3. csi' = csi /\ did'.op # "csi" /\ esc' \in {{}, {"START", "STR"}, {"START", "STR_END"}}
    BY <2>1, <2>2 DEF StrChar, strhandle, Nothing, String
  <2> QED
    BY <1>1, <2>3, HeardQuiet
<1>3. CASE "STR" \notin esc /\ Control(ch)
  BY <1>1, <1>3, HeardControl DEF tputc
<1>4. CASE "STR" \notin esc /\ ~Control(ch)
  <2>1. CASE "START" \notin esc /\ Show(ch)
    <3>1. esc = {} /\ esc' = esc /\ csi' = csi /\ did'.op # "csi"
      BY <2>1 DEF ParserInv, EscStates, Show, Nothing, Shown
    <3> QED
      BY <1>1, <3>1, HeardQuiet
  <2>2. CASE "CSI" \in esc /\ CsiChar(ch)
    BY <1>1, <1>4, <2>2, HeardCsi
  <2>3. CASE "STR_END" \in esc /\ StrEnd(ch)
    <3>1. esc' = {} /\ csi' = csi /\ did'.op # "csi"
      BY <2>3 DEF StrEnd, strhandle, Nothing, String
    <3> QED
      BY <1>1, <3>1, HeardQuiet
  <2>4. CASE "ALTCHARSET" \in esc /\ CharsetChar(ch)
    <3>1. esc' = {} /\ csi' = csi /\ did'.op # "csi"
      BY <2>4 DEF CharsetChar, Nothing
    <3> QED
      BY <1>1, <3>1, HeardQuiet
  <2>5. CASE "TEST" \in esc /\ TestChar(ch)
    <3>1. esc' = {} /\ csi' = csi /\ did'.op # "csi"
      BY <2>5 DEF TestChar, Nothing, Escape
    <3> QED
      BY <1>1, <3>1, HeardQuiet
  <2>6. CASE esc = {"START"} /\ StartChar(ch)
    BY <1>1, <1>4, <2>6, HeardStart
  <2> QED
    BY <1>4, <2>1, <2>2, <2>3, <2>4, <2>5, <2>6 DEF tputc
<1> QED
  BY <1>2, <1>3, <1>4

(* Neither reading nor decoding disturbs it.                               *)
LEMMA HeardKept == ReadInv /\ HeardInv /\ [ReadNext]_<<pvars, tvars>> => HeardInv'
<1> SUFFICES ASSUME ReadInv, HeardInv, [ReadNext]_<<pvars, tvars>> PROVE HeardInv'
  OBVIOUS
<1>1. CASE Decode
  <2>1. PICK ch \in Byte : tputc(ch)
    BY <1>1, GivenAByte
  <2>2. ParserInv
    BY DEF ReadInv
  <2> QED
    BY <2>1, <2>2, HeardTputc
<1>2. CASE UNCHANGED pvars
  BY <1>2, Zenon DEF pvars, HeardInv, ExecutedAsSent
<1>3. CASE Read
  BY <1>2, <1>3 DEF Read
<1> QED
  BY <1>1, <1>2, <1>3 DEF ReadNext

(* Nothing is open or executed at the start.                               *)
LEMMA HeardInit == ReadInit => HeardInv
<1> SUFFICES ASSUME ReadInit PROVE HeardInv
  OBVIOUS
<1>1. /\ esc = {} /\ csi = [priv |-> FALSE, arg |-> <<0>>, mode |-> NUL]
      /\ did = Nothing
  BY DEF ReadInit, Init
<1>2. Len(csi.arg) <= EscArgSiz
  BY <1>1, ParserAssumption
<1> QED
  BY <1>1, <1>2 DEF HeardInv, Nothing

(* For every sequence of bytes, with control characters, cancellations and *)
(* strings between: the control function executed is the one sent, with    *)
(* its private mark and its arguments (csiparse, csireset and tputc).      *)
THEOREM OnlyTheSentIsExecuted == ReadSpec => []SentIsExecuted
<1> QED
  BY ReadNextInv, ReadInitInv, HeardKept, HeardInit, HeardExecuted, PTL DEF ReadSpec

=============================================================================
