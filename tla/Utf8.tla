-------------------------------- MODULE Utf8 --------------------------------
(***************************************************************************)
(* The UTF-8 routines of package/simple-terminal: utf8decode, utf8encode   *)
(* and isfullutf8.  Bytes are 0..255 and the bit tests of the code are     *)
(* written as the ranges they select.                                      *)
(*                                                                         *)
(* A decoded character is a record: the code point and the number of bytes *)
(* taken from the buffer.  An ill-formed character decodes to U+FFFD and   *)
(* takes the lead byte with the continuation bytes that did fit.           *)
(***************************************************************************)
EXTENDS Integers, Sequences

Invalid == 65533      \* U+FFFD

(* How many continuation bytes a lead byte announces; -1 for a byte that   *)
(* leads nothing (a stray continuation byte, or 0xF8 and above).           *)
Announced(b) ==
  IF b < 128 THEN 0
  ELSE IF b \in 192..223 THEN 1
  ELSE IF b \in 224..239 THEN 2
  ELSE IF b \in 240..247 THEN 3
  ELSE -1

Continues(b) == b \in 128..191

(* The bits of the lead byte that belong to the code point.                *)
LeadBits(b) ==
  IF Announced(b) = 1 THEN b % 32
  ELSE IF Announced(b) = 2 THEN b % 16
  ELSE IF Announced(b) = 3 THEN b % 8
  ELSE b

(* The bits collected from s[1] and k continuation bytes.                  *)
Collected(s, k) ==
  LET Shift(u, b) == (u * 64) + (b % 64)
      one   == Shift(LeadBits(s[1]), s[2])
      two   == Shift(one, s[3])
  IN  IF k = 0 THEN LeadBits(s[1])
      ELSE IF k = 1 THEN one
      ELSE IF k = 2 THEN two
      ELSE Shift(two, s[4])

(* A mutant: the surrogates are taken for characters.                      *)
OverlongOnly(n, u) == (n = 1 /\ u < 128) \/ (n = 2 /\ u < 2048) \/ (n = 3 /\ u < 65536)

(* Too small for its length, or a surrogate.                               *)
Overlong(n, u) ==
  \/ n = 1 /\ u < 128
  \/ n = 2 /\ u < 2048
  \/ n = 3 /\ u < 65536
  \/ u \in 55296..57343

(* The continuation bytes that follow s[1], at most as many as announced.  *)
(* The code looks at a byte only when those before it continue.            *)
Followers(s) ==
  LET n == Announced(s[1])
  IN  IF n < 1 \/ ~Continues(s[2]) THEN 0
      ELSE IF n = 1 \/ ~Continues(s[3]) THEN 1
      ELSE IF n = 2 \/ ~Continues(s[4]) THEN 2
      ELSE 3

utf8decode(s) ==
  LET n == Announced(s[1])
      f == Followers(s)
  IN  [u    |-> IF n = -1 \/ f < n \/ Overlong(n, Collected(s, n))
                THEN Invalid ELSE Collected(s, n),
       size |-> f + 1]

(* A value above U+10FFFF, which utf8decode lets through, becomes U+FFFD.  *)
utf8encode(u) ==
  LET Cont(n) == 128 + ((u \div n) % 64)
  IN  IF u < 128 THEN <<u>>
      ELSE IF u < 2048 THEN <<192 + (u \div 64), Cont(1)>>
      ELSE IF u < 65536 THEN <<224 + (u \div 4096), Cont(64), Cont(1)>>
      ELSE IF u <= 1114111 THEN <<240 + (u \div 262144), Cont(4096), Cont(64), Cont(1)>>
      ELSE <<239, 191, 189>>

(* The first character of s can be decoded without reading further: there  *)
(* is at least one byte, and no more are missing that could continue it.   *)
isfullutf8(s) ==
  /\ Len(s) >= 1
  /\ ~ /\ Len(s) <= Announced(s[1])
       /\ Len(s) >= 2 => Continues(s[2])
       /\ Len(s) >= 3 => Continues(s[3])

=============================================================================
