------------------------------ MODULE TtyRead -------------------------------
(***************************************************************************)
(* ttyread of package/simple-terminal: the bytes read from the pseudo      *)
(* terminal are cut where read() happens to cut them, put together again   *)
(* behind the bytes left from last time, decoded and given to tputc one    *)
(* character at a time.                                                    *)
(***************************************************************************)
EXTENDS EscParser, Utf8

CONSTANTS
  BufSiz,     \* BUFSIZ, the length of the buffer
  Alphabets,  \* sets of bytes; a stream is written in one of them
  Chunk(_),   \* bound on the bytes one read() returns, by alphabet
  MaxHeld     \* bound on the bytes read without the buffer running empty

UtfSiz == 4   \* UTF_SIZ
Byte == 0..255

(* The shell writes bytes.                                                 *)
ASSUME ReadAssumption ==
  /\ BufSiz \in Nat /\ BufSiz >= UtfSiz /\ MaxHeld \in Nat
  /\ \A a \in Alphabets : a \subseteq Byte

VARIABLES
  alphabet,  \* the one the shell writes in
  buf,       \* buf[0..buflen)
  sent,      \* history: the bytes read since the buffer was last empty
  out        \* history: the characters given to tputc since then

tvars == <<alphabet, buf, sent, out>>

(* The loop's condition: a character can be decoded.                       *)
Ready == Len(buf) >= UtfSiz \/ isfullutf8(buf)

ReadInit ==
  /\ Init
  /\ alphabet \in Alphabets /\ buf = <<>> /\ sent = <<>> /\ out = <<>>

(* read() returns any number of bytes that fit behind those left over.     *)
Read ==
  /\ ~Ready /\ Len(buf) < BufSiz
  /\ \E n \in 1..(BufSiz - Len(buf)) \cap 1..Chunk(alphabet) : \E new \in [1..n -> alphabet] :
       /\ Len(sent) + n <= MaxHeld
       /\ buf' = buf \o new
       /\ sent' = IF buf = <<>> THEN new ELSE sent \o new
       /\ out' = IF buf = <<>> THEN <<>> ELSE out
  /\ UNCHANGED <<pvars, alphabet>>

(* One turn of the loop.  The character is encoded again before tputc gets *)
(* it, and the log of option -o with it.                                   *)
Decode ==
  /\ Ready
  /\ LET d == utf8decode(buf)
         s == utf8encode(d.u)
     IN  /\ tputc(s[1])
         /\ out' = Append(out, s)
         /\ buf' = SubSeq(buf, d.size + 1, Len(buf))
  /\ UNCHANGED <<alphabet, sent>>

ReadNext == Read \/ Decode

ReadSpec == ReadInit /\ [][ReadNext]_<<pvars, tvars>>

-----------------------------------------------------------------------------
(* Reference definitions.                                                  *)

(* Table 3-7 of the Unicode standard: the byte sequences that are          *)
(* characters, by their first two bytes and their length.                  *)
WellFormed(s) ==
  LET n == Len(s)
  IN  /\ n \in 1..4
      /\ CASE n = 1 -> s[1] \in 0..127
           [] n = 2 -> s[1] \in 194..223 /\ s[2] \in 128..191
           [] n = 3 -> \/ s[1] = 224 /\ s[2] \in 160..191
                       \/ s[1] \in (225..236) \cup {238, 239} /\ s[2] \in 128..191
                       \/ s[1] = 237 /\ s[2] \in 128..159
           [] n = 4 -> \/ s[1] = 240 /\ s[2] \in 144..191
                       \/ s[1] \in 241..243 /\ s[2] \in 128..191
                       \/ s[1] = 244 /\ s[2] \in 128..143
      /\ \A i \in 3..n : s[i] \in 128..191

Replacement == <<239, 191, 189>>

(* The continuation bytes that follow a lead byte, of those it announced.  *)
Trails(s) == {n \in 0..(Len(s) - 1) :
                /\ n = 0 \/ n <= Announced(s[1])
                /\ \A i \in 2..(n + 1) : Continues(s[i])}
Trail(s) == CHOOSE n \in Trails(s) : \A m \in Trails(s) : m <= n

(* The bytes of the first character of s: those of a well-formed one, or   *)
(* an ill-formed lead byte with the continuation bytes it announced; none  *)
(* while it may still be continued.                                        *)
WellFormedAt(s) == {n \in 1..Len(s) : WellFormed(SubSeq(s, 1, n))}
Taken(s) ==
  IF s = <<>> THEN 0
  ELSE IF WellFormedAt(s) # {} THEN CHOOSE n \in WellFormedAt(s) : TRUE
  ELSE IF Trail(s) < Announced(s[1]) /\ Trail(s) + 1 = Len(s) THEN 0
  ELSE Trail(s) + 1

Given(s) ==
  LET c == SubSeq(s, 1, Taken(s))
  IN  IF WellFormed(c) THEN c ELSE Replacement

(* The characters of s, decoded whole.                                     *)
Characters[s \in Seq(Byte)] ==
  IF Taken(s) = 0 THEN <<>>
  ELSE <<Given(s)>> \o Characters[SubSeq(s, Taken(s) + 1, Len(s))]

(* The parameters of a control sequence, read as ECMA-48 has them: numbers *)
(* in decimal between semicolons, an empty one counting as 0.              *)
Decimal(p, i, j) ==
  LET v[x \in 0..Len(p)] == IF x < i THEN 0 ELSE (v[x - 1] * 10) + (p[x] - Zero)
  IN  v[j]

(* Where the n fields of p end: before its semicolons, and at its end.     *)
Cuts(p, n) ==
  {e \in [0..n -> 0..(Len(p) + 1)] :
     /\ e[0] = 0 /\ e[n] = Len(p) + 1
     /\ \A k \in 1..n : e[k - 1] < e[k]
     /\ \A x \in 1..Len(p) : p[x] = Semi <=> \E k \in 1..(n - 1) : e[k] = x}

-----------------------------------------------------------------------------
(* tputc never stores past the buffer of a sequence or a string, utf8decode *)
(* never takes bytes ttyread has not read, and the bytes left over never   *)
(* fill the buffer: read() with no room would return 0 for ever.           *)
RoomForMore ==
  /\ SequenceRoom
  /\ Ready => utf8decode(buf).size <= Len(buf)
  /\ ~Ready => Len(buf) < BufSiz

(* However read() cuts the stream, tputc is given the characters of the    *)
(* whole of it: well-formed ones byte for byte, and U+FFFD for the rest    *)
(* (isfullutf8, utf8decode, utf8encode and the memmove of ttyread).        *)
ChunksInvisible == ~Ready => out = Characters[sent]

(* The control function executed is the one sent: its name, its private    *)
(* mark and its arguments are those of the characters between ESC [ and    *)
(* the final one, whatever control characters were executed meanwhile and  *)
(* whatever the sequence before left behind; a sequence that is not well   *)
(* formed, or has too many arguments, is not executed.                     *)
SentIsExecuted ==
  LET body == Tail(heard)
      priv == body # <<>> /\ body[1] = Query
      p == SubSeq(body, IF priv THEN 2 ELSE 1, Len(body) - 1)
      Plain == \A i \in 1..Len(p) : Digit(p[i]) \/ p[i] = Semi
      n == Len(did.arg)
      Value(e, k) == Decimal(p, e[k - 1] + 1, e[k] - 1)
  IN  /\ did.op \in {"csi", "unknown", "reply"} => Len(csi.arg) <= EscArgSiz
      /\ did.op = "csi" =>
           /\ Len(heard) >= 2 /\ Head(heard) = LBracket
           /\ Plain /\ n <= EscArgSiz
           /\ did.mode = Last(heard) /\ did.priv = priv
           /\ \E e \in Cuts(p, n) : \A k \in 1..n :
                Value(e, k) <= IntMax => did.arg[k] = Value(e, k)

=============================================================================
