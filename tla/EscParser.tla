----------------------------- MODULE EscParser ------------------------------
(***************************************************************************)
(* tputc of package/simple-terminal: the state machine that decides, one   *)
(* character at a time, whether what the shell wrote is text, a control    *)
(* character, or part of an escape sequence, a control sequence or a       *)
(* string, and what is executed when one is complete.                      *)
(*                                                                         *)
(* Modules Cursor and Screen say what the functions do; here an executed   *)
(* function is recorded in did.  Characters are bytes: tputc looks only at *)
(* the first byte of the UTF-8 character it is given.                      *)
(***************************************************************************)
EXTENDS Integers, Sequences, SequencesExt

CONSTANTS
  EscBufSiz,  \* ESC_BUF_SIZ (256): characters kept of a control sequence
  StrBufSiz,  \* STR_BUF_SIZ (256): a string is cut one character earlier
  EscArgSiz,  \* ESC_ARG_SIZ (16): arguments of a control sequence
  IntMax      \* INT_MAX: an argument wraps above it

ASSUME ParserAssumption ==
  /\ EscBufSiz \in Nat \ {0} /\ StrBufSiz \in Nat /\ StrBufSiz > 1
  /\ EscArgSiz \in Nat \ {0} /\ IntMax \in Nat \ {0}

VARIABLES
  esc,       \* term.esc, the set of its flags
  csibuf,    \* csiescseq.buf[0..len)
  csi,       \* the rest of csiescseq: priv, arg and mode
  str,       \* strescseq: type and buf
  gfx,       \* ATTR_GFX in term.c.attr.mode
  savedGfx,  \* the same flag of the saved cursor
  title,     \* the window's caption
  did,       \* what the last character did
  heard      \* history: the sequence in progress as it was sent

pvars == <<esc, csibuf, csi, str, gfx, savedGfx, title, did, heard>>

NUL == 0   BEL == 7   BS == 8   SO == 14   SI == 15   CAN == 24   SUB == 26
ESC == 27  LParen == 40  Zero == 48  Semi == 59  Query == 63  LBracket == 91
Backslash == 92  RBracket == 93

Control(ch) == ch < 32 \/ ch = 127
Digit(ch) == ch \in 48..57
Final(ch) == ch \in 64..126

(* HT BS CR FF VT LF BEL, and ENQ NUL XON XOFF DEL, which are ignored.     *)
Executed == {9, 8, 13, 12, 11, 10, 7}
Ignored == {5, 0, 17, 19, 127}
StringTypes == {80, 95, 94, 93, 107}       \* P _ ^ ] k
Charsets == {41, 42, 43}                   \* ) * +: nothing follows
Known == {64, 65, 101, 66, 99, 67, 97, 68, 69, 70, 103, 71, 96, 72, 102, 73,
          74, 75, 83, 84, 76, 108, 77, 88, 80, 90, 100, 104, 109, 114, 115, 117}

Nothing == [op |-> "none"]
Shown(ch) == [op |-> "print", ch |-> ch]
Execute(ch) == [op |-> "control", ch |-> ch]
Escape(ch) == [op |-> "escape", ch |-> ch]
String == [op |-> "string"]

csireset == csibuf' = <<>> /\ csi' = [priv |-> FALSE, arg |-> <<0>>, mode |-> NUL]

DefaultTitle == <<-1>>       \* opt_title, "st" or the shell's name
CStr(s) == IF Contains(s, NUL) THEN SubSeq(s, 1, SelectInSeq(s, LAMBDA x : x = NUL) - 1)
           ELSE s

Init ==
  /\ esc = {} /\ csibuf = <<>> /\ csi = [priv |-> FALSE, arg |-> <<0>>, mode |-> NUL]
  /\ str = [type |-> NUL, buf |-> <<>>]
  /\ gfx = FALSE /\ savedGfx = FALSE
  /\ title = DefaultTitle /\ did = Nothing /\ heard = <<>>

-----------------------------------------------------------------------------
(* Control sequences.                                                      *)

(* Signed overflow wraps in the builds of this code.                       *)
Wrapped(v) == ((v + IntMax + 1) % (2 * (IntMax + 1))) - (IntMax + 1)

(* csiparse reads digits and semicolons up to the first other character,   *)
(* which is the function's name; a semicolon when the arguments are full   *)
(* is such a character too.  A buffer of digits ends in the zero byte that *)
(* follows it in the structure.                                            *)
RoomForArg(n) == n < EscArgSiz

ParseStep(q, ch) ==
  LET n == Len(q.arg)
  IN  IF q.mode # NUL THEN q
      ELSE IF Digit(ch) THEN [q EXCEPT !.arg[n] = Wrapped((q.arg[n] * 10) + (ch - Zero))]
      ELSE IF ch = Semi /\ RoomForArg(n) THEN [q EXCEPT !.arg = Append(q.arg, 0)]
      ELSE [q EXCEPT !.mode = ch]

csiparse(buf) ==
  LET priv == Head(buf) = Query
      p == IF priv THEN Tail(buf) ELSE buf
      q[i \in 0..Len(p)] ==
        IF i = 0 THEN [priv |-> priv, arg |-> <<0>>, mode |-> NUL]
                 ELSE ParseStep(q[i - 1], p[i])
  IN  q[Len(p)]

(* csihandle: s and u save and load the cursor, attributes included; the   *)
(* private modes 1048 and 1049 do so too, which of the modes the arguments *)
(* name being left open.  DA answers when its argument is 0.               *)
csihandle(q) ==
  /\ did' = [op |-> IF q.mode = 99 /\ q.arg[1] = 0 THEN "reply"
                    ELSE IF q.mode \in Known THEN "csi" ELSE "unknown",
             priv |-> q.priv, arg |-> q.arg, mode |-> q.mode]
  /\ savedGfx' \in IF q.mode = 115 THEN {gfx}
                    ELSE IF q.mode = 104 /\ q.priv THEN {savedGfx, gfx} ELSE {savedGfx}
  /\ gfx' \in IF q.mode = 117 THEN {savedGfx}
               ELSE IF q.mode = 108 /\ q.priv THEN {gfx, savedGfx} ELSE {gfx}

(* A mutant: the buffer is found full one character late.                  *)
EndsLate(ch, buf) == Final(ch) \/ Len(buf) > EscBufSiz
EndsAt(ch, buf) == Final(ch) \/ Len(buf) >= EscBufSiz

CsiChar(ch) ==
  /\ csibuf' = Append(csibuf, ch)
  /\ IF EndsAt(ch, Append(csibuf, ch))
     THEN esc' = {} /\ csi' = csiparse(csibuf') /\ csihandle(csi')
     ELSE did' = Nothing /\ UNCHANGED <<esc, csi, gfx, savedGfx>>
  /\ UNCHANGED <<str, title>>

-----------------------------------------------------------------------------
(* Strings.                                                                *)

(* strhandle: the title sequences of xterm (0, 1, 2 or none) and k.        *)
strhandle(type, buf) ==
  /\ did' = String
  /\ LET p == CStr(buf)
         At(i) == IF i <= Len(p) THEN p[i] ELSE NUL
         From(i) == SubSeq(p, i, Len(p))
     IN  title' = CASE type = RBracket /\ At(1) \in 48..50 /\ At(2) = Semi -> From(3)
                    [] type = RBracket /\ At(1) = Semi -> From(2)
                    [] type = 107 -> p
                    [] OTHER -> title

StringFull(buf) == Len(buf) + 1 >= StrBufSiz

(* Everything but ESC and BEL is kept, control characters included; a      *)
(* string that fills the buffer is executed as it is and what follows is   *)
(* read as text.                                                           *)
StrChar(ch) ==
  /\ LET buf == Append(str.buf, ch)
     IN  \/ /\ ch = ESC
            /\ esc' = {"START", "STR_END"} /\ did' = Nothing
            /\ UNCHANGED <<str, title>>
         \/ /\ ch = BEL
            /\ esc' = {} /\ strhandle(str.type, str.buf)
            /\ UNCHANGED str
         \/ /\ ch \notin {ESC, BEL}
            /\ str' = [str EXCEPT !.buf = buf]
            /\ IF StringFull(buf)
               THEN esc' = {} /\ strhandle(str.type, buf)
               ELSE did' = Nothing /\ UNCHANGED <<esc, title>>
  /\ UNCHANGED <<csibuf, csi, gfx, savedGfx>>

(* After ESC in a string: a backslash executes it, anything else drops it  *)
(* and is itself swallowed.                                                *)
StrEnd(ch) ==
  /\ esc' = {}
  /\ IF ch = Backslash THEN strhandle(str.type, str.buf)
     ELSE did' = Nothing /\ UNCHANGED title
  /\ UNCHANGED <<csibuf, csi, str, gfx, savedGfx>>

-----------------------------------------------------------------------------
(* Control characters, and the characters after ESC.                       *)

(* Text, and in graphic mode a control character the code does not know.   *)
Show(ch) ==
  /\ did' = IF Control(ch) /\ ~gfx THEN Nothing ELSE Shown(ch)
  /\ UNCHANGED <<esc, csibuf, csi, str, gfx, savedGfx, title>>

(* A mutant: the arguments of the sequence before are kept.                *)
StartKeepsCsi == UNCHANGED <<csibuf, csi>>
StartFresh == csireset

(* Executed as soon as they arrive, in the middle of a sequence too.  ESC  *)
(* starts a new one; CAN and SUB empty the buffer but leave the state.     *)
ControlChar(ch) ==
  \/ /\ ch = ESC
     /\ StartFresh /\ esc' = {"START"} /\ did' = Nothing
     /\ UNCHANGED <<str, gfx, savedGfx, title>>
  \/ /\ ch \in {CAN, SUB}
     /\ csireset /\ did' = Nothing
     /\ UNCHANGED <<esc, str, gfx, savedGfx, title>>
  \/ /\ ch \in {SO, SI}
     /\ gfx' = (ch = SO) /\ did' = Execute(ch)
     /\ UNCHANGED <<esc, csibuf, csi, str, savedGfx, title>>
  \/ /\ ch \in Executed \cup Ignored
     /\ did' = IF ch \in Executed THEN Execute(ch) ELSE Nothing
     /\ UNCHANGED <<esc, csibuf, csi, str, gfx, savedGfx, title>>
  \/ /\ ch \notin {ESC, CAN, SUB, SO, SI} \cup Executed \cup Ignored
     /\ Show(ch)

(* ESC ( designates a character set, ESC # 8 fills the screen with E.      *)
CharsetChar(ch) ==
  /\ gfx' = IF ch = Zero THEN TRUE ELSE IF ch = 66 THEN FALSE ELSE gfx
  /\ esc' = {} /\ did' = Nothing
  /\ UNCHANGED <<csibuf, csi, str, savedGfx, title>>

TestChar(ch) ==
  /\ did' = IF ch = 56 THEN Escape(ch) ELSE Nothing
  /\ esc' = {}
  /\ UNCHANGED <<csibuf, csi, str, gfx, savedGfx, title>>

(* The first character after ESC.                                          *)
Opens == [ch \in {LBracket, 35, LParen} |->
            IF ch = LBracket THEN "CSI" ELSE IF ch = LParen THEN "ALTCHARSET" ELSE "TEST"]

StartChar(ch) ==
  /\ UNCHANGED <<csibuf, csi>>
  /\ \/ /\ ch \in DOMAIN Opens
        /\ esc' = esc \cup {Opens[ch]} /\ did' = Nothing
        /\ UNCHANGED <<str, gfx, savedGfx, title>>
     \/ /\ ch \in StringTypes
        /\ esc' = esc \cup {"STR"} /\ str' = [type |-> ch, buf |-> <<>>]
        /\ did' = Nothing
        /\ UNCHANGED <<gfx, savedGfx, title>>
     \/ /\ ch \notin DOMAIN Opens \cup StringTypes    \* two characters, or unknown
        /\ esc' = {} /\ did' = IF ch = 90 THEN [op |-> "reply"] ELSE Escape(ch)
        /\ gfx' = IF ch = 99 THEN FALSE ELSE IF ch = 56 THEN savedGfx ELSE gfx
        /\ savedGfx' = IF ch = 55 THEN gfx ELSE savedGfx
        /\ title' = IF ch = 99 THEN DefaultTitle ELSE title
        /\ UNCHANGED str

(* What a reader of the stream takes for the body of the sequence: the     *)
(* characters since ESC [ (or since CAN) that are not control characters.  *)
Hear(ch) ==
  heard' = IF "STR" \in esc THEN heard
           ELSE IF ch = ESC THEN <<>>
           ELSE IF ch \in {CAN, SUB} /\ "CSI" \in esc THEN <<LBracket>>
           ELSE IF Control(ch) THEN heard
           ELSE IF "START" \in esc THEN Append(heard, ch)
           ELSE <<>>

(***************************************************************************)
(* tputc: strings first, then control characters, then the sequence in     *)
(* progress, then text.                                                    *)
(***************************************************************************)
tputc(ch) ==
  /\ \/ /\ "STR" \in esc
        /\ StrChar(ch)
     \/ /\ "STR" \notin esc /\ Control(ch)
        /\ ControlChar(ch)
     \/ /\ "STR" \notin esc /\ ~Control(ch)
        /\ \/ "START" \notin esc /\ Show(ch)
           \/ "CSI" \in esc /\ CsiChar(ch)
           \/ "STR_END" \in esc /\ StrEnd(ch)
           \/ "ALTCHARSET" \in esc /\ CharsetChar(ch)
           \/ "TEST" \in esc /\ TestChar(ch)
           \/ esc = {"START"} /\ StartChar(ch)
  /\ Hear(ch)

-----------------------------------------------------------------------------
(* Type invariant: the flags of term.esc name one state, and what is kept   *)
(* of a sequence is bytes, as tputc stores them in arrays of char.         *)
EscStates == {{}, {"START"}, {"START", "CSI"}, {"START", "STR"},
              {"START", "ALTCHARSET"}, {"START", "TEST"}, {"START", "STR_END"}}

ParserTypeOK ==
  /\ esc \in EscStates
  /\ csibuf \in Seq(0..255)
  /\ str.buf \in Seq(0..255)
  /\ gfx \in BOOLEAN /\ savedGfx \in BOOLEAN

(* What a control sequence and a string leave free of their buffers: one   *)
(* still open has room for the character tputc stores without looking.     *)
SequenceRoom ==
  /\ Len(csibuf) <= EscBufSiz /\ ("CSI" \in esc => Len(csibuf) < EscBufSiz)
  /\ Len(str.buf) < StrBufSiz /\ ("STR" \in esc => Len(str.buf) < StrBufSiz - 1)

=============================================================================
