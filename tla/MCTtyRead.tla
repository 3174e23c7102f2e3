----------------------------- MODULE MCTtyRead ------------------------------
(* Instances of TtyRead: streams over the lead and continuation bytes at   *)
(* which utf8decode's ranges begin and end, over the characters of control *)
(* sequences, of character sets and saved cursors, and of strings.         *)
EXTENDS TtyRead

Utf8Short == {65, 128, 160, 194, 192, 237, 224}
Utf8Long == {128, 144, 240, 244, 247, 252}
Sequences1 == {27, 91, 63, 49, 59, 109, 8, 24}
Charset1 == {27, 40, 48, 91, 115, 117, 56, 14, 1}
Strings1 == {27, 93, 107, 48, 59, 7, 92}
Streams == {Utf8Short, Utf8Long, Sequences1, Charset1, Strings1}
Chunks(a) == IF a \in {Utf8Short, Utf8Long} THEN 4 ELSE 1

=============================================================================
