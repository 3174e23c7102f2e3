------------------------------ MODULE MCCursor ------------------------------
(* Model-checking instances of Cursor: every control function that decides *)
(* where text lands, on screens of up to MaxCol x MaxRow.                  *)
EXTENDS Cursor

Sent == {"CUU", "CUD", "CUF", "CUB", "CNL", "CPL", "CHA", "VPA", "CUP",
         "CR", "HT", "CBT", "Text", "LF", "NEL", "IND", "RI", "DECSTBM",
         "HTS", "TBC", "DECSC", "DECRC", "ALTSCREEN", "RIS", "Resize",
         "WRAP", "CRLF", "REVERSE", "SGR", "Charset", "DECTCEM"}
=============================================================================
