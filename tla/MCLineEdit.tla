----------------------------- MODULE MCLineEdit -----------------------------
(* Lines over two letters, a blank and the character that begins a         *)
(* comment; a block given late holds letters, newlines or NULs.            *)
EXTENDS LineEdit

Keys == {"x", "y", " ", "#"}
OldBytes == {"x", "n", "0"}

(* The first line is any line without a y, up to a full buffer.  Later     *)
(* lines are one character or yx, so that two of them fit in a chunk with  *)
(* their newlines and some do not fit in a block, or they are recalled,    *)
(* also those that fill a buffer.                                          *)
FirstLine == history_count = 0 /\ file = <<>> /\ \A i \in Cells : local_buf[i] # "y"
ShortLine ==
  /\ len <= 2
  /\ local_buf[1] = NUL \/ (local_buf[0] = "y" /\ local_buf[1] = "x")
  /\ \A i \in Cells : i > 1 => local_buf[i] = NUL
FullLine ==
  /\ history_count > 0 /\ len \in {0, MAX_CMD_LEN - 1} /\ cursor_pos = len
  /\ \A i \in Cells : i > len => local_buf[i] \in {"x", NUL}
BoundedLines == FirstLine \/ ShortLine \/ FullLine
=============================================================================
