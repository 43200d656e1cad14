------------------------------ MODULE LineEdit ------------------------------
(***************************************************************************)
(* The shell's line editor and history (user/lib/shellio.c) and the part   *)
(* of the shell's main loop that cleans the line and records it.  One      *)
(* action is one key, or one request to the file server while the history  *)
(* is saved.  Redrawing the line is left out.                              *)
(***************************************************************************)
EXTENDS Integers, Sequences, FiniteSetsExt

CONSTANTS
  MAX_CMD_LEN,   \* size of the line buffers, with the NUL
  MAX_HISTORY,   \* commands in the ring
  CHUNK,         \* bytes history_load reads at a time, MAX_CMD_LEN - 1 in the code
  BLOCK_SIZE,    \* bytes of a disk block
  Printable,     \* the characters that can be typed
  Blank, Comment, NUL, NL,
  HOLE,          \* a byte of a block that the disk had no room for
  Stale          \* what a block given later may still hold

ASSUME LineAssumption ==
  /\ {MAX_CMD_LEN, MAX_HISTORY, CHUNK, BLOCK_SIZE} \subseteq Nat \ {0}
  /\ CHUNK < MAX_CMD_LEN /\ MAX_CMD_LEN - 1 <= BLOCK_SIZE
  /\ Blank \in Printable /\ NUL \notin Printable /\ NL \notin Printable /\ NUL # NL
  /\ HOLE \notin Printable \cup {NUL, NL}
  /\ Stale \subseteq Printable \cup {NUL, NL}

Text == Seq(Printable)

VARIABLES
  local_buf, len, cursor_pos,        \* the line, an array of characters
  history_buf,                       \* the ring, and the draft at MAX_HISTORY
  history_head, history_tail, history_count,
  history_nav_pos,
  buf,                               \* the line main works on
  file,                              \* bytes of /.mos_history, none without one
  saved,                             \* whether the last history_save succeeded
  at                                 \* editing, or a step of history_save

lineVars == <<local_buf, len, cursor_pos>>
ringVars == <<history_buf, history_head, history_tail, history_count>>
fileVars == <<file, saved>>
vars == <<lineVars, ringVars, history_nav_pos, buf, fileVars, at>>

-----------------------------------------------------------------------------
(* Character arrays.  String is the C string in one, without its NUL.      *)

Cells == 0 .. MAX_CMD_LEN - 1
StrLen(a) == Min({i \in Cells : a[i] = NUL})
String(a) == [i \in 1 .. StrLen(a) |-> a[i - 1]]

(* memmove of n bytes within an array.                                     *)
Move(a, dst, src, n) ==
  [i \in Cells |-> IF i \in dst .. dst + n - 1 THEN a[src + i - dst] ELSE a[i]]

(* strcpy of a string and its NUL over an array.                           *)
StrCpy(a, s) ==
  [i \in Cells |-> IF i < Len(s) THEN s[i + 1] ELSE IF i = Len(s) THEN NUL ELSE a[i]]

-----------------------------------------------------------------------------
(* The ring, as a record, for history_load and history_add.                *)

EmptyRing == [slot |-> [i \in 0 .. MAX_HISTORY |-> <<>>], head |-> 0, tail |-> 0, count |-> 0]

RingAdd(r, s) ==
  [slot |-> [r.slot EXCEPT ![r.tail] = s],
   tail |-> (r.tail + 1) % MAX_HISTORY,
   count |-> IF r.count < MAX_HISTORY THEN r.count + 1 ELSE r.count,
   head |-> IF r.count < MAX_HISTORY THEN r.head ELSE (r.head + 1) % MAX_HISTORY]

Ring == [slot |-> history_buf, head |-> history_head, tail |-> history_tail, count |-> history_count]

RingBecomes(r) ==
  /\ history_buf' = r.slot /\ history_head' = r.head
  /\ history_tail' = r.tail /\ history_count' = r.count

(* The commands in the ring, oldest first, and the k-th before the newest. *)
Listed(r) == [i \in 1 .. r.count |-> r.slot[(r.head + i - 1) % MAX_HISTORY]]
Recent(k) == history_buf[(history_tail - 1 - k + MAX_HISTORY) % MAX_HISTORY]

(* history_load reads the file in chunks into one buffer and keeps         *)
(* line_start, a position in that buffer, from one chunk to the next; a    *)
(* command is copied by strcpy, up to a NUL.                               *)
CStringBug(s) == s
CString(s) == SubSeq(s, 1, Min({Len(s)} \cup {i - 1 : i \in {j \in 1 .. Len(s) : s[j] = NUL}}))
Line(bytes, base, from, to) == CString(SubSeq(bytes, base + from + 1, base + to))

LoadByte(bytes, l, k) ==
  LET i == (k - 1) % CHUNK
  IN  IF bytes[k] # NL THEN l
      ELSE [line_start |-> i + 1,
            ring |-> IF i - l.line_start > 0
                     THEN RingAdd(l.ring, Line(bytes, k - 1 - i, l.line_start, i))
                     ELSE l.ring]

HistoryLoad(bytes) ==
  LET load[k \in 0 .. Len(bytes)] ==
        IF k = 0 THEN [line_start |-> 0, ring |-> EmptyRing]
        ELSE LoadByte(bytes, load[k - 1], k)
  IN  load[Len(bytes)].ring

(* What history_save prints.                                               *)
Printed(lines) ==
  LET print[n \in 0 .. Len(lines)] ==
        IF n = 0 THEN <<>> ELSE print[n - 1] \o lines[n] \o <<NL>>
  IN  print[Len(lines)]

-----------------------------------------------------------------------------
(* Writing on a disk that fills up.  A write past the client's size sets   *)
(* the size at the client and at the server and asks for the block that is *)
(* new, if there is one.  Without it the server's size goes back, the      *)
(* client's stays, and nothing is written; later writes find the size      *)
(* there, ask for no block, and put their bytes into a page of their own.  *)

Block(k) == (k - 1) \div BLOCK_SIZE    \* of the k-th byte

Stored(p, s, full) ==
  [k \in 1 .. Len(s) |-> IF Block(Len(p.text) + k) \in full THEN HOLE ELSE s[k]]

Cannot(p, s, full) ==
  LET tot == Len(p.text) + Len(s)
  IN  Block(tot) > Block(p.size) /\ Block(tot) \in full

Write(p, s, full) ==
  LET tot == Len(p.text) + Len(s)
  IN  IF Cannot(p, s, full)
      THEN [text |-> p.text, size |-> tot, server |-> p.size]
      ELSE [text |-> p.text \o Stored(p, s, full),
            size |-> Max({p.size, tot}),
            server |-> IF tot > p.size THEN tot ELSE p.server]

(* fprintf writes the command and the newline, and stops when it fails.    *)
PrintLine(p, s, full) ==
  IF Cannot(p, s, full) THEN Write(p, s, full)
  ELSE Write(Write(p, s, full), <<NL>>, full)

(* The file the server has after history_save printed the lines.           *)
Left(lines, full) ==
  LET print[n \in 0 .. Len(lines)] ==
        IF n = 0 THEN [text |-> <<>>, size |-> 0, server |-> 0]
        ELSE PrintLine(print[n - 1], lines[n], full)
      p == print[Len(lines)]
  IN  [k \in 1 .. p.server |-> IF k <= Len(p.text) THEN p.text[k] ELSE HOLE]

(* Opening the file asks for its blocks in turn; the disk may have room    *)
(* again for some that the save did not get, with what they hold.          *)
Holes(bytes) == {k \in 1 .. Len(bytes) : bytes[k] = HOLE}

Opens ==
  \E n \in 0 .. Block(Len(file)) + 1 : \E g \in [Holes(file) -> Stale] :
    file' = [k \in 1 .. Len(file) |->
               IF k \in Holes(file) /\ Block(k) < n THEN g[k] ELSE file[k]]

-----------------------------------------------------------------------------
(* Keys that change the line.                                              *)

Editing == at = "edit"

Edit(a, n, c) ==
  /\ Editing
  /\ local_buf' = a /\ len' = n /\ cursor_pos' = c
  /\ UNCHANGED <<buf, fileVars, at>>

InLine == UNCHANGED <<ringVars, history_nav_pos>>

TypeCharBug(c) ==
  /\ len < MAX_CMD_LEN - 1
  /\ Edit([Move(local_buf, cursor_pos + 1, cursor_pos, len - cursor_pos) EXCEPT ![cursor_pos] = c],
          len + 1, cursor_pos + 1)
  /\ InLine

TypeChar(c) ==
  /\ len < MAX_CMD_LEN - 1
  /\ Edit([Move(local_buf, cursor_pos + 1, cursor_pos, len - cursor_pos + 1) EXCEPT ![cursor_pos] = c],
          len + 1, cursor_pos + 1)
  /\ InLine

Backspace ==
  /\ cursor_pos > 0
  /\ Edit(Move(local_buf, cursor_pos - 1, cursor_pos, len - cursor_pos + 1), len - 1, cursor_pos - 1)
  /\ InLine

CtrlA == Edit(local_buf, len, 0) /\ InLine
CtrlE == Edit(local_buf, len, len) /\ InLine
CtrlK == Edit([local_buf EXCEPT ![cursor_pos] = NUL], cursor_pos, cursor_pos) /\ InLine

CtrlU ==
  /\ cursor_pos > 0
  /\ Edit(Move(local_buf, 0, cursor_pos, len - cursor_pos + 1), len - cursor_pos, 0)
  /\ InLine

(* Ctrl-W: back over blanks, then back over what is not blank.             *)
AfterWord == Max({0} \cup {i \in 1 .. cursor_pos : local_buf[i - 1] # Blank})
StartPos == Max({0} \cup {i \in 1 .. AfterWord : local_buf[i - 1] = Blank})

CtrlW ==
  /\ cursor_pos > StartPos
  /\ Edit(Move(local_buf, StartPos, cursor_pos, len - cursor_pos + 1),
          len - (cursor_pos - StartPos), StartPos)
  /\ InLine

ArrowRight == cursor_pos < len /\ Edit(local_buf, len, cursor_pos + 1) /\ InLine
ArrowLeft == cursor_pos > 0 /\ Edit(local_buf, len, cursor_pos - 1) /\ InLine

(* The arrows up and down copy a command, or the draft, over the line.     *)
Recall(s) == Edit(StrCpy(local_buf, s), Len(s), Len(s))

ArrowUpBug ==
  /\ history_nav_pos < history_count - 1
  /\ history_nav_pos' = history_nav_pos + 1
  /\ history_buf' = [history_buf EXCEPT ![MAX_HISTORY] = String(local_buf)]
  /\ Recall(Recent(history_nav_pos + 1))
  /\ UNCHANGED <<history_head, history_tail, history_count>>

ArrowUp ==
  /\ history_nav_pos < history_count - 1
  /\ history_nav_pos' = history_nav_pos + 1
  /\ history_buf' = IF history_nav_pos = -1
                    THEN [history_buf EXCEPT ![MAX_HISTORY] = String(local_buf)]
                    ELSE history_buf
  /\ Recall(Recent(history_nav_pos + 1))
  /\ UNCHANGED <<history_head, history_tail, history_count>>

ArrowDown ==
  /\ history_nav_pos > -1
  /\ history_nav_pos' = history_nav_pos - 1
  /\ Recall(IF history_nav_pos = 0 THEN history_buf[MAX_HISTORY] ELSE Recent(history_nav_pos - 1))
  /\ UNCHANGED ringVars

-----------------------------------------------------------------------------
(* Enter.  main cuts a comment and the blanks before it off, records the   *)
(* command, if it is not the one recorded last, and executes it; then      *)
(* readline_advanced starts over on the same local_buf.                    *)

Uncommented(s) == SubSeq(s, 1, Min({Len(s)} \cup {i - 1 : i \in {j \in 1 .. Len(s) : s[j] = Comment}}))
Trimmed(s) == SubSeq(s, 1, Max({0} \cup {i \in 1 .. Len(s) : s[i] # Blank}))
Cleaned(s) == Trimmed(Uncommented(s))

StartLine ==
  /\ local_buf' = [local_buf EXCEPT ![0] = NUL]
  /\ len' = 0 /\ cursor_pos' = 0
  /\ history_nav_pos' = -1

Recorded(s) == s # <<>> /\ (history_count > 0 => s # Recent(0))

HistoryAdd(s) ==
  IF Recorded(s) THEN RingBecomes(RingAdd(Ring, s)) /\ at' = "remove"
                 ELSE UNCHANGED <<ringVars, at>>

Returns(s) ==
  /\ Editing
  /\ buf' = s
  /\ HistoryAdd(s)
  /\ StartLine
  /\ UNCHANGED fileVars

Enter == Returns(Cleaned(String(local_buf)))

(* At the end of the input readline_advanced returns 0 without touching    *)
(* buf, and main, which leaves its loop only below 0, goes on with it: the *)
(* command before runs once more.                                          *)
CtrlD == Returns(buf)

(* history_save: remove, open with O_CREAT, print, close; nobody looks     *)
(* whether one of them fails.                                              *)
SaveLeaves == UNCHANGED <<lineVars, ringVars, history_nav_pos, buf>>

SaveRemove ==
  /\ at = "remove" /\ at' = "create"
  /\ file' = <<>> /\ saved' = FALSE
  /\ SaveLeaves

SaveCreate ==
  /\ at = "create" /\ at' \in {"print", "edit"}
  /\ UNCHANGED fileVars
  /\ SaveLeaves

SavePrintBug ==
  /\ at = "print" /\ at' = "edit"
  /\ LET lines == Listed([Ring EXCEPT !.head = 0])
     IN  \/ file' = Printed(lines) /\ saved' = TRUE
         \/ \E full \in SUBSET (0 .. Block(Len(Printed(lines)))) \ {{}} :
              file' = Left(lines, full) /\ saved' = FALSE
  /\ SaveLeaves

SavePrint ==
  /\ at = "print" /\ at' = "edit"
  /\ \/ file' = Printed(Listed(Ring)) /\ saved' = TRUE
     \/ \E full \in SUBSET (0 .. Block(Len(Printed(Listed(Ring))))) \ {{}} :
          file' = Left(Listed(Ring), full) /\ saved' = FALSE
  /\ SaveLeaves

(* The command history, or another program, opens the file.                *)
RunHistory ==
  /\ Editing /\ Opens
  /\ UNCHANGED <<lineVars, ringVars, history_nav_pos, buf, saved, at>>

(* The shell ends, and a new one loads the history, or cannot open it.     *)
Restart ==
  /\ Editing /\ Opens
  /\ saved' = (Holes(file') = {})
  /\ RingBecomes(IF saved' THEN HistoryLoad(file') ELSE EmptyRing)
  /\ local_buf' = [i \in Cells |-> NUL] /\ len' = 0 /\ cursor_pos' = 0
  /\ history_nav_pos' = -1
  /\ buf' = <<>>
  /\ UNCHANGED at

Init ==
  /\ local_buf = [i \in Cells |-> NUL] /\ len = 0 /\ cursor_pos = 0
  /\ history_buf = EmptyRing.slot
  /\ history_head = 0 /\ history_tail = 0 /\ history_count = 0
  /\ history_nav_pos = -1
  /\ buf = <<>>
  /\ file = <<>> /\ saved = TRUE /\ at = "edit"

Next ==
  \/ \E c \in Printable : TypeChar(c)
  \/ Backspace \/ CtrlA \/ CtrlE \/ CtrlK \/ CtrlU \/ CtrlW
  \/ ArrowLeft \/ ArrowRight \/ ArrowUp \/ ArrowDown
  \/ Enter \/ CtrlD
  \/ SaveRemove \/ SaveCreate \/ SavePrint \/ RunHistory \/ Restart

Spec == Init /\ [][Next]_vars

-----------------------------------------------------------------------------
(* TypeOK: positions are positions of the arrays.                          *)
TypeOK ==
  /\ local_buf \in [Cells -> Printable \cup {NUL}]
  /\ len \in Cells /\ cursor_pos \in 0 .. len
  /\ DOMAIN history_buf = 0 .. MAX_HISTORY
  /\ history_head \in 0 .. MAX_HISTORY - 1 /\ history_tail \in 0 .. MAX_HISTORY - 1
  /\ history_count \in 0 .. MAX_HISTORY
  /\ history_nav_pos \in -1 .. history_count - 1
  /\ at \in {"edit", "remove", "create", "print"}
  /\ saved \in BOOLEAN

(* LenIsStrlen: whatever is typed, moved over and recalled in whatever     *)
(* order, len is the length of the string in local_buf; every memmove of   *)
(* readline_advanced and every strcpy counts on it.                        *)
LenIsStrlen == len = StrLen(local_buf)

(* LineInv: the string ends at len, whatever is behind it; the commands in *)
(* the ring, the draft and buf fit in a line buffer, which strcpy trusts,  *)
(* those history_load took from a file with stale blocks included.  The    *)
(* ring begins at 0 until it is full; buf, which the end of the input      *)
(* hands to main again, is the one recorded last.  What a save that        *)
(* succeeded has left in the file is what the ring holds, or what the ring *)
(* was loaded from.                                                        *)
Fitting == {s \in Text : Len(s) < MAX_CMD_LEN}
EndsAt(a, n) == a[n] = NUL /\ \A i \in 0 .. n - 1 : a[i] # NUL
Packed(r) ==
  /\ r.count < MAX_HISTORY => r.head = 0 /\ r.tail = r.count
  /\ r.count = MAX_HISTORY => r.tail = r.head
BufferInv ==
  /\ TypeOK /\ EndsAt(local_buf, len)
  /\ history_buf \in [0 .. MAX_HISTORY -> Fitting] /\ Packed(Ring)
  /\ buf \in Fitting
  /\ file \in Seq(Printable \cup {NUL, NL, HOLE})
SaveInv ==
  /\ at \in {"create", "print"} => ~ saved /\ file = <<>>
  /\ at = "edit" /\ saved =>
       /\ Holes(file) = {}
       /\ file = Printed(Listed(Ring)) \/ Listed(Ring) = Listed(HistoryLoad(file))
NewestInv == buf # <<>> => history_count > 0 /\ buf = Recent(0)
LineInv == BufferInv /\ SaveInv /\ NewestInv

(* HistorySurvives: unless saving it failed, a shell that starts now gets  *)
(* back the history this shell has, as long as the file is read at once;   *)
(* of a longer one history_load loses the line that is cut, as line_start  *)
(* is not set back for the next chunk.  Only a stale block that begins a   *)
(* line with a NUL puts an empty command into the history; it is printed   *)
(* as an empty line, and lost.                                             *)
NoneEmpty(lines) == \A i \in DOMAIN lines : lines[i] # <<>>
HistorySurvives ==
  at = "edit" /\ saved /\ Len(file) <= CHUNK /\ NoneEmpty(Listed(Ring)) =>
    Listed(HistoryLoad(file)) = Listed(Ring)

(* SaveKeepsOrder: whichever blocks the disk has no room for, history_save *)
(* leaves the commands of the ring in their order, some of them skipped,   *)
(* some glued to the next without a newline, with holes where a block is   *)
(* missing; no newline stands for a command that was not written, and no   *)
(* byte is out of its place.                                               *)
Pieces(lines, how) ==
  LET join[n \in 0 .. Len(lines)] ==
        IF n = 0 THEN <<>>
        ELSE join[n - 1] \o (CASE how[n] = "skipped" -> <<>>
                               [] how[n] = "text" -> lines[n]
                               [] how[n] = "line" -> Append(lines[n], NL))
  IN  join[Len(lines)]

WithHoles(bytes, t) ==
  \A k \in 1 .. Len(bytes) : bytes[k] = HOLE \/ (k <= Len(t) /\ bytes[k] = t[k])

SaveKeepsOrder ==
  [][at = "print" /\ at' = "edit" =>
       \E how \in [1 .. history_count -> {"skipped", "text", "line"}] :
         WithHoles(file', Pieces(Listed(Ring), how))]_vars

(* ImplementsEditor: the array, the lengths and the ring behave as a line  *)
(* with a cursor and a list of the last commands, which a new shell has    *)
(* again unless a save failed or the file is longer than a chunk.          *)
TextLine == String(local_buf)

Abstract == INSTANCE Editor WITH
  MaxLine <- MAX_CMD_LEN - 1,
  left <- SubSeq(TextLine, 1, cursor_pos),
  right <- SubSeq(TextLine, cursor_pos + 1, Len(TextLine)),
  pos <- history_nav_pos + 1,
  draft <- IF history_nav_pos = -1 THEN <<>> ELSE history_buf[MAX_HISTORY],
  hist <- Listed(Ring),
  entered <- buf,
  kept <- saved /\ Len(file) <= CHUNK

ImplementsEditor == Abstract!EditorSpec

=============================================================================
