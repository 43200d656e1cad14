------------------------------- MODULE Editor -------------------------------
(***************************************************************************)
(* What the line editor promises its user: a line with a cursor, as the    *)
(* text on the left and on the right of it, and the last MAX_HISTORY lines *)
(* entered, oldest first, none twice in a row.  pos is how many lines back *)
(* the user is looking, 0 for none; draft is the line left for that.  kept *)
(* says whether the disk has the history for the next shell.               *)
(***************************************************************************)
EXTENDS Integers, Sequences

CONSTANTS MAX_HISTORY, MaxLine, Printable, Blank, Comment

VARIABLES left, right, pos, draft, hist, entered, kept

editorVars == <<left, right, pos, draft, hist, entered, kept>>

Line == left \o right

EditorInit ==
  /\ left = <<>> /\ right = <<>> /\ pos = 0 /\ draft = <<>>
  /\ hist = <<>> /\ entered = <<>> /\ kept = TRUE

At(l, r) == left' = l /\ right' = r /\ UNCHANGED <<pos, draft, hist, entered, kept>>

Prefix(s, n) == SubSeq(s, 1, n)
Suffix(s, n) == SubSeq(s, n + 1, Len(s))

Type(c) == Len(Line) < MaxLine /\ At(Append(left, c), right)
Rubout == left # <<>> /\ At(Prefix(left, Len(left) - 1), right)
MoveTo(n) == At(Prefix(Line, n), Suffix(Line, n))
EraseRight == At(left, <<>>)
EraseLeft == At(<<>>, right)

(* What is left of the last word: it ends where a word begins, and the     *)
(* rest is that word and the blanks after it.                              *)
IsWord(s) ==
  \E n \in 0 .. Len(s) : /\ \A i \in 1 .. n : s[i] # Blank
                         /\ \A i \in n + 1 .. Len(s) : s[i] = Blank
WordBegins(n) == n = 0 \/ (left[n] = Blank /\ left[n + 1] # Blank)

EraseWord ==
  \E n \in 0 .. Len(left) - 1 :
    WordBegins(n) /\ IsWord(Suffix(left, n)) /\ At(Prefix(left, n), right)

Back(k) == hist[Len(hist) + 1 - k]

Show(k, text) ==
  /\ pos' = k /\ left' = text /\ right' = <<>>
  /\ UNCHANGED <<hist, entered, kept>>

Older ==
  /\ pos < Len(hist)
  /\ Show(pos + 1, Back(pos + 1))
  /\ draft' = IF pos = 0 THEN Line ELSE draft

Newer ==
  \/ pos > 1 /\ Show(pos - 1, Back(pos - 1)) /\ UNCHANGED draft
  \/ pos = 1 /\ Show(0, draft) /\ draft' = <<>>

(* The command on a line: no comment, no blanks at its end.                *)
Stop(s, n) == n = Len(s) \/ s[n + 1] = Comment
Command(s) ==
  CHOOSE t \in {Prefix(s, n) : n \in 0 .. Len(s)} :
    \E n \in Len(t) .. Len(s) :
      /\ Stop(s, n) /\ \A i \in 1 .. n : s[i] # Comment
      /\ \A i \in Len(t) + 1 .. n : s[i] = Blank
      /\ t # <<>> => t[Len(t)] # Blank

LastOf(h) == IF Len(h) > MAX_HISTORY THEN Tail(h) ELSE h
IsNew(c) == c # <<>> /\ (hist = <<>> \/ hist[Len(hist)] # c)

Leave(h, c) ==
  /\ left' = <<>> /\ right' = <<>> /\ pos' = 0 /\ draft' = <<>>
  /\ hist' = h /\ entered' = c

Enter ==
  /\ LET c == Command(Line)
     IN  Leave(IF IsNew(c) THEN LastOf(Append(hist, c)) ELSE hist, c)
  /\ UNCHANGED kept

(* The end of the input enters nothing.                                    *)
EndOfInput == Leave(hist, entered) /\ UNCHANGED kept

(* Saving takes place on a disk that may be full.                          *)
Save == kept' \in BOOLEAN /\ UNCHANGED <<left, right, pos, draft, hist, entered>>

(* A new shell starts with the history if the disk has kept it, and        *)
(* otherwise with commands nobody can foretell, that fit.  An empty        *)
(* command is one of those, and is not kept again.                         *)
NewShell ==
  /\ Leave(hist', <<>>) /\ kept' \in BOOLEAN
  /\ IF kept /\ \A i \in 1 .. Len(hist) : hist[i] # <<>>
     THEN hist' = hist
     ELSE /\ Len(hist') <= MAX_HISTORY
          /\ \A i \in 1 .. Len(hist') : Len(hist'[i]) <= MaxLine

EditorNext ==
  \/ \E c \in Printable : Type(c)
  \/ Rubout \/ EraseRight \/ EraseLeft \/ EraseWord
  \/ \E n \in 0 .. Len(Line) : MoveTo(n)
  \/ Older \/ Newer \/ Enter \/ EndOfInput \/ Save \/ NewShell

EditorSpec == EditorInit /\ [][EditorNext]_editorVars
=============================================================================
