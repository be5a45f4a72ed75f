----------------------------- MODULE ScreenLine -----------------------------
(* What the text console promises to the code that prints on it: the glyphs  *)
(* of the row the cursor is on, from the left margin to the cursor.  This is *)
(* the view the keyboard handler relies on when it takes the column of       *)
(* VIDEO_MEMORY for the length of what was typed (kernel.c:317).             *)
EXTENDS Naturals, Sequences

CONSTANTS Cols,      \* cells of a row: 80
          Glyphs,    \* the characters that show, as model values
          Newline    \* '\n'

VARIABLE line

Chars == Glyphs \cup {Newline}
Lines == UNION {[1..n -> Glyphs] : n \in 0..(Cols - 1)}

\* The cursor row after ch: a newline starts a row, and so does the last column.
Put(s, ch) == IF ch = Newline \/ Len(s) + 1 = Cols THEN <<>> ELSE Append(s, ch)

Init == line = <<>>

PutChar == \E ch \in Chars : line' = Put(line, ch)
Clear == line' = <<>>

Next == PutChar \/ Clear

Spec == Init /\ [][Next]_line
=============================================================================
