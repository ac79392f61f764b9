------------------------------ MODULE Terminal ------------------------------
(***************************************************************************)
(* TerminalDevice as values: the text display, whose cells are numbered    *)
(* row by row, with its cursor, and the output stream the host renders     *)
(* from.  The keyboard queue is filled and drained within one call         *)
(* (Console::submit_input) and nothing in the system limits its capacity,  *)
(* so it is the sequence of characters that call is given.                 *)
(*                                                                         *)
(* Characters are strings: printable ones, and the control characters the  *)
(* code compares with.  Cell attributes never change and are left out.     *)
(***************************************************************************)
EXTENDS Naturals, Sequences

CONSTANT Columns          \* columns of the display

Blank == " "
Enters == {"NL", "CR"}
Erases == {"BS", "DEL"}
Controls == Enters \cup Erases \cup {"TAB", "ESC", "EOT", "FF"}
IsPrintable(char) == char \notin Controls

Cells(rows) == 0 .. Columns * rows - 1

NewTerminal(rows) ==
  [rows |-> rows, cells |-> [c \in Cells(rows) |-> Blank], col |-> 0, row |-> 0, out |-> <<>>]

Position(t) == t.row * Columns + t.col

-----------------------------------------------------------------------------
\* TextDisplayBuffer.

\* Every row moves up by one and the last one is cleared; a display of one row
\* is just cleared.
scroll_up(t) ==
  [t EXCEPT !.cells = [c \in Cells(t.rows) |->
                         IF c + Columns \in Cells(t.rows) THEN t.cells[c + Columns] ELSE Blank],
            !.row = t.rows - 1, !.col = 0]

newline(t) ==
  IF t.row + 1 >= t.rows THEN scroll_up(t) ELSE [t EXCEPT !.row = @ + 1, !.col = 0]

put_printable(t, char) ==
  LET put == [t EXCEPT !.cells[Position(t)] = char]
  IN  IF t.col + 1 >= Columns THEN newline(put) ELSE [put EXCEPT !.col = @ + 1]

\* Mutant: the cursor does not go back over the end of the row above.
ErasePreviousInRow(t) ==
  IF t.col = 0 THEN t
  ELSE [t EXCEPT !.col = @ - 1, !.cells[Position(t) - 1] = Blank]

\* The cell before the cursor, over the end of the row above when the cursor is
\* at the start of a row; at the top left corner there is nothing to erase.
erase_previous_cell(t) ==
  IF Position(t) = 0 THEN t
  ELSE [t EXCEPT !.row = (Position(t) - 1) \div Columns,
                 !.col = (Position(t) - 1) % Columns,
                 !.cells[Position(t) - 1] = Blank]

write_char(t, char) ==
  CASE char = "NL"     -> newline(t)
    [] char = "CR"     -> [t EXCEPT !.col = 0]
    [] char \in Erases -> erase_previous_cell(t)
    [] OTHER           -> put_printable(t, char)

write_string(t, text) ==
  LET after[i \in 0 .. Len(text)] ==
        IF i = 0 THEN t ELSE write_char(after[i - 1], text[i])
  IN  after[Len(text)]

-----------------------------------------------------------------------------
\* TerminalDevice.

write_output(t, text) == [write_string(t, text) EXCEPT !.out = @ \o text]

clear_display(t) ==
  [t EXCEPT !.cells = [c \in Cells(t.rows) |-> Blank], !.col = 0, !.row = 0,
            !.out = Append(@, "FF")]

\* Mutant: the stream is cut one character short.
DiscardAllButLast(t) == [t EXCEPT !.out = SubSeq(@, Len(@), Len(@))]

\* discard_output_stream_before(size): what the host has rendered is forgotten.
discard_output_stream(t) == [t EXCEPT !.out = <<>>]

\* TextDisplayBuffer::line, cut behind the last character that is not blank but
\* not before the cursor.
TrimmedLine(t, row) ==
  LET first == row * Columns
      keep == {n \in 1 .. Columns : t.cells[first + n - 1] # Blank}
                \cup (IF row = t.row THEN 1 .. t.col ELSE {})
      size == IF keep = {} THEN 0 ELSE CHOOSE n \in keep : \A m \in keep : m <= n
  IN  [n \in 1 .. size |-> t.cells[first + n - 1]]

\* render_terminal_display_text: the rows down to the last one with text.
RenderDisplay(t) ==
  LET visible == {row \in 0 .. t.rows - 1 : TrimmedLine(t, row) # <<>>}
      count == IF visible = {} THEN 0 ELSE 1 + CHOOSE r \in visible : \A q \in visible : q <= r
  IN  [n \in 1 .. count |-> TrimmedLine(t, n - 1)]
=============================================================================
