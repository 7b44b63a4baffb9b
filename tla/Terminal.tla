------------------------------ MODULE Terminal ------------------------------
(***************************************************************************)
(* What the console promises its writers: a page of text that ends with    *)
(* the line being written.  A new line is added at the end of the page and *)
(* the page keeps the last Height of them.                                 *)
(***************************************************************************)
EXTENDS Integers, Sequences

CONSTANTS Width, Height, Tab, Printable, Blank

BlankLine == [x \in 0 .. Width - 1 |-> Blank]

\* A page is its lines, the last one being written in column col.
Page == {p \in [lines : Seq([0 .. Width - 1 -> Printable \cup {Blank}]),
                col : 0 .. Width - 1] : Len(p.lines) \in 1 .. Height}

EmptyPage == [lines |-> <<BlankLine>>, col |-> 0]

NewLine(p) ==
  LET more == Append(p.lines, BlankLine)
  IN  [lines |-> IF Len(more) > Height THEN Tail(more) ELSE more, col |-> 0]

MoveTo(p, x) == IF x < Width THEN [p EXCEPT !.col = x] ELSE NewLine(p)

\* The least multiple of Tab to the right of x.
NextTab(x) == CHOOSE y \in x + 1 .. x + Tab : y % Tab = 0

Typed(p, c) ==
  CASE c = "nl"        -> NewLine(p)
    [] c = "cr"        -> [p EXCEPT !.col = 0]
    [] c = "bs"        -> [p EXCEPT !.col = IF @ = 0 THEN 0 ELSE @ - 1]
    [] c = "tab"       -> MoveTo(p, NextTab(p.col))
    [] c \in Printable -> MoveTo([p EXCEPT !.lines[Len(p.lines)][p.col] = c],
                                 p.col + 1)
    [] OTHER           -> p

Row(p) == Len(p.lines) - 1

\* The character at a place of the screen.
At(p, y, x) == IF y \in 0 .. Row(p) THEN p.lines[y + 1][x] ELSE Blank

=============================================================================
