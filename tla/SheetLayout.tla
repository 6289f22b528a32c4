----------------------------- MODULE SheetLayout -----------------------------
(***************************************************************************)
(* How BIBs are laid out on a sheet (internal/generator/layout.go): paper,  *)
(* grid and crop marks.  Lengths are half millimetres, so that centring a  *)
(* grid given in whole millimetres is exact; the code's floating point and *)
(* its rounding are left out.                                              *)
(***************************************************************************)
EXTENDS Naturals, Integers

CONSTANT NoMargin

SheetMargin == 20
CropMark == 10

paperSizes ==
  [paper \in {"a4", "a3", "a3plus", "sra3"} |->
     CASE paper = "a4" -> [w |-> 420, h |-> 594]
       [] paper = "a3" -> [w |-> 594, h |-> 840]
       [] paper = "a3plus" -> [w |-> 658, h |-> 966]
       [] paper = "sra3" -> [w |-> 640, h |-> 900]]

(* A layout: paper, landscape, cols, rows, gutter, bleed and margin. *)
Margin(l) == IF l.margin = NoMargin THEN SheetMargin ELSE l.margin

SheetSize(l) ==
  LET size == paperSizes[l.paper]
  IN IF l.landscape THEN [w |-> size.h, h |-> size.w] ELSE size

(* A plausible mistake: the bleed is counted once between two BIBs. *)
GridWithOneBleed(cell, l) ==
  LET Fit(available, size) ==
        IF available + l.gutter < 0 THEN 0
        ELSE (available + l.gutter) \div (size + l.bleed + l.gutter)
  IN [cols |-> Fit(SheetSize(l).w - 2 * Margin(l), cell.w),
      rows |-> Fit(SheetSize(l).h - 2 * Margin(l), cell.h)]

(* How many BIBs fit, each with its bleed on every side. *)
MaxGrid(cell, l) ==
  LET Fit(available, size) ==
        IF available + l.gutter < 0 THEN 0
        ELSE (available + l.gutter) \div (size + 2 * l.bleed + l.gutter)
  IN [cols |-> Fit(SheetSize(l).w - 2 * Margin(l), cell.w),
      rows |-> Fit(SheetSize(l).h - 2 * Margin(l), cell.h)]

Validate(cell, l) ==
  /\ l.cols >= 1 /\ l.rows >= 1
  /\ l.gutter \in 0..100 /\ l.bleed \in 0..40 /\ Margin(l) \in 0..100
  /\ l.paper \in DOMAIN paperSizes
  /\ l.cols <= MaxGrid(cell, l).cols /\ l.rows <= MaxGrid(cell, l).rows

(* The trim box of each BIB by its row and column, the grid centred. *)
PlaceCells(cell, l) ==
  LET pitchX == cell.w + 2 * l.bleed + l.gutter
      pitchY == cell.h + 2 * l.bleed + l.gutter
      left == (SheetSize(l).w - (l.cols * pitchX - l.gutter)) \div 2 + l.bleed
      top == (SheetSize(l).h - (l.rows * pitchY - l.gutter)) \div 2 + l.bleed
  IN [at \in (0..l.rows - 1) \X (0..l.cols - 1) |->
        [x1 |-> left + at[2] * pitchX, x2 |-> left + at[2] * pitchX + cell.w,
         y1 |-> top + at[1] * pitchY, y2 |-> top + at[1] * pitchY + cell.h]]

(* Along every cut, before and behind the grid's outer bleed. *)
CropMarkLines(cells, bleed) ==
  LET all == {cells[at] : at \in DOMAIN cells}
      xs == {c.x1 : c \in all} \union {c.x2 : c \in all}
      ys == {c.y1 : c \in all} \union {c.y2 : c \in all}
      Lowest(s) == CHOOSE n \in s : \A k \in s : n <= k
      Highest(s) == CHOOSE n \in s : \A k \in s : n >= k
      Ends(s) == LET offset == bleed + 2
                 IN {<<Lowest(s) - offset - CropMark, Lowest(s) - offset>>,
                     <<Highest(s) + offset, Highest(s) + offset + CropMark>>}
  IN {[x1 |-> x, x2 |-> x, y1 |-> y[1], y2 |-> y[2]] : x \in xs, y \in Ends(ys)}
     \union {[x1 |-> x[1], x2 |-> x[2], y1 |-> y, y2 |-> y] : x \in Ends(xs), y \in ys}
=============================================================================
