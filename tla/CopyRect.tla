------------------------------- MODULE CopyRect -------------------------------
(***************************************************************************)
(* CopyRectangleFromRectangle() of libvncclient/vncviewer.c, which handles *)
(* the CopyRect encoding: a rectangle of the framebuffer is copied pixel   *)
(* by pixel to another place of it, which may overlap the first.  A step   *)
(* is one turn of the inner loop.  The pixel at column x and row y, which  *)
(* the code addresses as y * width + x, is <<x, y>> here.                  *)
(***************************************************************************)
EXTENDS Integers

CONSTANTS
  Width, Height,   \* client->width and client->height
  Coordinates      \* bound: the numbers a message can carry

ASSUME SizeAssumption ==
  Width \in Nat \ {0} /\ Height \in Nat \ {0} /\ Coordinates \subseteq Nat

VARIABLES
  frameBuffer,
  before,      \* history: the framebuffer when the call began
  rect,        \* the arguments
  copying,     \* whether the loops are running
  i, j         \* the column and the row they have got to

copyVars == <<frameBuffer, before, rect, copying, i, j>>

Pixels == (0 .. Width - 1) \X (0 .. Height - 1)

\* The fields of the message are unsigned; they may reach past the framebuffer.
Rects == [src_x : Coordinates, src_y : Coordinates, dest_x : Coordinates,
          dest_y : Coordinates, w : Coordinates, h : Coordinates]

CheckRect(x, y, w, h) == x + w <= Width /\ y + h <= Height

\* Mutant: the rows are copied from the top whatever the direction.
FromTopAlways(r) == TRUE

\* Each loop starts at the end that lies towards the source.
FromLeft(r) == r.dest_x < r.src_x
FromTop(r) == r.dest_y < r.src_y

FirstColumn(r) == IF FromLeft(r) THEN r.dest_x ELSE r.dest_x + r.w - 1
FirstRow(r) == IF FromTop(r) THEN r.dest_y ELSE r.dest_y + r.h - 1

NextColumn == IF FromLeft(rect) THEN i + 1 ELSE i - 1
NextRow == IF FromTop(rect) THEN j + 1 ELSE j - 1

InColumns(x) == rect.dest_x <= x /\ x < rect.dest_x + rect.w
InRows(y) == rect.dest_y <= y /\ y < rect.dest_y + rect.h

\* _buffer[j + i]
Source(p) == <<p[1] + rect.src_x - rect.dest_x, p[2] + rect.src_y - rect.dest_y>>

CopyInit ==
  /\ frameBuffer = [p \in Pixels |-> p] /\ before = frameBuffer
  /\ rect = [src_x |-> 0, src_y |-> 0, dest_x |-> 0, dest_y |-> 0, w |-> 0, h |-> 0]
  /\ copying = FALSE /\ i = 0 /\ j = 0

\* The call with its checks of both rectangles.
CopyRectangleFromRectangle(r) ==
  /\ ~copying
  /\ rect' = r /\ before' = frameBuffer
  /\ i' = FirstColumn(r) /\ j' = FirstRow(r)
  /\ copying' = /\ CheckRect(r.src_x, r.src_y, r.w, r.h)
                /\ CheckRect(r.dest_x, r.dest_y, r.w, r.h)
  /\ UNCHANGED frameBuffer

\* The body of the inner loop.
CopyPixel ==
  /\ copying /\ InRows(j) /\ InColumns(i)
  /\ frameBuffer' = [frameBuffer EXCEPT ![<<i, j>>] = frameBuffer[Source(<<i, j>>)]]
  /\ i' = NextColumn
  /\ UNCHANGED <<before, rect, copying, j>>

\* The inner loop is through with a row.
EndOfRow ==
  /\ copying /\ InRows(j) /\ ~InColumns(i)
  /\ i' = FirstColumn(rect) /\ j' = NextRow
  /\ UNCHANGED <<frameBuffer, before, rect, copying>>

EndOfCopy ==
  /\ copying /\ ~InRows(j)
  /\ copying' = FALSE
  /\ UNCHANGED <<frameBuffer, before, rect, i, j>>

CopySteps == CopyPixel \/ EndOfRow \/ EndOfCopy

CopyNext == (\E r \in Rects : CopyRectangleFromRectangle(r)) \/ CopySteps

CopySpec == CopyInit /\ [][CopyNext]_copyVars

-------------------------------------------------------------------------------
\* The pixels of the destination that have had their turn.
RowDone(y) == IF FromTop(rect) THEN y < j ELSE y > j
ColumnDone(x) == IF FromLeft(rect) THEN x < i ELSE x > i
Done(p) ==
  /\ InColumns(p[1]) /\ InRows(p[2])
  /\ RowDone(p[2]) \/ (p[2] = j /\ ColumnDone(p[1]))

\* While a rectangle is copied, however its source and its destination overlap,
\* every pixel that has had its turn shows what its source showed before the
\* call, and every other one what it showed itself: the order of the loops never
\* reads a pixel that has been overwritten, and no read or write leaves the
\* framebuffer.
CopiedAtOnce ==
  copying =>
    \A p \in Pixels :
      IF Done(p)
      THEN Source(p) \in Pixels /\ frameBuffer[p] = before[Source(p)]
      ELSE frameBuffer[p] = before[p]
===============================================================================
