---------------------------- MODULE DecoderProofs ----------------------------
(***************************************************************************)
(* The decoders, for framebuffers, buffers, rectangles, tiles and sessions *)
(* of every size: CopyRect copies as if all pixels were copied at once;    *)
(* the zlib streams stay in step with the server's and every row is drawn  *)
(* once; a tile is drawn with what the server means, from where its data   *)
(* is.                                                                     *)
(***************************************************************************)
EXTENDS MCDecoders, TLAPS

(***************************************************************************)
(* Arithmetic                                                              *)
(***************************************************************************)
\* The portion and the room in the buffer are the smaller of two numbers.
LEMMA MinOfTwo ==
  ASSUME NEW a \in Nat, NEW b \in Nat
  PROVE  Min({a, b}) = IF a <= b THEN a ELSE b
<1> DEFINE m == IF a <= b THEN a ELSE b
<1>1. m \in {a, b} /\ \A y \in {a, b} : m <= y
  OBVIOUS
<1>2. \A z \in {a, b} : (\A y \in {a, b} : z <= y) => z = m
  OBVIOUS
<1> HIDE DEF m
<1>3. Min({a, b}) = m
  BY <1>1, <1>2, Zenon DEF Min
<1> QED BY <1>3 DEF m

\* More rows are more bytes.
LEMMA ProductMonotonic ==
  ASSUME NEW a \in Nat, NEW b \in Nat, NEW r \in Nat, a <= b
  PROVE  a * r \in Nat /\ a * r <= b * r
<1>1. PICK d \in Nat : b = a + d
  <2>1. b - a \in Nat /\ b = a + (b - a)
    OBVIOUS
  <2> QED BY <2>1
<1>2. b * r = a * r + d * r
  BY <1>1
<1>3. a * r \in Nat /\ d * r \in Nat
  OBVIOUS
<1> QED BY <1>2, <1>3

\* Full rows and less than a row: the number of rows is the quotient.
LEMMA RowsBelow ==
  ASSUME NEW a \in Nat, NEW b \in Nat, NEW r \in Nat \ {0}, NEW e \in Nat, a * r + e <= b * r
  PROVE  a <= b
<1> SUFFICES ASSUME b + 1 <= a PROVE FALSE
  OBVIOUS
<1>1. (b + 1) * r <= a * r
  <2>1. b + 1 \in Nat /\ r \in Nat
    OBVIOUS
  <2> QED BY <2>1, ProductMonotonic
<1>2. (b + 1) * r = b * r + r
  OBVIOUS
<1>3. b * r \in Nat /\ a * r \in Nat
  OBVIOUS
<1> QED BY <1>1, <1>2, <1>3

\* When less than a row is left over, the numbers of rows are equal.
LEMMA RowsExact ==
  ASSUME NEW a \in Nat, NEW b \in Nat, NEW r \in Nat \ {0}, NEW e \in Nat, e < r,
         a * r + e = b * r
  PROVE  a = b
<1>1. a <= b
  BY RowsBelow
<1>2. SUFFICES ASSUME a + 1 <= b PROVE FALSE
  BY <1>1
<1>3. (a + 1) * r <= b * r
  <2>1. a + 1 \in Nat /\ r \in Nat
    OBVIOUS
  <2> QED BY <2>1, <1>2, ProductMonotonic
<1>4. (a + 1) * r = a * r + r
  OBVIOUS
<1>5. a * r \in Nat
  OBVIOUS
<1> QED BY <1>3, <1>4, <1>5

\* The rows of a filled buffer and the rest that is moved to its front.
LEMMA RowsAndRest ==
  ASSUME NEW f \in Nat, NEW r \in Nat \ {0}
  PROVE  /\ f \div r \in Nat /\ f % r \in Nat /\ f % r < r
         /\ f = (f \div r) * r + (f % r)
<1>1. f \div r \in Nat /\ f % r \in 0 .. r - 1
  OBVIOUS
<1>2. f = (f \div r) * r + (f % r)
  BY Z3
<1> QED BY <1>1, <1>2

(***************************************************************************)
(* CopyRect                                                                *)
(***************************************************************************)
\* Where the loops can be: a loop that runs upwards has not started below the
\* destination, one that runs downwards not above it.
Cursor ==
  /\ i \in Int /\ j \in Int
  /\ IF FromLeft(rect) THEN i >= rect.dest_x ELSE i < rect.dest_x + rect.w
  /\ IF FromTop(rect) THEN j >= rect.dest_y ELSE j < rect.dest_y + rect.h

\* The checks the call has made.
Checked ==
  /\ rect.src_x + rect.w <= Width /\ rect.src_y + rect.h <= Height
  /\ rect.dest_x + rect.w <= Width /\ rect.dest_y + rect.h <= Height

CopyInv ==
  /\ frameBuffer \in [Pixels -> Pixels] /\ before \in [Pixels -> Pixels]
  /\ rect \in [src_x : Nat, src_y : Nat, dest_x : Nat, dest_y : Nat, w : Nat, h : Nat]
  /\ copying \in BOOLEAN
  /\ copying => Cursor /\ Checked
  /\ CopiedAtOnce

\* A destination pixel has its source in the framebuffer, and when its turn comes
\* that source has not had its own.
LEMMA SourceIsFresh ==
  ASSUME CopyInv, copying, InRows(j), InColumns(i)
  PROVE  /\ <<i, j>> \in Pixels /\ Source(<<i, j>>) \in Pixels
         /\ ~Done(<<i, j>>) /\ ~Done(Source(<<i, j>>))
<1>1. <<i, j>> \in Pixels /\ Source(<<i, j>>) \in Pixels
  BY SizeAssumption DEF CopyInv, Cursor, Checked, InRows, InColumns, Pixels, Source
<1>2. ~Done(<<i, j>>)
  BY DEF CopyInv, Cursor, Done, RowDone, ColumnDone
<1>3. ~Done(Source(<<i, j>>))
  BY DEF CopyInv, Cursor, Done, RowDone, ColumnDone, Source, FromTop, FromLeft
<1> QED BY <1>1, <1>2, <1>3

\* Nothing is copied at first.
LEMMA CopyInitInv == CopyInit => CopyInv
<1> SUFFICES ASSUME CopyInit PROVE CopyInv
  OBVIOUS
<1>1. frameBuffer \in [Pixels -> Pixels] /\ before \in [Pixels -> Pixels]
  BY DEF CopyInit
<1>2. rect \in [src_x : Nat, src_y : Nat, dest_x : Nat, dest_y : Nat, w : Nat, h : Nat]
  BY DEF CopyInit
<1>3. copying = FALSE
  BY DEF CopyInit
<1> QED BY <1>1, <1>2, <1>3 DEF CopyInv, CopiedAtOnce

\* A call starts with no pixel done.
LEMMA CallInv ==
  ASSUME CopyInv, NEW r \in Rects, CopyRectangleFromRectangle(r)
  PROVE  CopyInv'
<1> USE DEF CopyRectangleFromRectangle
<1>1. r \in [src_x : Nat, src_y : Nat, dest_x : Nat, dest_y : Nat, w : Nat, h : Nat]
  BY SizeAssumption DEF Rects
<1>2. copying' => Cursor' /\ Checked'
  <2>1. copying' => Checked'
    BY DEF Checked, CheckRect
  <2>2. i' \in Int /\ (IF FromLeft(r) THEN i' >= r.dest_x ELSE i' < r.dest_x + r.w)
    BY <1>1 DEF FirstColumn
  <2>3. j' \in Int /\ (IF FromTop(r) THEN j' >= r.dest_y ELSE j' < r.dest_y + r.h)
    BY <1>1 DEF FirstRow
  <2> QED BY <2>1, <2>2, <2>3 DEF Cursor, FromLeft, FromTop
<1>3. ASSUME NEW p \in Pixels PROVE ~Done(p)'
  BY <1>1, SizeAssumption
     DEF Done, RowDone, ColumnDone, InRows, InColumns, FirstColumn, FirstRow, FromLeft, FromTop, Pixels
<1>4. CopiedAtOnce'
  BY <1>3 DEF CopiedAtOnce, CopyInv
<1> QED BY <1>1, <1>2, <1>4 DEF CopyInv

\* A pixel is copied from one that has not had its turn.
LEMMA PixelInv == ASSUME CopyInv, CopyPixel PROVE CopyInv'
<1> USE DEF CopyPixel
<1>1. PICK s \in Pixels : s = Source(<<i, j>>) /\ ~Done(s)
  BY SourceIsFresh
<1>2. <<i, j>> \in Pixels /\ ~Done(<<i, j>>)
  BY SourceIsFresh
<1>3. frameBuffer[s] = before[s]
  BY <1>1 DEF CopyInv, CopiedAtOnce
<1>4. frameBuffer' = [frameBuffer EXCEPT ![<<i, j>>] = before[s]]
  BY <1>1, <1>3
<1>5. frameBuffer' \in [Pixels -> Pixels]
  BY <1>1, <1>4 DEF CopyInv
<1>6. Cursor' /\ Checked'
  BY DEF CopyInv, Cursor, Checked, NextColumn, FromLeft, FromTop, InColumns
<1>7. ASSUME NEW p \in Pixels
      PROVE  Done(p)' <=> Done(p) \/ p = <<i, j>>
  <2>1. /\ p[1] \in Int /\ p[2] \in Int /\ p = <<p[1], p[2]>>
        /\ i \in Int /\ j \in Int /\ InRows(j) /\ InColumns(i)
    BY DEF Pixels, CopyInv, Cursor
  <2>2. ColumnDone(p[1])' <=> ColumnDone(p[1]) \/ p[1] = i
    BY <2>1 DEF ColumnDone, NextColumn, FromLeft
  <2>3. /\ RowDone(p[2])' <=> RowDone(p[2])
        /\ InColumns(p[1])' <=> InColumns(p[1])
        /\ InRows(p[2])' <=> InRows(p[2])
    BY DEF RowDone, FromTop, InColumns, InRows
  <2> QED BY <2>1, <2>2, <2>3 DEF Done
<1>8. ASSUME NEW p \in Pixels PROVE Source(p)' = Source(p)
  BY DEF Source
<1>9. CopiedAtOnce'
  <2> SUFFICES ASSUME NEW p \in Pixels
               PROVE  IF Done(p)' THEN Source(p) \in Pixels /\ frameBuffer'[p] = before[Source(p)]
                      ELSE frameBuffer'[p] = before[p]
    BY <1>8 DEF CopiedAtOnce
  <2>1. CASE p = <<i, j>>
    BY <2>1, <1>1, <1>4, <1>7 DEF CopyInv
  <2>2. CASE p # <<i, j>>
    <3>1. frameBuffer'[p] = frameBuffer[p]
      BY <2>2, <1>4 DEF CopyInv
    <3> QED BY <2>2, <3>1, <1>7 DEF CopyInv, CopiedAtOnce
  <2> QED BY <2>1, <2>2
<1> QED BY <1>5, <1>6, <1>9 DEF CopyInv

\* The next row starts with the same pixels done.
LEMMA RowInv == ASSUME CopyInv, EndOfRow PROVE CopyInv'
<1> USE DEF EndOfRow
<1>1. Cursor' /\ Checked'
  BY DEF CopyInv, Cursor, Checked, FirstColumn, NextRow, FromLeft, FromTop, InRows
<1>2. ASSUME NEW p \in Pixels
      PROVE  Done(p)' <=> Done(p)
  BY DEF Done, RowDone, ColumnDone, InRows, InColumns, FirstColumn, NextRow, CopyInv, Cursor,
         FromLeft, FromTop, Pixels
<1>3. ASSUME NEW p \in Pixels PROVE Source(p)' = Source(p)
  BY DEF Source
<1>4. CopiedAtOnce'
  BY <1>2, <1>3 DEF CopyInv, CopiedAtOnce
<1> QED BY <1>1, <1>4 DEF CopyInv

\* The loops are over.
LEMMA EndInv == ASSUME CopyInv, EndOfCopy PROVE CopyInv'
  BY DEF EndOfCopy, CopyInv, CopiedAtOnce

\* CopyRectangleFromRectangle() copies as if every pixel were read before one is
\* written, and stays in the framebuffer.
THEOREM CopyIsSimultaneous == CopySpec => []CopiedAtOnce
<1>1. CopyInit => CopyInv
  BY CopyInitInv
<1>2. CopyInv /\ [CopyNext]_copyVars => CopyInv'
  <2> SUFFICES ASSUME CopyInv, [CopyNext]_copyVars PROVE CopyInv'
    OBVIOUS
  <2>1. ASSUME NEW r \in Rects, CopyRectangleFromRectangle(r) PROVE CopyInv'
    BY <2>1, CallInv
  <2>2. CASE CopyPixel
    BY <2>2, PixelInv
  <2>3. CASE EndOfRow
    BY <2>3, RowInv
  <2>4. CASE EndOfCopy
    BY <2>4, EndInv
  <2>5. CASE UNCHANGED copyVars
    BY <2>5 DEF copyVars, CopyInv, Cursor, Checked, CopiedAtOnce, Done, RowDone, ColumnDone,
                InRows, InColumns, Source, FromLeft, FromTop
  <2> QED BY <2>1, <2>2, <2>3, <2>4, <2>5 DEF CopyNext, CopySteps
<1>3. CopyInv => CopiedAtOnce
  BY DEF CopyInv
<1> QED BY <1>1, <1>2, <1>3, PTL DEF CopySpec

(***************************************************************************)
(* Zlib, ZRLE and Tight                                                    *)
(***************************************************************************)
InLoop == at \in {"portion", "inflate"}
Mixed == sent["zlib"] > 0 /\ sent["zrle"] > 0

StreamTypes ==
  /\ sent \in [Compressors -> Nat] /\ rects \in Nat
  /\ active \in [Inflaters -> BOOLEAN] /\ inflated \in [Inflaters -> Nat]
  /\ at \in {"idle", "portion", "inflate", "failed"}
  /\ InLoop => stream \in Streams

\* The stream of the rectangle in the loop has one chunk to inflate, every other
\* one of Tight none.
TightInStep ==
  \A s \in Streams :
    IF InLoop /\ s = stream THEN active[s] /\ inflated[s] + 1 = sent[s]
    ELSE IF active[s] THEN inflated[s] = sent[s] ELSE sent[s] = 0

\* client->decompStream follows the one compressor the server has used for it.
SharedInStep ==
  /\ ~active["decompStream"] => sent["zlib"] = 0 /\ sent["zrle"] = 0
  /\ active["decompStream"] /\ ~Mixed => inflated["decompStream"] = sent["zlib"] + sent["zrle"]

RowTypes ==
  /\ rowSize \in 1 .. BufferSize /\ rh \in Nat /\ compressedLen \in Nat /\ rowsProcessed \in Nat
  /\ extraBytes \in Nat /\ ready \in Nat /\ gained \in Nat /\ fresh \in BOOLEAN

\* In the loop the bytes gained are where they should be, and all of the rectangle
\* is gained when its last portion has been read.
RowCounts ==
  InLoop =>
    /\ rowsProcessed * rowSize + extraBytes + ready = gained
    /\ extraBytes < rowSize
    /\ gained <= rh * rowSize
    /\ compressedLen = 0 => gained = rh * rowSize
    /\ at = "portion" => ready = 0

RowsInv == RowTypes /\ RowCounts

StreamInv == StreamTypes /\ TightInStep /\ SharedInStep /\ RefusedOnlyIfMixed
ZlibInv == StreamInv /\ RowsInv

\* No more rows than the rectangle has can come of the bytes gained.
LEMMA RowsImply == RowsInv => RowsAccountedFor
<1> SUFFICES ASSUME RowsInv, InLoop PROVE rowsProcessed <= rh
  BY DEF RowsInv, RowTypes, RowCounts, RowsAccountedFor, InLoop
<1>1. rowsProcessed * rowSize \in Nat
  BY DEF RowsInv, RowTypes, RowCounts
<1>2. rowsProcessed * rowSize + (extraBytes + ready) <= rh * rowSize
  BY <1>1 DEF RowsInv, RowTypes, RowCounts
<1> QED BY <1>2, RowsBelow DEF RowsInv, RowTypes, RowCounts

\* When the last portion is used up every row has been drawn.
LEMMA LastRow == ASSUME RowsInv, EndOfRect PROVE rowsProcessed = rh
<1>1. rowsProcessed * rowSize + extraBytes = rh * rowSize /\ extraBytes < rowSize
  BY DEF RowsInv, RowTypes, RowCounts, EndOfRect, InLoop
<1> QED BY <1>1, RowsExact DEF RowsInv, RowTypes, RowCounts

\* A turn of the inner loop.
LEMMA InflateRows == ASSUME RowsInv, Inflate PROVE RowsInv'
<1> DEFINE out == IF ready <= BufferSize - extraBytes THEN ready ELSE BufferSize - extraBytes
           filled == extraBytes + out
<1>1. /\ at = "inflate" /\ extraBytes < BufferSize /\ BufferSize \in Nat
      /\ BufferSize - extraBytes \in Nat /\ BufferSize - extraBytes > 0
  BY ZlibAssumption DEF RowsInv, RowTypes, RowCounts, Inflate, InLoop
<1>2. Min({ready, BufferSize - extraBytes}) = out
  BY <1>1, MinOfTwo DEF RowsInv, RowTypes, RowCounts
<1>3. out \in Nat /\ filled \in Nat /\ ready - out \in Nat
  BY <1>1 DEF RowsInv, RowTypes, RowCounts
<1>4. ASSUME out = 0, ~fresh PROVE RowsInv'
  <2>1. at' = "portion" /\ ready = 0
    BY <1>1, <1>2, <1>4 DEF Inflate, RowsInv, RowTypes, RowCounts
  <2>2. UNCHANGED <<stream, rowSize, rh, compressedLen, rowsProcessed, extraBytes, ready, fresh, gained>>
    BY <1>2, <1>4 DEF Inflate
  <2> QED BY <1>1, <2>1, <2>2 DEF RowsInv, RowTypes, RowCounts, InLoop
<1>5. ASSUME ~(out = 0 /\ ~fresh) PROVE RowsInv'
  <2>1. /\ rowsProcessed' = rowsProcessed + filled \div rowSize
        /\ extraBytes' = filled % rowSize
        /\ ready' = ready - out /\ fresh' = FALSE
        /\ at' = (IF filled = BufferSize THEN "inflate" ELSE "portion")
        /\ UNCHANGED <<rowSize, rh, compressedLen, gained>>
    BY <1>2, <1>5 DEF Inflate
  <2>2. /\ filled \div rowSize \in Nat /\ filled % rowSize \in Nat /\ filled % rowSize < rowSize
        /\ filled = (filled \div rowSize) * rowSize + (filled % rowSize)
    <3>1. filled \in Nat /\ rowSize \in Nat \ {0}
      BY <1>3 DEF RowsInv, RowTypes
    <3> HIDE DEF filled
    <3> QED BY <3>1, RowsAndRest
  <2> HIDE DEF filled
  <2>3. PICK q \in Nat : q = filled \div rowSize
    BY <2>2
  <2>4. (rowsProcessed + q) * rowSize = rowsProcessed * rowSize + q * rowSize
    BY DEF RowsInv, RowTypes, RowCounts
  <2>5. rowsProcessed * rowSize \in Nat /\ q * rowSize \in Nat /\ filled = extraBytes + out
    BY <2>3 DEF RowsInv, RowTypes, RowCounts, filled
  <2>6. rowsProcessed' * rowSize' + extraBytes' + ready' = gained'
    <3>1. rowsProcessed' * rowSize' = rowsProcessed * rowSize + q * rowSize
      BY <2>1, <2>3, <2>4
    <3>2. q * rowSize + extraBytes' = extraBytes + out
      <4>1. extraBytes' = filled % rowSize
        BY <2>1
      <4>2. filled = q * rowSize + (filled % rowSize)
        BY <2>2, <2>3
      <4> QED BY <4>1, <4>2, <2>5
    <3>3. rowsProcessed * rowSize + extraBytes + ready = gained
      BY <1>1 DEF RowsInv, RowTypes, RowCounts, InLoop
    <3>4. extraBytes' \in Nat /\ ready' = ready - out
      BY <2>1, <2>2
    <3> HIDE DEF out
    <3> QED BY <3>1, <3>2, <3>3, <3>4, <1>3, <2>1, <2>5 DEF RowsInv, RowTypes, RowCounts
  <2>7. at' = "portion" => ready' = 0
    BY <2>1, <1>1, <1>3 DEF RowsInv, RowTypes, RowCounts, filled
  <2>8. /\ rowSize' \in 1 .. BufferSize /\ rh' \in Nat /\ compressedLen' \in Nat
        /\ rowsProcessed' \in Nat /\ extraBytes' \in Nat /\ ready' \in Nat /\ gained' \in Nat
        /\ fresh' \in BOOLEAN /\ extraBytes' < rowSize'
    <3>1. extraBytes' \in Nat /\ extraBytes' < rowSize'
      <4>1. extraBytes' = filled % rowSize /\ rowSize' = rowSize
        BY <2>1
      <4> QED BY <4>1, <2>2
    <3>2. rowsProcessed' \in Nat
      <4>1. rowsProcessed' = rowsProcessed + q /\ rowsProcessed \in Nat
        BY <2>1, <2>3 DEF RowsInv, RowTypes
      <4> QED BY <4>1
    <3>3. ready' \in Nat /\ fresh' \in BOOLEAN
      BY <1>3, <2>1
    <3>4. rowSize' \in 1 .. BufferSize /\ rh' \in Nat /\ compressedLen' \in Nat /\ gained' \in Nat
      BY <2>1 DEF RowsInv, RowTypes, RowCounts
    <3> QED BY <3>1, <3>2, <3>3, <3>4
  <2>9. gained' <= rh' * rowSize' /\ (compressedLen' = 0 => gained' = rh' * rowSize')
    BY <1>1, <2>1 DEF RowsInv, RowTypes, RowCounts, InLoop
  <2> QED BY <2>6, <2>7, <2>8, <2>9 DEF RowsInv, RowTypes, RowCounts
<1> QED BY <1>4, <1>5

\* A turn of the outer loop.
LEMMA ReadRows == ASSUME RowsInv, ReadPortion PROVE RowsInv'
<1> DEFINE portionLen == Min({compressedLen, PortionSize})
<1>1. portionLen \in Nat /\ portionLen <= compressedLen
  BY MinOfTwo, ZlibAssumption DEF RowsInv, RowTypes, RowCounts
<1>2. /\ at = "portion" /\ at' = "inflate" /\ fresh' = TRUE
      /\ compressedLen' = compressedLen - portionLen /\ compressedLen > 0
      /\ UNCHANGED <<rowSize, rh, rowsProcessed, extraBytes>>
  BY DEF ReadPortion
<1>3. PICK g \in 0 .. rh * rowSize - gained :
        /\ compressedLen' = 0 => gained + g = rh * rowSize
        /\ ready' = g /\ gained' = gained + g
  BY DEF ReadPortion
<1> HIDE DEF portionLen
<1>4. rh * rowSize \in Nat /\ rowsProcessed * rowSize \in Nat /\ g \in Nat /\ ready = 0
      /\ gained + g <= rh * rowSize
  BY <1>2, <1>3 DEF RowsInv, RowTypes, RowCounts, InLoop
<1>5. compressedLen' \in Nat
  BY <1>1, <1>2 DEF RowsInv, RowTypes, RowCounts
<1>6. /\ rowsProcessed' * rowSize' + extraBytes' + ready' = gained'
      /\ gained' <= rh' * rowSize'
      /\ compressedLen' = 0 => gained' = rh' * rowSize'
      /\ extraBytes' < rowSize'
  BY <1>2, <1>3, <1>4 DEF RowsInv, RowTypes, RowCounts, InLoop
<1> QED BY <1>2, <1>3, <1>4, <1>5, <1>6 DEF RowsInv, RowTypes, RowCounts

\* Outside HandleTight() its counts stay as they are.
LEMMA TightRows ==
  ASSUME RowsInv, NEW c, NEW resets, NEW r \in RowSizes, NEW rows \in 1 .. MaxRows,
         NEW length \in 1 .. MaxLength, HandleTight(c, resets, r, rows, length)
  PROVE  RowsInv'
<1>1. r \in 1 .. BufferSize /\ rows \in Nat /\ length \in Nat \ {0}
  BY ZlibAssumption
<1>2. /\ rowSize' = r /\ rh' = rows /\ compressedLen' = length /\ at' = "portion"
      /\ rowsProcessed' = 0 /\ extraBytes' = 0 /\ ready' = 0 /\ fresh' = FALSE /\ gained' = 0
  BY DEF HandleTight
<1>3. rowsProcessed' * rowSize' + extraBytes' + ready' = gained'
  BY <1>1, <1>2
<1>4. gained' <= rh' * rowSize'
  <2>1. rows * r \in Nat
    BY <1>1
  <2> QED BY <2>1, <1>2
<1>5. RowTypes'
  BY <1>1, <1>2 DEF RowTypes
<1>6. RowCounts'
  BY <1>1, <1>2, <1>3, <1>4 DEF RowCounts
<1> QED BY <1>5, <1>6 DEF RowsInv

\* Every step keeps the count of the rows.
LEMMA RowsStep == ASSUME RowsInv, [ZlibNext]_zlibVars PROVE RowsInv'
<1>1. ASSUME NEW c, NEW resets, NEW r \in RowSizes, NEW rows \in 1 .. MaxRows,
             NEW length \in 1 .. MaxLength, HandleTight(c, resets, r, rows, length)
      PROVE  RowsInv'
  BY <1>1, TightRows
<1>2. ASSUME UNCHANGED loop, at' \in {at, "idle", "failed"} PROVE RowsInv'
  <2>1. /\ rowSize' = rowSize /\ rh' = rh /\ compressedLen' = compressedLen /\ ready' = ready
        /\ rowsProcessed' = rowsProcessed /\ extraBytes' = extraBytes /\ fresh' = fresh
        /\ gained' = gained
    BY <1>2 DEF loop
  <2>2. InLoop' => at' = at
    BY <1>2 DEF InLoop
  <2> QED BY <2>1, <2>2 DEF RowsInv, RowTypes, RowCounts, InLoop
<1>3. ASSUME (\E resets, solid : HandlePlain(resets, solid)) \/ HandleZlib \/ HandleZRLE
             \/ InflateFails \/ EndOfRect \/ UNCHANGED zlibVars
      PROVE  RowsInv'
  <2>1. UNCHANGED loop
    BY <1>3, Zenon DEF HandlePlain, HandleZlib, HandleZRLE, Decompress, InflateFails, EndOfRect, zlibVars
  <2>2. at' \in {at, "idle", "failed"}
    BY <1>3 DEF HandlePlain, HandleZlib, HandleZRLE, Decompress, InflateFails, EndOfRect, zlibVars
  <2> QED BY <1>2, <2>1, <2>2
<1> QED BY <1>1, <1>3, ReadRows, InflateRows DEF ZlibNext, HandleRect, TightLoop

-------------------------------------------------------------------------------
\* The streams of Tight are not the one Zlib and ZRLE share.
LEMMA Names ==
  /\ Inflaters = Streams \cup {"decompStream"}
  /\ "zlib" \notin Streams /\ "zrle" \notin Streams /\ "none" \notin Compressors
  /\ "decompStream" \notin Streams /\ "none" \notin Streams
<1>1. /\ "zlib" \notin Streams /\ "zrle" \notin Streams /\ "none" \notin Streams
      /\ "decompStream" \notin Streams
  BY ZlibAssumption
<1>2. Inflaters = Streams \cup {"decompStream"}
  BY <1>1 DEF Inflaters, Inflater, Compressors
<1> QED BY <1>1, <1>2 DEF Compressors

\* A rectangle starts: the streams it resets and the one it uses.
LEMMA TightStreams ==
  ASSUME StreamInv, NEW c \in Streams, NEW resets \in SUBSET Streams, NEW r,
         NEW rows, NEW length, HandleTight(c, resets, r, rows, length)
  PROVE  StreamInv'
<1>1. /\ at = "idle" /\ at' = "portion" /\ stream' = c /\ rects' = rects + 1
      /\ sent' = [b \in Compressors |->
             (IF b \in resets THEN 0 ELSE sent[b]) + (IF b = c THEN 1 ELSE 0)]
      /\ active' = [Flushed(resets, FALSE) EXCEPT ![c] = TRUE]
      /\ inflated' = Inited(Flushed(resets, FALSE), c)
  BY DEF HandleTight, Sends, Compressed
<1>2. /\ c \in Compressors /\ c \in Inflaters /\ Streams \subseteq Compressors
      /\ Streams \subseteq Inflaters /\ "zlib" \in Compressors /\ "zrle" \in Compressors
      /\ "decompStream" \in Inflaters
  BY Names DEF Compressors
<1>3. /\ sent' \in [Compressors -> Nat] /\ sent'[c] = (IF c \in resets THEN 0 ELSE sent[c]) + 1
      /\ \A b \in Compressors \ {c} : sent'[b] = IF b \in resets THEN 0 ELSE sent[b]
  BY <1>1, <1>2 DEF StreamInv, StreamTypes
<1>4. /\ active' \in [Inflaters -> BOOLEAN] /\ active'[c]
      /\ \A s \in Inflaters \ {c} : active'[s] = (active[s] /\ s \notin resets)
  BY <1>1, <1>2 DEF StreamInv, StreamTypes, Flushed
<1>5. /\ inflated' \in [Inflaters -> Nat]
      /\ inflated'[c] = IF active[c] /\ c \notin resets THEN inflated[c] ELSE 0
      /\ \A s \in Inflaters \ {c} : inflated'[s] = inflated[s]
  BY <1>1, <1>2 DEF StreamInv, StreamTypes, Flushed, Inited
<1>6. StreamTypes'
  <2>1. rects' \in Nat /\ at' \in {"idle", "portion", "inflate", "failed"} /\ stream' \in Streams
    BY <1>1 DEF StreamInv, StreamTypes
  <2> QED BY <2>1, <1>3, <1>4, <1>5 DEF StreamTypes
<1>7. ~InLoop /\ InLoop'
  BY <1>1 DEF InLoop
<1>8. TightInStep'
  <2> SUFFICES ASSUME NEW s \in Streams
               PROVE  IF s = c THEN active'[s] /\ inflated'[s] + 1 = sent'[s]
                      ELSE IF active'[s] THEN inflated'[s] = sent'[s] ELSE sent'[s] = 0
    BY <1>1, <1>7 DEF TightInStep
  <2>1. IF active[s] THEN inflated[s] = sent[s] ELSE sent[s] = 0
    BY <1>7 DEF StreamInv, TightInStep
  <2>2. sent[s] \in Nat /\ inflated[s] \in Nat
    BY <1>2 DEF StreamInv, StreamTypes
  <2>3. CASE s = c
    BY <2>1, <2>2, <2>3, <1>3, <1>4, <1>5
  <2>4. CASE s # c
    BY <2>1, <2>2, <2>4, <1>2, <1>3, <1>4, <1>5
  <2> QED BY <2>3, <2>4
<1>9. SharedInStep' /\ RefusedOnlyIfMixed'
  <2>1. /\ "zlib" \notin resets /\ "zrle" \notin resets /\ "decompStream" \notin resets
        /\ c # "zlib" /\ c # "zrle" /\ c # "decompStream"
    BY Names
  <2>2. /\ sent'["zlib"] = sent["zlib"] /\ sent'["zrle"] = sent["zrle"]
        /\ active'["decompStream"] = active["decompStream"]
        /\ inflated'["decompStream"] = inflated["decompStream"]
    BY <2>1, <1>2, <1>3, <1>4, <1>5 DEF StreamInv, StreamTypes
  <2> QED BY <2>2, <1>1 DEF StreamInv, SharedInStep, Mixed, RefusedOnlyIfMixed
<1> QED BY <1>6, <1>8, <1>9 DEF StreamInv

\* A rectangle without a stream may still reset some.
LEMMA PlainStreams ==
  ASSUME StreamInv, NEW resets \in SUBSET Streams, NEW solid \in BOOLEAN,
         HandlePlain(resets, solid)
  PROVE  StreamInv'
<1>1. /\ at = "idle" /\ at' = at /\ stream' = stream /\ rects' = rects + 1
      /\ sent' = [b \in Compressors |->
             (IF b \in resets THEN 0 ELSE sent[b]) + (IF b = "none" THEN 1 ELSE 0)]
      /\ active' = Flushed(resets, solid) /\ inflated' = inflated
  BY DEF HandlePlain, Sends, Compressed, loop
<1>2. /\ Streams \subseteq Compressors /\ "none" \notin Compressors
      /\ Streams \subseteq Inflaters /\ "zlib" \in Compressors /\ "zrle" \in Compressors
      /\ "decompStream" \in Inflaters
  BY Names DEF Compressors
<1>3. /\ sent' \in [Compressors -> Nat]
      /\ \A b \in Compressors : sent'[b] = IF b \in resets THEN 0 ELSE sent[b]
  BY <1>1, <1>2 DEF StreamInv, StreamTypes
<1>4. /\ active' \in [Inflaters -> BOOLEAN]
      /\ \A s \in Inflaters : active'[s] = (active[s] /\ s \notin resets)
  BY <1>1, <1>2 DEF StreamInv, StreamTypes, Flushed
<1>5. ~InLoop /\ ~InLoop'
  BY <1>1 DEF InLoop
<1>6. StreamTypes'
  BY <1>1, <1>3, <1>4, <1>5 DEF StreamInv, StreamTypes
<1>7. TightInStep'
  BY <1>1, <1>2, <1>3, <1>4, <1>5 DEF StreamInv, TightInStep
<1>8. SharedInStep' /\ RefusedOnlyIfMixed'
  <2>1. "zlib" \notin resets /\ "zrle" \notin resets /\ "decompStream" \notin resets
    BY Names
  <2>2. /\ sent'["zlib"] = sent["zlib"] /\ sent'["zrle"] = sent["zrle"]
        /\ active'["decompStream"] = active["decompStream"]
    BY <2>1, <1>2, <1>3, <1>4 DEF StreamInv, StreamTypes
  <2> QED BY <2>2, <1>1 DEF StreamInv, SharedInStep, Mixed, RefusedOnlyIfMixed
<1> QED BY <1>6, <1>7, <1>8 DEF StreamInv

\* Zlib and ZRLE.
LEMMA SharedStreams ==
  ASSUME StreamInv, NEW c \in {"zlib", "zrle"}, Decompress(c)
  PROVE  StreamInv'
<1> DEFINE d == "decompStream"
           taken == IF active[d] THEN inflated[d] ELSE 0
<1>1. /\ at = "idle" /\ at' \in {"idle", "failed"} /\ stream' = stream /\ rects' = rects + 1
      /\ sent' = [b \in Compressors |->
             (IF b \in {} THEN 0 ELSE sent[b]) + (IF b = c THEN 1 ELSE 0)]
      /\ active' = [active EXCEPT ![d] = TRUE]
      /\ IF Inited(active, d)[d] = sent[c]
         THEN inflated' = [Inited(active, d) EXCEPT ![d] = @ + 1] /\ at' = "idle"
         ELSE inflated' = Inited(active, d) /\ at' = "failed"
  BY DEF Decompress, Sends, Compressed, loop
<1>2. /\ Streams \subseteq Compressors /\ Streams \subseteq Inflaters
      /\ "zlib" \in Compressors /\ "zrle" \in Compressors /\ d \in Inflaters
      /\ d \notin Streams /\ c \notin Streams
  BY Names DEF Compressors
<1>3. /\ sent' \in [Compressors -> Nat] /\ sent'[c] = sent[c] + 1
      /\ \A b \in Compressors \ {c} : sent'[b] = sent[b]
  BY <1>1, <1>2 DEF StreamInv, StreamTypes
<1>4. /\ active' \in [Inflaters -> BOOLEAN] /\ active'[d]
      /\ \A s \in Inflaters \ {d} : active'[s] = active[s]
  BY <1>1, <1>2 DEF StreamInv, StreamTypes
<1>5. /\ inflated' \in [Inflaters -> Nat]
      /\ \A s \in Inflaters \ {d} : inflated'[s] = inflated[s]
      /\ IF taken = sent[c] THEN inflated'[d] = taken + 1 /\ at' = "idle"
         ELSE inflated'[d] = taken /\ at' = "failed"
  <2>1. Inited(active, d) = [inflated EXCEPT ![d] = taken]
    BY <1>2 DEF Inited
  <2>2. taken \in Nat /\ Inited(active, d) \in [Inflaters -> Nat] /\ Inited(active, d)[d] = taken
        /\ \A s \in Inflaters \ {d} : Inited(active, d)[s] = inflated[s]
    BY <2>1, <1>2 DEF StreamInv, StreamTypes
  <2> HIDE DEF taken
  <2>3. CASE taken = sent[c]
    BY <2>2, <2>3, <1>1, <1>2
  <2>4. CASE taken # sent[c]
    BY <2>2, <2>4, <1>1
  <2> QED BY <2>3, <2>4
<1>6. ~InLoop /\ ~InLoop'
  BY <1>1 DEF InLoop
<1>7. StreamTypes'
  BY <1>1, <1>3, <1>4, <1>5, <1>6 DEF StreamInv, StreamTypes
<1>8. TightInStep'
  BY <1>2, <1>3, <1>4, <1>5, <1>6 DEF StreamInv, TightInStep
<1>9. SharedInStep' /\ RefusedOnlyIfMixed'
  <2>1. /\ sent["zlib"] \in Nat /\ sent["zrle"] \in Nat /\ inflated[d] \in Nat
    BY <1>2 DEF StreamInv, StreamTypes
  <2>2. PICK o \in {"zlib", "zrle"} : o # c
    OBVIOUS
  <2>3. sent'[o] = sent[o] /\ sent'[c] = sent[c] + 1
    BY <2>2, <1>2, <1>3
  <2>4. ~Mixed' => sent[o] = 0
    BY <2>1, <2>2, <2>3 DEF Mixed
  <2>5. ~Mixed' => taken = sent[c]
    BY <2>1, <2>2, <2>4 DEF StreamInv, SharedInStep, Mixed
  <2>6. ~Mixed' => inflated'[d] = sent'["zlib"] + sent'["zrle"] /\ at' = "idle"
    BY <2>1, <2>2, <2>3, <2>4, <2>5, <1>5
  <2> QED BY <2>6, <1>4 DEF SharedInStep, RefusedOnlyIfMixed, Mixed
<1> QED BY <1>7, <1>8, <1>9 DEF StreamInv

\* The stream of a rectangle has taken it in.
LEMMA EndStreams ==
  ASSUME StreamInv, RowsInv, EndOfRect
  PROVE  StreamInv'
<1>1. /\ InLoop /\ at' = "idle" /\ stream \in Streams /\ stream \in Inflaters
      /\ inflated' = [inflated EXCEPT ![stream] = @ + 1]
      /\ sent' = sent /\ rects' = rects /\ active' = active /\ stream' = stream
  BY LastRow, Names DEF EndOfRect, StreamInv, StreamTypes, InLoop, server, loop
<1>2. ~InLoop'
  BY <1>1 DEF InLoop
<1>3. StreamTypes'
  BY <1>1, <1>2 DEF StreamInv, StreamTypes
<1>4. TightInStep'
  BY <1>1, <1>2, Names DEF StreamInv, StreamTypes, TightInStep
<1>5. SharedInStep' /\ RefusedOnlyIfMixed'
  BY <1>1, Names DEF StreamInv, StreamTypes, SharedInStep, Mixed, RefusedOnlyIfMixed
<1> QED BY <1>3, <1>4, <1>5 DEF StreamInv

\* Within the loop of one rectangle the streams stay as they are.
LEMMA LoopStreams ==
  ASSUME StreamInv, UNCHANGED <<sent, rects, active, inflated, stream, at>>
         \/ (InLoop /\ InLoop' /\ UNCHANGED <<sent, rects, active, inflated, stream>>)
  PROVE  StreamInv'
<1>1. /\ sent' = sent /\ rects' = rects /\ active' = active /\ inflated' = inflated
      /\ stream' = stream /\ InLoop' = InLoop /\ (at' = at \/ at' \in {"portion", "inflate"})
  BY DEF InLoop
<1>2. StreamTypes'
  BY <1>1 DEF StreamInv, StreamTypes
<1>3. TightInStep' /\ SharedInStep' /\ RefusedOnlyIfMixed'
  BY <1>1 DEF StreamInv, TightInStep, SharedInStep, RefusedOnlyIfMixed, Mixed
<1> QED BY <1>2, <1>3 DEF StreamInv

\* Every step keeps the streams in step; inflate() is never given what it cannot use.
LEMMA StreamsStep ==
  ASSUME StreamInv, RowsInv, [ZlibNext]_zlibVars
  PROVE  StreamInv'
<1>1. ASSUME ReadPortion \/ Inflate PROVE StreamInv'
  <2>1. UNCHANGED <<sent, rects, active, inflated, stream>>
    BY <1>1, Zenon DEF ReadPortion, Inflate, server, client
  <2>2. InLoop /\ InLoop'
    BY <1>1 DEF ReadPortion, Inflate, InLoop
  <2> QED BY <2>1, <2>2, LoopStreams
<1>2. ASSUME InflateFails PROVE FALSE
  BY <1>2 DEF InflateFails, InTheWay, StreamInv, StreamTypes, TightInStep, InLoop
<1>3. ASSUME UNCHANGED zlibVars PROVE StreamInv'
  BY <1>3, LoopStreams DEF zlibVars, server, client, loop
<1>4. HandleRect => StreamInv'
  BY TightStreams, PlainStreams, SharedStreams DEF HandleRect, HandleZlib, HandleZRLE
<1> QED BY <1>1, <1>2, <1>3, <1>4, EndStreams DEF ZlibNext, TightLoop

\* No stream is active at first.
LEMMA ZlibInitInv == ZlibInit => ZlibInv
<1> SUFFICES ASSUME ZlibInit PROVE ZlibInv
  OBVIOUS
<1>1. at = "idle" /\ ~InLoop
  BY DEF ZlibInit, InLoop
<1>2. RowsInv
  <2>1. RowTypes
    <3>1. /\ rowSize = 1 /\ rh = 0 /\ compressedLen = 0 /\ rowsProcessed = 0
          /\ extraBytes = 0 /\ ready = 0 /\ fresh = FALSE /\ gained = 0
      BY Zenon DEF ZlibInit
    <3>2. 1 \in 1 .. BufferSize
      BY ZlibAssumption
    <3> QED BY <3>1, <3>2 DEF RowTypes
  <2> QED BY <1>1, <2>1 DEF RowsInv, RowCounts
<1>3. StreamTypes
  BY <1>1 DEF StreamTypes, ZlibInit
<1>4. TightInStep
  BY <1>1, Names DEF TightInStep, ZlibInit, Compressors
<1>5. SharedInStep /\ RefusedOnlyIfMixed
  BY <1>1, Names DEF SharedInStep, RefusedOnlyIfMixed, ZlibInit, Compressors
<1> QED BY <1>2, <1>3, <1>4, <1>5 DEF ZlibInv, StreamInv

\* The invariant of the compressed rectangles.
LEMMA ZlibInvHolds == ZlibInit /\ [][ZlibNext]_zlibVars => []ZlibInv
<1>1. ZlibInv /\ [ZlibNext]_zlibVars => ZlibInv'
  BY RowsStep, StreamsStep DEF ZlibInv
<1> QED BY <1>1, ZlibInitInv, PTL

\* What the invariant says of the streams and of the rows.
LEMMA ZlibImplies == ZlibInv => StreamsInStep /\ RowsAccountedFor
<1>1. ZlibInv => StreamsInStep
  BY DEF ZlibInv, StreamInv, StreamsInStep, TightInStep, InLoop
<1>2. ZlibInv => RowsAccountedFor
  BY RowsImply DEF ZlibInv
<1> QED BY <1>1, <1>2

\* Every zlib stream of HandleTight() stands where the server's compressor does, and
\* a rectangle is refused only when Zlib and ZRLE have shared decompStream.
THEOREM StreamsStayInStep == ZlibSpec => []StreamsInStep
BY ZlibInvHolds, ZlibImplies, PTL DEF ZlibSpec

\* HandleTight() draws every row that has been inflated once, whatever the sizes of
\* the portions, of the rows and of the buffer.
THEOREM EveryRowOnce == ZlibSpec => []RowsAccountedFor
BY ZlibInvHolds, ZlibImplies, PTL DEF ZlibSpec

(***************************************************************************)
(* TRLE and Hextile                                                        *)
(***************************************************************************)
\* What the server may refer back to is what the client has kept.
TRLEKept ==
  \/ recent = None
  \/ recent = Solid(color) /\ last_type = 1
  \/ \E n \in PaletteSizes, c \in Colours :
       /\ recent = Palette(n, c) /\ palette = recent
       /\ \/ last_type = n /\ n <= 16 /\ bpp = BitsPerIndex(n)
          \/ last_type = 128 + n

HextileKept == bg = recentBg /\ (recentFg # 0 => fg = recentFg)

DrawnInv == TRLEKept /\ HextileKept /\ DrawnAsMeant

\* The bits of an index divide a byte.
LEMMA BitsOfIndex == \A n \in Nat : BitsPerIndex(n) \in {1, 2, 4, 8}
  BY DEF BitsPerIndex

\* What a tile is drawn with is known by its kind.
LEMMA Kinds ==
  /\ None.kind = "none" /\ Raw.kind = "pixels"
  /\ \A c : Solid(c).kind = "solid"
  /\ \A n, c : Palette(n, c).kind = "palette" /\ Palette(n, c).size = n
  /\ \A p, b : Indices(p, b).kind = "indices"
  BY DEF None, Raw, Solid, Palette, Indices

\* The first byte of a TRLE tile.
LEMMA TRLETileDrawn ==
  ASSUME DrawnInv, TRLETile
  PROVE  DrawnInv'
<1>1. HextileKept' /\ pc = "tile"
  BY DEF DrawnInv, HextileKept, TRLETile, RawTile, RunLengthTile, ReusedTile, ReusedRunTile, SolidTile,
         PackedTile, PaletteRunTile, NextTile, hextile
<1>2. ASSUME RawTile \/ RunLengthTile PROVE TRLEKept' /\ DrawnAsMeant'
  <2>1. UNCHANGED <<last_type, palette, bpp, color, recent>> /\ meant' = Raw /\ drawn' = Raw /\ pc' # "failed"
    BY <1>1, <1>2 DEF RawTile, RunLengthTile, StartPixels, trle
  <2> QED BY <2>1 DEF DrawnInv, TRLEKept, DrawnAsMeant
<1>3. ASSUME NEW c \in Colours, SolidTile(c) PROVE TRLEKept' /\ DrawnAsMeant'
  BY <1>1, <1>3 DEF SolidTile, TRLEKept, DrawnAsMeant
<1>4. ASSUME NEW n \in PaletteSizes, NEW c \in Colours, PackedTile(n, c)
      PROVE TRLEKept' /\ DrawnAsMeant'
  <2>1. /\ n <= 16 /\ palette' = Palette(n, c) /\ bpp' = BitsPerIndex(n) /\ last_type' = n
        /\ recent' = palette' /\ meant' = Indices(palette', BitsPerIndex(n))
        /\ drawn' = Indices(palette', bpp') /\ pc' = "packed"
    BY <1>4 DEF PackedTile, StartPixels
  <2> QED BY <2>1 DEF TRLEKept, DrawnAsMeant
<1>5. ASSUME NEW n \in PaletteSizes, NEW c \in Colours, PaletteRunTile(n, c)
      PROVE TRLEKept' /\ DrawnAsMeant'
  <2>1. /\ palette' = Palette(n, c) /\ last_type' = 128 + n
        /\ recent' = palette' /\ meant' = palette' /\ drawn' = palette' /\ pc' = "runs"
    BY <1>5 DEF PaletteRunTile, StartPixels
  <2> QED BY <2>1 DEF TRLEKept, DrawnAsMeant
<1>6. ASSUME ReusedRunTile PROVE TRLEKept' /\ DrawnAsMeant'
  <2>1. /\ recent.kind = "palette" /\ meant' = recent /\ drawn' = palette /\ pc' = "runs"
        /\ UNCHANGED <<last_type, palette, bpp, color, recent>>
    BY <1>6 DEF ReusedRunTile, StartPixels, trle
  <2>2. palette = recent
    BY <2>1, Kinds DEF DrawnInv, TRLEKept
  <2> QED BY <2>1, <2>2 DEF DrawnInv, TRLEKept, DrawnAsMeant
<1>7. ASSUME ReusedTile PROVE TRLEKept' /\ DrawnAsMeant'
  <2>1. UNCHANGED <<palette, color, recent>>
    BY <1>7 DEF ReusedTile
  <2>2. CASE recent.kind = "solid"
    <3>1. recent = Solid(color) /\ last_type = 1
      BY <2>2, Kinds DEF DrawnInv, TRLEKept
    <3>2. meant' = recent
      BY <1>7, <2>2 DEF ReusedTile
    <3>3. drawn' = Solid(color) /\ UNCHANGED <<pc, last_type, bpp>>
      BY <1>7, <3>1 DEF ReusedTile
    <3> QED BY <1>1, <2>1, <3>1, <3>2, <3>3 DEF TRLEKept, DrawnAsMeant
  <2>3. CASE recent.kind # "solid"
    <3>1. recent.kind = "palette" /\ recent.size <= 16 /\ meant' = Indices(recent, BitsPerIndex(recent.size))
      BY <1>7, <2>3 DEF ReusedTile
    <3>2. PICK n \in PaletteSizes, c \in Colours :
            /\ recent = Palette(n, c) /\ palette = recent
            /\ \/ last_type = n /\ n <= 16 /\ bpp = BitsPerIndex(n)
               \/ last_type = 128 + n
      BY <3>1, Kinds DEF DrawnInv, TRLEKept
    <3>3. n \in 2 .. 127 /\ recent.size = n /\ n <= 16
      BY <3>1, <3>2, Kinds, TileAssumption
    <3>4. last_type \notin {0, 1, 128}
      BY <3>2, <3>3
    <3>5. /\ last_type' = (IF last_type >= 130 THEN last_type - 128 ELSE last_type)
          /\ bpp' = (IF last_type >= 130 THEN BitsPerIndex(last_type') ELSE bpp)
          /\ drawn' = Indices(palette, bpp') /\ pc' = "packed"
      BY <1>7, <3>4 DEF ReusedTile, StartPixels
    <3>6. last_type' = n /\ bpp' = BitsPerIndex(n)
      BY <3>2, <3>3, <3>5
    <3> QED BY <2>1, <3>1, <3>2, <3>3, <3>5, <3>6 DEF TRLEKept, DrawnAsMeant
  <2> QED BY <2>2, <2>3
<1> QED BY <1>1, <1>2, <1>3, <1>4, <1>5, <1>6, <1>7 DEF TRLETile, DrawnInv

\* A tile of Hextile.
LEMMA HextileDrawn ==
  ASSUME DrawnInv, Hextile
  PROVE  DrawnInv'
<1>1. UNCHANGED <<pc, last_type, palette, bpp, color, recent>>
  BY DEF Hextile, HextileRaw, HextileTile, NextHextile, trle
<1>2. TRLEKept'
  BY <1>1 DEF DrawnInv, TRLEKept
<1>3. CASE HextileRaw
  BY <1>1, <1>2, <1>3 DEF HextileRaw, hextile, DrawnInv, HextileKept, DrawnAsMeant
<1>4. ASSUME NEW back \in Colours, NEW fore \in Colours,
             NEW specified \in SUBSET {"background", "foreground"},
             NEW subrects \in {"none", "one colour", "coloured"},
             HextileTile(back, fore, specified, subrects)
      PROVE  DrawnInv'
  <2>1. bg' = back /\ recentBg' = back
    BY <1>4 DEF HextileTile, DrawnInv, HextileKept
  <2>2. fore # 0
    BY TileAssumption
  <2>3. HextileKept'
    BY <1>4, <2>1, <2>2 DEF HextileTile, DrawnInv, HextileKept
  <2>4. subrects = "one colour" => fg' = fore
    BY <1>4, <2>2 DEF HextileTile, DrawnInv, HextileKept
  <2>5. meant' = drawn'
    BY <1>4, <2>1, <2>4 DEF HextileTile
  <2> QED BY <1>1, <1>2, <2>3, <2>5 DEF DrawnInv, DrawnAsMeant
<1> QED BY <1>3, <1>4 DEF Hextile

\* Every step keeps what the server may refer back to.
LEMMA DrawnStep == ASSUME DrawnInv, [TileNext]_tileVars PROVE DrawnInv'
<1>1. ASSUME TRLEPixels \/ UNCHANGED tileVars PROVE DrawnInv'
  <2>1. /\ UNCHANGED <<last_type, palette, bpp, color, recent, bg, fg, recentBg, recentFg, meant, drawn>>
        /\ pc' \in {pc, "tile"}
    BY <1>1 DEF TRLEPixels, PackedPixel, PackedRow, EndOfTile, Run, tileVars, trle, hextile
  <2> QED BY <2>1 DEF DrawnInv, TRLEKept, HextileKept, DrawnAsMeant
<1> QED BY <1>1, TRLETileDrawn, HextileDrawn DEF TileNext

\* A tile that refers back to a palette or a colour is drawn with the one the server
\* means and is never refused.
THEOREM TilesDrawnAsMeant == TileSpec => []DrawnAsMeant
<1>1. TileInit => DrawnInv
  BY DEF TileInit, DrawnInv, TRLEKept, HextileKept, DrawnAsMeant
<1>2. DrawnInv => DrawnAsMeant
  BY DEF DrawnInv
<1> QED BY <1>1, <1>2, DrawnStep, PTL DEF TileSpec
-------------------------------------------------------------------------------
\* Bytes of a row of indices.
RowBytes(bits, width) == (width + 8 \div bits - 1) \div (8 \div bits)

TileTypes ==
  /\ bpp \in {0, 1, 2, 4, 8} /\ pc \in {"tile", "packed", "runs", "failed"}
  /\ encoding = "hextile" => pc = "tile"
  /\ w \in 0 .. Side /\ h \in 0 .. Side /\ column \in Nat /\ row \in Nat
  /\ base \in Nat /\ run \in Nat /\ buffer \in Nat

\* Where the loops are in a tile.
InTile ==
  IF pc \in {"packed", "runs"}
  THEN /\ w > 0 /\ h > 0 /\ column <= w /\ row <= h /\ (row = h => column = 0)
       /\ base <= Side * Side * PixelBytes
  ELSE buffer = 0

PackedInv ==
  pc = "packed" =>
    /\ bpp # 0
    /\ shift = 8 - bpp - ((column * bpp) % 8)
    /\ buffer = base + row * RowBytes(bpp, w) + (column * bpp) \div 8

\* No run is longer in bytes than in pixels, or, of plain pixels, than its pixels and
\* as many bytes of length.
RunsInv ==
  pc = "runs" =>
    /\ column < w
    /\ IF drawn = Raw
       THEN run = PixelBytes /\ base = 0 /\ buffer <= (row * w + column) * (PixelBytes + 1)
       ELSE run = 1 /\ buffer <= base + (row * w + column)

BufferInv == TileTypes /\ InTile /\ PackedInv /\ RunsInv

\* A byte holds whole indices.
LEMMA NextIndex ==
  ASSUME NEW bits \in {1, 2, 4, 8}, NEW col \in Nat, NEW s,
         s = 8 - bits - ((col * bits) % 8)
  PROVE  IF s < bits
         THEN /\ ((col + 1) * bits) \div 8 = (col * bits) \div 8 + 1
              /\ ((col + 1) * bits) % 8 = 0
         ELSE /\ ((col + 1) * bits) \div 8 = (col * bits) \div 8
              /\ s - bits = 8 - bits - (((col + 1) * bits) % 8)
<1>1. CASE bits = 1
  BY <1>1
<1>2. CASE bits = 2
  BY <1>2
<1>3. CASE bits = 4
  BY <1>3
<1>4. CASE bits = 8
  BY <1>4
<1> QED BY <1>1, <1>2, <1>3, <1>4

\* The bytes of a row are those that are full and, if there is one, the last.
LEMMA BytesOfRow ==
  ASSUME NEW bits \in {1, 2, 4, 8}, NEW width \in Nat, NEW s,
         s = 8 - bits - ((width * bits) % 8)
  PROVE  RowBytes(bits, width) = (width * bits) \div 8 + (IF s < 8 - bits THEN 1 ELSE 0)
<1>1. CASE bits = 1
  BY <1>1 DEF RowBytes
<1>2. CASE bits = 2
  BY <1>2 DEF RowBytes
<1>3. CASE bits = 4
  BY <1>3 DEF RowBytes
<1>4. CASE bits = 8
  BY <1>4 DEF RowBytes
<1> QED BY <1>1, <1>2, <1>3, <1>4

\* An index takes no more than a byte.
LEMMA IndicesShort ==
  ASSUME NEW bits \in {1, 2, 4, 8}, NEW width \in Nat
  PROVE  /\ (width * bits) \div 8 \in Nat /\ (width * bits) \div 8 <= width
         /\ RowBytes(bits, width) \in Nat /\ RowBytes(bits, width) <= width
<1>1. CASE bits = 1
  BY <1>1 DEF RowBytes
<1>2. CASE bits = 2
  BY <1>2 DEF RowBytes
<1>3. CASE bits = 4
  BY <1>3 DEF RowBytes
<1>4. CASE bits = 8
  BY <1>4 DEF RowBytes
<1> QED BY <1>1, <1>2, <1>3, <1>4

\* The pixels of a tile up to the one the loops are at.
LEMMA PixelsOfTile ==
  ASSUME TileTypes, InTile, pc \in {"packed", "runs"}
  PROVE  /\ row * w \in Nat /\ row * w + column <= h * w
         /\ h * w \in Nat /\ h * w <= Side * Side /\ Side * Side \in Nat
<1>1. /\ w \in Nat /\ h \in Nat /\ w <= Side /\ h <= Side /\ Side \in Nat /\ row \in Nat /\ column \in Nat
      /\ row <= h /\ column <= w /\ (row = h => column = 0)
  BY TileAssumption DEF TileTypes, InTile
<1>2. h * w <= Side * w /\ h * w \in Nat /\ row * w \in Nat
  BY <1>1, ProductMonotonic
<1>3. w * Side <= Side * Side /\ Side * Side \in Nat /\ w * Side \in Nat
  BY <1>1, ProductMonotonic
<1>4. w * Side = Side * w
  BY <1>1
<1>5. row * w + column <= h * w
  <2>1. CASE row = h
    BY <2>1, <1>1, <1>2
  <2>2. CASE row + 1 <= h
    <3>1. (row + 1) * w <= h * w
      BY <2>2, <1>1, ProductMonotonic
    <3>2. (row + 1) * w = row * w + w
      BY <1>1
    <3> QED BY <3>1, <3>2, <1>1, <1>2
  <2> QED BY <2>1, <2>2, <1>1
<1> QED BY <1>2, <1>3, <1>4, <1>5

\* raw_buffer has room for two bytes of every pixel and byte of a pixel.
LEMMA RoomForTile ==
  ASSUME NEW area \in Nat, area <= Side * Side
  PROVE  /\ Side * Side * PixelBytes \in Nat
         /\ Side * Side * PixelBytes + area <= RawBufferSize
         /\ area * (PixelBytes + 1) <= RawBufferSize
<1> DEFINE S == Side * Side
<1>1. S \in Nat /\ PixelBytes \in Nat /\ 1 <= PixelBytes /\ PixelBytes + 1 \in Nat
  BY TileAssumption
<1> HIDE DEF S
<1>2. S * PixelBytes \in Nat /\ 1 * S <= PixelBytes * S /\ PixelBytes * S = S * PixelBytes
  BY <1>1, ProductMonotonic
<1>3. area * (PixelBytes + 1) <= S * (PixelBytes + 1)
  BY <1>1, ProductMonotonic DEF S
<1>4. S * (PixelBytes + 1) = S * PixelBytes + S
  BY <1>1
<1>5. RawBufferSize = S * PixelBytes * 2
  BY DEF RawBufferSize, S
<1>6. area <= S
  BY DEF S
<1>7. area * (PixelBytes + 1) \in Nat
  BY <1>1
<1> QED BY <1>1, <1>2, <1>3, <1>4, <1>5, <1>6, <1>7 DEF S

LEMMA BufferImplied == BufferInv => PixelsInBuffer
<1> SUFFICES ASSUME BufferInv PROVE PixelsInBuffer
  OBVIOUS
<1>1. CASE pc \notin {"packed", "runs"}
  <2>1. buffer = 0 /\ RawBufferSize \in Nat
    BY <1>1, TileAssumption DEF BufferInv, InTile, RawBufferSize
  <2> QED BY <1>1, <2>1 DEF PixelsInBuffer, IndicesAligned, BufferFits
<1>2. CASE pc \in {"packed", "runs"}
  <2>1. /\ row * w \in Nat /\ row * w + column <= h * w
        /\ h * w \in Nat /\ h * w <= Side * Side
    BY <1>2, PixelsOfTile DEF BufferInv
  <2>2. /\ Side * Side * PixelBytes \in Nat
        /\ Side * Side * PixelBytes + h * w <= RawBufferSize
        /\ (h * w) * (PixelBytes + 1) <= RawBufferSize
    BY <2>1, RoomForTile
  <2>3. /\ base <= Side * Side * PixelBytes /\ base \in Nat /\ column \in Nat /\ row \in Nat /\ w \in Nat
        /\ buffer \in Nat /\ RawBufferSize \in Nat
    BY <1>2, TileAssumption DEF BufferInv, InTile, TileTypes, RawBufferSize
  <2>4. CASE pc = "packed"
    <3>1. /\ bpp \in {1, 2, 4, 8}
          /\ buffer = base + row * RowBytes(bpp, w) + (column * bpp) \div 8
          /\ shift = 8 - bpp - ((column * bpp) % 8)
      BY <2>4 DEF BufferInv, PackedInv, TileTypes
    <3>2. /\ RowBytes(bpp, w) \in Nat /\ RowBytes(bpp, w) <= w
          /\ (column * bpp) \div 8 \in Nat /\ (column * bpp) \div 8 <= column
      BY <2>3, <3>1, IndicesShort
    <3>3. row * RowBytes(bpp, w) \in Nat /\ row * RowBytes(bpp, w) <= row * w
      <4>1. /\ RowBytes(bpp, w) * row \in Nat /\ RowBytes(bpp, w) * row <= w * row
            /\ RowBytes(bpp, w) * row = row * RowBytes(bpp, w) /\ w * row = row * w
        BY <2>3, <3>2, ProductMonotonic
      <4> QED BY <4>1
    <3>4. BufferFits
      BY <2>1, <2>2, <2>3, <3>1, <3>2, <3>3 DEF BufferFits
    <3>5. IndicesAligned
      BY <3>1 DEF IndicesAligned, RowBytes
    <3> QED BY <3>4, <3>5 DEF PixelsInBuffer
  <2>5. CASE pc = "runs"
    <3>1. CASE drawn = Raw
      <4>1. buffer <= (row * w + column) * (PixelBytes + 1)
        BY <2>5, <3>1 DEF BufferInv, RunsInv
      <4>2. (row * w + column) * (PixelBytes + 1) <= (h * w) * (PixelBytes + 1)
            /\ (row * w + column) * (PixelBytes + 1) \in Nat
            /\ (h * w) * (PixelBytes + 1) \in Nat
        <5>1. row * w + column \in Nat /\ PixelBytes + 1 \in Nat
          BY <2>1, <2>3, TileAssumption
        <5> QED BY <5>1, <2>1, ProductMonotonic
      <4> QED BY <4>1, <4>2, <2>2, <2>3, <2>5 DEF PixelsInBuffer, IndicesAligned, BufferFits
    <3>2. CASE drawn # Raw
      <4>1. buffer <= base + (row * w + column)
        BY <2>5, <3>2 DEF BufferInv, RunsInv
      <4> QED BY <4>1, <2>1, <2>2, <2>3, <2>5 DEF PixelsInBuffer, IndicesAligned, BufferFits
    <3> QED BY <3>1, <3>2
  <2> QED BY <1>2, <2>4, <2>5
<1> QED BY <1>1, <1>2

\* No rows, no bytes.
LEMMA ZeroTimes == \A k \in Nat : 0 * k = 0
  OBVIOUS

\* The loops of a tile start with the palette behind them.
LEMMA StartBuffer ==
  ASSUME TileTypes', encoding = "trle",
         NEW n \in Nat, n = 0 \/ n \in PaletteSizes, NEW first, NEW bits,
         \/ /\ StartPixels("packed", n, first, bits) /\ bits \in {1, 2, 4, 8} /\ bpp' = bits
         \/ /\ StartPixels("runs", n, first, bits)
            /\ IF drawn' = Raw THEN first = PixelBytes /\ n = 0 ELSE first = 1
  PROVE  InTile' /\ PackedInv' /\ RunsInv'
<1>1. /\ w' \in Widths /\ h' \in Heights /\ column' = 0 /\ row' = 0 /\ shift' = 8 - bits
      /\ buffer' = n * PixelBytes /\ base' = n * PixelBytes /\ run' = first
      /\ pc' \in {"packed", "runs"}
  BY DEF StartPixels
<1>2. /\ w' \in Nat /\ h' \in Nat /\ w' > 0 /\ h' > 0
      /\ Side \in Nat /\ PixelBytes \in Nat /\ PixelBytes + 1 \in Nat
  BY <1>1, TileAssumption
<1>3. n * PixelBytes \in Nat /\ n * PixelBytes <= Side * Side * PixelBytes
  <2>1. n <= Side * Side /\ Side * Side \in Nat /\ PixelBytes \in Nat
    BY TileAssumption
  <2> QED BY <2>1, ProductMonotonic
<1>4. InTile'
  BY <1>1, <1>2, <1>3 DEF InTile
<1>5. PackedInv'
  <2> SUFFICES ASSUME pc' = "packed"
               PROVE  /\ bpp' # 0
                      /\ shift' = 8 - bpp' - ((column' * bpp') % 8)
                      /\ buffer' = base' + row' * RowBytes(bpp', w') + (column' * bpp') \div 8
    BY DEF PackedInv, RowBytes
  <2>1. bits \in {1, 2, 4, 8} /\ bpp' = bits
    BY DEF StartPixels
  <2>2. (0 * bits) % 8 = 0 /\ (0 * bits) \div 8 = 0 /\ 0 * RowBytes(bits, w') = 0
    <3>1. RowBytes(bits, w') \in Nat
      BY <1>2, <2>1, IndicesShort
    <3> QED BY <2>1, <3>1
  <2> QED BY <1>1, <1>3, <2>1, <2>2
<1>6. RunsInv'
  <2> SUFFICES ASSUME pc' = "runs" PROVE RunsInv'
    BY DEF RunsInv
  <2>1. IF drawn' = Raw THEN first = PixelBytes /\ n = 0 ELSE first = 1
    BY DEF StartPixels
  <2>2. 0 * w' = 0 /\ 0 * PixelBytes = 0 /\ 0 * (PixelBytes + 1) = 0
    BY <1>2, ZeroTimes
  <2>3. n = 0 => n * PixelBytes = 0
    BY <1>2, ZeroTimes
  <2>4. row' * w' + column' = 0 /\ (row' * w' + column') * (PixelBytes + 1) = 0
    BY <2>2, <1>1
  <2>5. buffer' = base' /\ base' \in Nat /\ run' = first /\ column' < w' /\ (n = 0 => base' = 0)
    BY <1>1, <1>2, <1>3, <2>3
  <2> QED BY <2>1, <2>4, <2>5 DEF RunsInv
<1> QED BY <1>4, <1>5, <1>6

\* The first byte of a TRLE tile sets the buffer.
LEMMA TRLETileBuffer ==
  ASSUME BufferInv, DrawnInv, TRLETile
  PROVE  BufferInv'
<1>1. /\ encoding = "trle" /\ encoding' = "trle" /\ pc = "tile" /\ TileTypes /\ buffer = 0
  BY DEF BufferInv, InTile, TRLETile, RawTile, RunLengthTile, ReusedTile, ReusedRunTile, SolidTile,
         PackedTile, PaletteRunTile, NextTile
<1>2. ASSUME UNCHANGED <<pc, bpp, loops>> PROVE BufferInv'
  <2>1. /\ pc' = pc /\ bpp' = bpp /\ w' = w /\ h' = h /\ column' = column /\ row' = row /\ base' = base
        /\ run' = run /\ buffer' = buffer
    BY <1>2 DEF loops
  <2> QED BY <1>1, <2>1 DEF BufferInv, TileTypes, InTile, PackedInv, RunsInv
<1>3. ASSUME NEW n \in Nat, n = 0 \/ n \in PaletteSizes, NEW first \in {0, 1, PixelBytes}, NEW bits,
             bpp' \in {0, 1, 2, 4, 8},
             \/ /\ StartPixels("packed", n, first, bits) /\ bits \in {1, 2, 4, 8} /\ bpp' = bits
             \/ /\ StartPixels("runs", n, first, bits)
                /\ IF drawn' = Raw THEN first = PixelBytes /\ n = 0 ELSE first = 1
      PROVE  BufferInv'
  <2>1. TileTypes'
    <3>1. /\ w' \in Widths /\ h' \in Heights /\ column' = 0 /\ row' = 0
          /\ buffer' = n * PixelBytes /\ base' = n * PixelBytes /\ run' = first
          /\ pc' \in {"packed", "runs"}
      BY <1>3 DEF StartPixels
    <3>2. n * PixelBytes \in Nat /\ first \in Nat
      BY <1>3, TileAssumption
    <3>3. w' \in 0 .. Side /\ h' \in 0 .. Side
      BY <3>1, TileAssumption
    <3> QED BY <1>1, <1>3, <3>1, <3>2, <3>3 DEF TileTypes
  <2> QED BY <1>1, <1>3, <2>1, StartBuffer DEF BufferInv
<1>4. CASE RawTile
  BY <1>2, <1>4 DEF RawTile, trle
<1>5. ASSUME NEW c \in Colours, SolidTile(c) PROVE BufferInv'
  BY <1>2, <1>5 DEF SolidTile
<1>6. CASE RunLengthTile
  <2>1. StartPixels("runs", 0, PixelBytes, 8) /\ drawn' = Raw /\ bpp' = bpp
    BY <1>6 DEF RunLengthTile, trle
  <2> QED BY <1>1, <1>3, <2>1 DEF TileTypes
<1>7. ASSUME NEW n \in PaletteSizes, NEW c \in Colours, PackedTile(n, c) PROVE BufferInv'
  <2>1. bpp' = BitsPerIndex(n) /\ StartPixels("packed", n, 0, bpp') /\ n \in Nat
    BY <1>7, TileAssumption DEF PackedTile
  <2> QED BY <1>3, <2>1, BitsOfIndex
<1>8. ASSUME NEW n \in PaletteSizes, NEW c \in Colours, PaletteRunTile(n, c) PROVE BufferInv'
  <2>1. /\ drawn' = Palette(n, c) /\ StartPixels("runs", n, 1, 8) /\ n \in Nat /\ bpp' = bpp
    BY <1>8, TileAssumption DEF PaletteRunTile
  <2>2. drawn' # Raw
    BY <2>1, Kinds
  <2> QED BY <1>1, <1>3, <2>1, <2>2 DEF TileTypes
<1>9. CASE ReusedRunTile
  <2>1. recent.kind = "palette" /\ drawn' = palette /\ StartPixels("runs", 0, 1, 8) /\ bpp' = bpp
    BY <1>9 DEF ReusedRunTile, trle
  <2>2. drawn' # Raw
    BY <2>1, Kinds DEF DrawnInv, TRLEKept
  <2> QED BY <1>1, <1>3, <2>1, <2>2 DEF TileTypes
<1>10. CASE ReusedTile
  <2>1. CASE recent.kind = "solid"
    <3>1. last_type = 1
      BY <2>1, Kinds DEF DrawnInv, TRLEKept
    <3>2. UNCHANGED <<pc, bpp, loops>>
      BY <1>10, <3>1 DEF ReusedTile
    <3> QED BY <1>2, <3>2
  <2>2. CASE recent.kind # "solid"
    <3>1. recent.kind = "palette" /\ recent.size <= 16
      BY <1>10, <2>2 DEF ReusedTile
    <3>2. PICK n \in PaletteSizes, c \in Colours :
            /\ recent = Palette(n, c) /\ palette = recent
            /\ \/ last_type = n /\ n <= 16 /\ bpp = BitsPerIndex(n)
               \/ last_type = 128 + n
      BY <3>1, Kinds DEF DrawnInv, TRLEKept
    <3>3. n \in 2 .. 127
      BY <3>2, TileAssumption
    <3>4. last_type \notin {0, 1, 128}
      BY <3>1, <3>2, <3>3, Kinds
    <3>5. /\ last_type' = (IF last_type >= 130 THEN last_type - 128 ELSE last_type)
          /\ bpp' = (IF last_type >= 130 THEN BitsPerIndex(last_type') ELSE bpp)
          /\ StartPixels("packed", 0, 0, bpp')
      BY <1>10, <3>4 DEF ReusedTile
    <3>6. bpp' = BitsPerIndex(n)
      BY <3>2, <3>3, <3>5
    <3>7. bpp' \in {1, 2, 4, 8}
      BY <3>3, <3>6, BitsOfIndex
    <3> QED BY <1>3, <3>5, <3>7
  <2> QED BY <2>1, <2>2
<1> QED BY <1>4, <1>5, <1>6, <1>7, <1>8, <1>9, <1>10 DEF TRLETile

\* The next index of a row.
LEMMA PackedPixelBuffer == ASSUME BufferInv, PackedPixel PROVE BufferInv'
<1>1. /\ pc = "packed" /\ pc' = pc /\ row < h /\ column < w /\ column' = column + 1
      /\ w' = w /\ h' = h /\ row' = row /\ base' = base /\ run' = run /\ bpp' = bpp
      /\ encoding' = encoding
  BY Zenon DEF PackedPixel, trle
<1>2. /\ bpp \in {1, 2, 4, 8} /\ column \in Nat /\ buffer \in Nat
      /\ shift = 8 - bpp - ((column * bpp) % 8)
      /\ buffer = base + row * RowBytes(bpp, w) + (column * bpp) \div 8
  BY <1>1 DEF BufferInv, TileTypes, PackedInv
<1>3. IF shift < bpp THEN shift' = 8 - bpp /\ buffer' = buffer + 1
                     ELSE shift' = shift - bpp /\ buffer' = buffer
  BY DEF PackedPixel
<1>4. IF shift < bpp
      THEN /\ ((column + 1) * bpp) \div 8 = (column * bpp) \div 8 + 1
           /\ ((column + 1) * bpp) % 8 = 0
      ELSE /\ ((column + 1) * bpp) \div 8 = (column * bpp) \div 8
           /\ shift - bpp = 8 - bpp - (((column + 1) * bpp) % 8)
  BY <1>2, NextIndex
<1>5. /\ row * RowBytes(bpp, w) \in Nat /\ (column * bpp) \div 8 \in Nat /\ base \in Nat
  <2>1. w \in Nat /\ row \in Nat /\ base \in Nat
    BY TileAssumption DEF BufferInv, TileTypes
  <2>2. RowBytes(bpp, w) \in Nat /\ (column * bpp) \div 8 \in Nat
    BY <1>2, <2>1, IndicesShort
  <2> QED BY <2>1, <2>2
<1>6. PackedInv'
  <2>1. shift' = 8 - bpp - (((column + 1) * bpp) % 8)
    BY <1>2, <1>3, <1>4
  <2>2. buffer' = base + row * RowBytes(bpp, w) + ((column + 1) * bpp) \div 8
    BY <1>2, <1>3, <1>4, <1>5
  <2> QED BY <1>1, <1>2, <2>1, <2>2 DEF PackedInv, RowBytes
<1>7. TileTypes' /\ InTile'
  BY <1>1, <1>2, <1>3 DEF BufferInv, TileTypes, InTile
<1>8. RunsInv'
  BY <1>1 DEF RunsInv
<1> QED BY <1>6, <1>7, <1>8 DEF BufferInv

\* The next row starts with the next byte.
LEMMA PackedRowBuffer == ASSUME BufferInv, PackedRow PROVE BufferInv'
<1>1. /\ pc = "packed" /\ pc' = pc /\ column = w /\ column' = 0 /\ row' = row + 1
      /\ w' = w /\ h' = h /\ base' = base /\ run' = run /\ bpp' = bpp /\ encoding' = encoding
      /\ shift' = 8 - bpp
  BY Zenon DEF PackedRow, trle
<1>2. buffer' = IF shift < 8 - bpp THEN buffer + 1 ELSE buffer
  BY DEF PackedRow
<1>3. /\ bpp \in {1, 2, 4, 8} /\ column \in Nat /\ w \in Nat /\ buffer \in Nat /\ row \in Nat
      /\ h \in Nat /\ base \in Nat
      /\ shift = 8 - bpp - ((column * bpp) % 8)
      /\ buffer = base + row * RowBytes(bpp, w) + (column * bpp) \div 8
      /\ w > 0 /\ row <= h /\ (row = h => column = 0) /\ base <= Side * Side * PixelBytes
  BY <1>1, TileAssumption DEF BufferInv, TileTypes, PackedInv, InTile
<1>4. RowBytes(bpp, w) = (w * bpp) \div 8 + (IF shift < 8 - bpp THEN 1 ELSE 0)
  BY <1>1, <1>3, BytesOfRow
<1>5. RowBytes(bpp, w) \in Nat /\ (w * bpp) \div 8 \in Nat
  BY <1>3, IndicesShort
<1>6. PICK k \in Nat : k = RowBytes(bpp, w)
  BY <1>5
<1>7. (row + 1) * k = row * k + k /\ row * k \in Nat
  BY <1>3
<1>8. buffer' = base + (row + 1) * k
  BY <1>1, <1>2, <1>3, <1>4, <1>5, <1>6, <1>7
<1>9. (0 * bpp) % 8 = 0 /\ (0 * bpp) \div 8 = 0
  BY <1>3
<1>10. PackedInv'
  <2>1. row' * RowBytes(bpp', w') = (row + 1) * k /\ (row + 1) * k \in Nat
    BY <1>1, <1>3, <1>6, <1>7
  <2>2. (column' * bpp') % 8 = 0 /\ (column' * bpp') \div 8 = 0
    BY <1>1, <1>9
  <2>3. shift' = 8 - bpp' - ((column' * bpp') % 8)
    BY <1>1, <1>3, <2>2
  <2>4. buffer' = base' + row' * RowBytes(bpp', w') + (column' * bpp') \div 8
    BY <1>1, <1>3, <1>8, <2>1, <2>2
  <2>5. bpp' # 0
    BY <1>1, <1>3
  <2> QED BY <2>3, <2>4, <2>5 DEF PackedInv, RowBytes
<1>11. TileTypes' /\ InTile'
  BY <1>1, <1>2, <1>3 DEF BufferInv, TileTypes, InTile
<1>12. RunsInv'
  BY <1>1 DEF RunsInv
<1> QED BY <1>10, <1>11, <1>12 DEF BufferInv

\* The bytes of a run's length.
LEMMA LengthBytes ==
  ASSUME NEW n \in Nat \ {0}
  PROVE  /\ (n - 1) \div RunByte \in Nat
         /\ (n - 1) \div RunByte <= n - 1
         /\ n > 1 => (n - 1) \div RunByte <= n - 2
<1>1. RunByte \in Nat /\ RunByte >= 2
  BY TileAssumption
<1>2. PICK q \in Nat, m \in Nat : q = (n - 1) \div RunByte /\ n - 1 = q * RunByte + m
  <2>1. n - 1 \in Nat
    OBVIOUS
  <2> QED BY <1>1, <2>1, RowsAndRest
<1>3. 2 * q <= RunByte * q /\ RunByte * q = q * RunByte /\ q * RunByte \in Nat
  BY <1>1, ProductMonotonic
<1> QED BY <1>2, <1>3

\* A run takes no more bytes than its pixels allow.
LEMMA RunBuffer ==
  ASSUME BufferInv, NEW n \in 1 .. Side * Side, Run(n)
  PROVE  BufferInv'
<1>1. /\ pc = "runs" /\ pc' = pc /\ row < h /\ row * w + column + n <= w * h
      /\ column' = (column + n) % w /\ row' = row + (column + n) \div w
      /\ w' = w /\ h' = h /\ base' = base /\ run' = run /\ bpp' = bpp /\ encoding' = encoding
      /\ drawn' = drawn
  BY DEF Run, trle
<1>2. buffer' = buffer + run + (IF drawn # Raw /\ n = 1 THEN 0 ELSE 1 + (n - 1) \div RunByte)
  BY DEF Run
<1>3. /\ w \in Nat /\ w > 0 /\ h \in Nat /\ row \in Nat /\ column \in Nat /\ n \in Nat \ {0}
      /\ base \in Nat /\ run \in Nat /\ buffer \in Nat /\ PixelBytes \in Nat \ {0}
  BY <1>1, TileAssumption DEF BufferInv, TileTypes, InTile
<1>4. PICK q \in Nat, m \in Nat :
        /\ q = (column + n) \div w /\ m = (column + n) % w
        /\ column + n = q * w + m /\ m < w
  <2>1. column + n \in Nat /\ w \in Nat \ {0}
    BY <1>3
  <2> QED BY <2>1, RowsAndRest
<1>5. column' = m /\ row' = row + q
  BY <1>1, <1>4
<1>6. /\ row * w \in Nat /\ q * w \in Nat /\ (row + q) * w = row * w + q * w /\ w * h = h * w
      /\ h * w \in Nat
  BY <1>3, <1>4
<1>7. row' * w' + column' = row * w + column + n
  BY <1>1, <1>3, <1>4, <1>5, <1>6
<1>8. InTile'
  <2>1. (row + q) * w + m <= h * w
    BY <1>1, <1>3, <1>4, <1>6
  <2>2. row + q <= h
    <3> SUFFICES ASSUME h + 1 <= row + q PROVE FALSE
      BY <1>3, <1>4
    <3>1. (h + 1) * w <= (row + q) * w
      <4>1. h + 1 \in Nat /\ row + q \in Nat
        BY <1>3, <1>4
      <4> QED BY <1>3, <4>1, ProductMonotonic
    <3>2. (h + 1) * w = h * w + w
      BY <1>3
    <3> QED BY <2>1, <3>1, <3>2, <1>3, <1>4, <1>6
  <2>3. row + q = h => m = 0
    BY <2>1, <1>3, <1>4, <1>6
  <2> QED BY <1>1, <1>3, <1>4, <1>5, <2>2, <2>3 DEF InTile, BufferInv
<1>9. /\ (n - 1) \div RunByte \in Nat /\ (n - 1) \div RunByte <= n - 1
      /\ n > 1 => (n - 1) \div RunByte <= n - 2
  BY <1>3, LengthBytes
<1>10. buffer' \in Nat
  BY <1>2, <1>3, <1>9
<1>11. TileTypes'
  BY <1>1, <1>3, <1>4, <1>5, <1>10 DEF TileTypes, BufferInv
<1>12. RunsInv'
  <2>1. PICK pixels \in Nat : pixels = row * w + column
    BY <1>3, <1>6
  <2>2. row' * w' + column' = pixels + n
    BY <1>7, <2>1, <1>3, <1>6
  <2>3. PICK more \in Nat : more = (n - 1) \div RunByte
    BY <1>9
  <2>4. CASE drawn = Raw
    <3>1. run = PixelBytes /\ base = 0 /\ buffer <= pixels * (PixelBytes + 1)
      BY <1>1, <2>1, <2>4 DEF BufferInv, RunsInv
    <3>2. buffer' = buffer + PixelBytes + 1 + more /\ more <= n - 1
      BY <1>2, <1>3, <1>9, <2>3, <2>4, <3>1
    <3>3. (pixels + n) * (PixelBytes + 1) = pixels * (PixelBytes + 1) + n * PixelBytes + n
          /\ pixels * (PixelBytes + 1) \in Nat /\ n * PixelBytes \in Nat
      BY <1>3
    <3>4. PixelBytes <= n * PixelBytes
      <4>1. 1 * PixelBytes <= n * PixelBytes
        BY <1>3, ProductMonotonic
      <4> QED BY <4>1, <1>3
    <3>5. buffer' <= (pixels + n) * (PixelBytes + 1)
      BY <1>3, <3>1, <3>2, <3>3, <3>4
    <3>6. buffer' <= (row' * w' + column') * (PixelBytes + 1)
      BY <2>2, <3>5
    <3> QED BY <1>1, <1>4, <1>5, <2>4, <3>1, <3>6 DEF RunsInv
  <2>5. CASE drawn # Raw
    <3>1. run = 1 /\ buffer <= base + pixels
      BY <1>1, <2>1, <2>5 DEF BufferInv, RunsInv
    <3>2. buffer' <= buffer + n
      BY <1>2, <1>3, <1>9, <2>3, <2>5, <3>1
    <3>3. buffer' <= base + (pixels + n)
      BY <1>3, <1>10, <3>1, <3>2
    <3>4. buffer' <= base' + (row' * w' + column')
      BY <1>1, <2>2, <3>3
    <3> QED BY <1>1, <1>4, <1>5, <2>5, <3>1, <3>4 DEF RunsInv
  <2> QED BY <2>4, <2>5
<1>13. PackedInv'
  BY <1>1 DEF PackedInv
<1> QED BY <1>8, <1>11, <1>12, <1>13 DEF BufferInv

\* Every step keeps the pointer where the data is.
LEMMA BufferStep == ASSUME BufferInv, DrawnInv, [TileNext]_tileVars PROVE BufferInv'
<1>1. ASSUME EndOfTile PROVE BufferInv'
  <2>1. /\ pc' = "tile" /\ w' = 0 /\ h' = 0 /\ column' = 0 /\ row' = 0
        /\ buffer' = 0 /\ base' = 0 /\ run' = 0 /\ bpp' = bpp /\ encoding' = encoding
    BY <1>1 DEF EndOfTile, trle
  <2> QED BY <2>1, TileAssumption DEF BufferInv, TileTypes, InTile, PackedInv, RunsInv
<1>2. ASSUME Hextile \/ UNCHANGED tileVars PROVE BufferInv'
  <2>1. /\ pc' = pc /\ bpp' = bpp /\ w' = w /\ h' = h /\ column' = column /\ row' = row /\ base' = base
        /\ run' = run /\ buffer' = buffer /\ shift' = shift /\ encoding' = encoding
    BY <1>2, Zenon DEF Hextile, HextileRaw, HextileTile, NextHextile, tileVars, trle, loops
  <2>2. pc = "tile" \/ drawn' = drawn
    <3>1. Hextile => encoding = "hextile"
      BY DEF Hextile, HextileRaw, HextileTile, NextHextile
    <3>2. (UNCHANGED tileVars) => drawn' = drawn
      BY DEF tileVars
    <3> QED BY <1>2, <3>1, <3>2 DEF BufferInv, TileTypes
  <2>3. TileTypes' /\ InTile'
    BY <2>1 DEF BufferInv, TileTypes, InTile
  <2>4. PackedInv'
    BY <2>1 DEF BufferInv, PackedInv, RowBytes
  <2>5. RunsInv'
    BY <2>1, <2>2 DEF BufferInv, RunsInv
  <2> QED BY <2>3, <2>4, <2>5 DEF BufferInv
<1> QED BY <1>1, <1>2, TRLETileBuffer, PackedPixelBuffer, PackedRowBuffer, RunBuffer
        DEF TileNext, TRLEPixels

\* While the pixels of a tile are read the pointer is where their data is and inside
\* the buffer, for every size of tile and palette.
THEOREM TilesInBuffer == TileSpec => []PixelsInBuffer
<1>1. TileInit => DrawnInv /\ BufferInv
  <2>1. TileInit => DrawnInv
    BY DEF TileInit, DrawnInv, TRLEKept, HextileKept, DrawnAsMeant
  <2>2. TileInit => BufferInv
    BY TileAssumption DEF TileInit, BufferInv, TileTypes, InTile, PackedInv, RunsInv
  <2> QED BY <2>1, <2>2
<1>2. DrawnInv /\ BufferInv /\ [TileNext]_tileVars => (DrawnInv /\ BufferInv)'
  BY DrawnStep, BufferStep
<1> QED BY <1>1, <1>2, BufferImplied, PTL DEF TileSpec

(***************************************************************************)
(* Together                                                                *)
(***************************************************************************)
\* A session is one of each decoder.
LEMMA DecodersImplement ==
  DecodersSpec => CopySpec /\ ZlibInit /\ [][ZlibNext]_zlibVars /\ TileSpec
<1>1. DecodersInit => CopyInit /\ ZlibInit /\ TileInit
  BY DEF DecodersInit
<1>2. [DecodersNext]_decoderVars => [CopyNext]_copyVars
  <2>1. CopyRectRect => CopyNext
    BY DEF CopyRectRect, CopyNext
  <2> QED BY <2>1 DEF DecodersNext, ZlibRect, ZlibLoop, TileRect, decoderVars
<1>3. [DecodersNext]_decoderVars => [ZlibNext]_zlibVars
  <2>1. ZlibRect \/ ZlibLoop => ZlibNext
    BY DEF ZlibRect, ZlibLoop, ZlibNext
  <2> QED BY <2>1 DEF DecodersNext, CopyRectRect, TileRect, decoderVars
<1>4. [DecodersNext]_decoderVars => [TileNext]_tileVars
  <2>1. TileRect => TileNext
    BY DEF TileRect
  <2> QED BY <2>1 DEF DecodersNext, CopyRectRect, ZlibRect, ZlibLoop, decoderVars
<1> QED BY <1>1, <1>2, <1>3, <1>4, PTL DEF DecodersSpec, CopySpec, TileSpec

\* A session of any of the encodings draws what the server means.
THEOREM DecodersSafe ==
  DecodersSpec => []CopiedAtOnce /\ [](StreamsInStep /\ RowsAccountedFor)
                  /\ [](DrawnAsMeant /\ PixelsInBuffer)
<1>1. CopySpec => []CopiedAtOnce
  BY CopyIsSimultaneous
<1>2. ZlibInit /\ [][ZlibNext]_zlibVars => [](StreamsInStep /\ RowsAccountedFor)
  BY ZlibInvHolds, ZlibImplies, PTL
<1>3. TileSpec => [](DrawnAsMeant /\ PixelsInBuffer)
  BY TilesDrawnAsMeant, TilesInBuffer, PTL
<1> QED BY <1>1, <1>2, <1>3, DecodersImplement, PTL
===============================================================================
