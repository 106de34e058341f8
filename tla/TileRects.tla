------------------------------- MODULE TileRects -------------------------------
(***************************************************************************)
(* The rectangles that are sent tile by tile with state kept from one tile *)
(* to the next: HandleTRLE() of trle.c, with the loops over the pixels of  *)
(* a tile, and HandleHextile() of hextile.c.                               *)
(*                                                                         *)
(* A palette is known by its size and by the tile it came with; a pixel's  *)
(* value is left out.  The server, external, keeps to the protocol: it     *)
(* refers back to a palette or colour only where one has been set in the   *)
(* rectangle, raw and plain run-length tiles apart, and sends runs that    *)
(* fill the tile.                                                          *)
(***************************************************************************)
EXTENDS Naturals

CONSTANTS
  Side,          \* pixels of the side of a tile: 16
  PixelBytes,    \* REALBPP / 8
  RunByte,       \* 255, the longest length of one byte
  PaletteSizes,
  Widths, Heights,   \* of the tiles
  Colours        \* colours, and the palettes of a size

ASSUME TileAssumption ==
  /\ Side \in Nat \ {0} /\ PixelBytes \in Nat \ {0} /\ RunByte \in Nat \ {0, 1}
  /\ PaletteSizes \subseteq 2 .. 127 /\ (\A n \in PaletteSizes : n <= Side * Side)
  /\ Widths \subseteq 1 .. Side /\ Heights \subseteq 1 .. Side
  /\ 0 \notin Colours

VARIABLES
  encoding,      \* of the rectangle: "trle" or "hextile"
  pc,            \* "tile", in the pixels of one: "packed" or "runs", or "failed"
  \* HandleTRLE()
  last_type, palette, bpp, color,
  w, h, column, row,   \* of the tile, and i and j of its loops
  shift,
  buffer,        \* how far `buffer' is from the start of raw_buffer
  base,          \* where it was when the pixels began
  run,           \* what a run starts with: a pixel or an index
  \* HandleHextile()
  bg, fg,
  \* the server: what it may refer back to
  recent, recentBg, recentFg,
  \* history: what the tile is to be drawn with, and what it is drawn with
  meant, drawn

trle == <<last_type, palette, bpp, color, recent>>
loops == <<w, h, column, row, shift, buffer, base, run>>
hextile == <<bg, fg, recentBg, recentFg>>
tileVars == <<encoding, pc, trle, loops, hextile, meant, drawn>>

None == [kind |-> "none"]
Solid(c) == [kind |-> "solid", colour |-> c]
Palette(n, c) == [kind |-> "palette", size |-> n, colours |-> c]
Raw == [kind |-> "pixels"]
Indices(p, bits) == [kind |-> "indices", palette |-> p, bits |-> bits]
Tile(back, subrects) == [kind |-> "tile", background |-> back, foreground |-> subrects]

\* min_buffer_size
RawBufferSize == Side * Side * PixelBytes * 2

BitsPerIndex(n) == IF n > 4 THEN IF n > 16 THEN 8 ELSE 4 ELSE IF n > 2 THEN 2 ELSE 1

TileInit ==
  /\ encoding \in {"trle", "hextile"} /\ pc = "tile"
  /\ last_type = 0 /\ palette = None /\ bpp = 0 /\ color = 0
  /\ w = 0 /\ h = 0 /\ column = 0 /\ row = 0 /\ shift = 0 /\ buffer = 0 /\ base = 0 /\ run = 0
  /\ bg = 0 /\ fg = 0
  /\ recent = None /\ recentBg = 0 /\ recentFg = 0
  /\ meant = Raw /\ drawn = Raw

(***************************************************************************)
(* TRLE: the type of a tile                                                *)
(***************************************************************************)
NextTile == encoding = "trle" /\ pc = "tile" /\ UNCHANGED <<encoding, hextile>>

\* The loops start, with the buffer behind a palette of n entries.
StartPixels(loop, n, first, bits) ==
  /\ w' \in Widths /\ h' \in Heights
  /\ pc' = loop /\ column' = 0 /\ row' = 0 /\ shift' = 8 - bits
  /\ buffer' = n * PixelBytes /\ base' = n * PixelBytes /\ run' = first

\* Mutant: a raw tile is remembered as type 0.
RawTileRemembered ==
  /\ NextTile /\ meant' = Raw /\ drawn' = Raw /\ last_type' = 0
  /\ UNCHANGED <<pc, palette, bpp, color, recent, loops>>

\* Type 0; last_type stays what it was.
RawTile ==
  /\ NextTile /\ meant' = Raw /\ drawn' = Raw
  /\ UNCHANGED <<pc, trle, loops>>

SolidTile(c) ==
  /\ NextTile /\ color' = c /\ last_type' = 1
  /\ recent' = Solid(c) /\ meant' = Solid(c) /\ drawn' = Solid(c)
  /\ UNCHANGED <<pc, palette, bpp, loops>>

\* Types 2 to 16, which go on as type 127.
PackedTile(n, c) ==
  /\ NextTile /\ n <= 16
  /\ palette' = Palette(n, c) /\ bpp' = BitsPerIndex(n) /\ last_type' = n
  /\ recent' = palette' /\ meant' = Indices(palette', BitsPerIndex(n))
  /\ drawn' = Indices(palette', bpp')
  /\ StartPixels("packed", n, 0, bpp')
  /\ UNCHANGED color

Refused == pc' = "failed" /\ UNCHANGED <<last_type, bpp, drawn, loops>>

\* Type 127 draws with what last_type stands for; after a palette of run lengths
\* it works out the bits of an index again.
ReusedTile ==
  /\ NextTile
  /\ \/ recent.kind = "solid" /\ meant' = recent
     \/ /\ recent.kind = "palette" /\ recent.size <= 16
        /\ meant' = Indices(recent, BitsPerIndex(recent.size))
  /\ \/ last_type \in {0, 128} /\ Refused
     \/ /\ last_type = 1 /\ drawn' = Solid(color)
        /\ UNCHANGED <<pc, last_type, bpp, loops>>
     \/ /\ last_type \notin {0, 1, 128}
        /\ last_type' = (IF last_type >= 130 THEN last_type - 128 ELSE last_type)
        /\ bpp' = (IF last_type >= 130 THEN BitsPerIndex(last_type') ELSE bpp)
        /\ drawn' = Indices(palette, bpp')
        /\ StartPixels("packed", 0, 0, bpp')
  /\ UNCHANGED <<palette, color, recent>>

\* Type 128, plain run lengths.
RunLengthTile ==
  /\ NextTile /\ meant' = Raw /\ drawn' = Raw
  /\ StartPixels("runs", 0, PixelBytes, 8)
  /\ UNCHANGED trle

\* Types 130 to 255, which go on as type 129.
PaletteRunTile(n, c) ==
  /\ NextTile
  /\ palette' = Palette(n, c) /\ last_type' = 128 + n
  /\ recent' = palette' /\ meant' = palette' /\ drawn' = palette'
  /\ StartPixels("runs", n, 1, 8)
  /\ UNCHANGED <<bpp, color>>

\* Type 129
ReusedRunTile ==
  /\ NextTile /\ recent.kind = "palette"
  /\ meant' = recent /\ drawn' = palette
  /\ StartPixels("runs", 0, 1, 8)
  /\ UNCHANGED trle

TRLETile ==
  \/ RawTile \/ RunLengthTile \/ ReusedTile \/ ReusedRunTile
  \/ \E c \in Colours : SolidTile(c) \/ \E n \in PaletteSizes : PackedTile(n, c) \/ PaletteRunTile(n, c)

(***************************************************************************)
(* TRLE: the pixels of a tile                                              *)
(***************************************************************************)
PackedPixel ==
  /\ pc = "packed" /\ row < h /\ column < w
  /\ column' = column + 1
  /\ IF shift < bpp THEN shift' = 8 - bpp /\ buffer' = buffer + 1
                    ELSE shift' = shift - bpp /\ UNCHANGED buffer
  /\ UNCHANGED <<encoding, pc, trle, w, h, row, base, run, hextile, meant, drawn>>

\* Mutant: a row may end in the middle of a byte.
PackedRowUnaligned ==
  /\ pc = "packed" /\ column = w
  /\ column' = 0 /\ row' = row + 1 /\ shift' = 8 - bpp
  /\ UNCHANGED <<encoding, pc, trle, w, h, buffer, base, run, hextile, meant, drawn>>

\* The next row starts with a byte of its own.
PackedRow ==
  /\ pc = "packed" /\ column = w
  /\ column' = 0 /\ row' = row + 1 /\ shift' = 8 - bpp
  /\ buffer' = IF shift < 8 - bpp THEN buffer + 1 ELSE buffer
  /\ UNCHANGED <<encoding, pc, trle, w, h, base, run, hextile, meant, drawn>>

\* A run of n pixels: an index alone when n is 1, or the bytes of a length too.
\* `buffer' is never set back within a tile.
Run(n) ==
  /\ pc = "runs" /\ row < h /\ row * w + column + n <= w * h
  /\ column' = (column + n) % w /\ row' = row + (column + n) \div w
  /\ buffer' = buffer + run + (IF drawn # Raw /\ n = 1 THEN 0 ELSE 1 + (n - 1) \div RunByte)
  /\ UNCHANGED <<encoding, pc, trle, w, h, shift, base, run, hextile, meant, drawn>>

\* The variables of the loops go out of scope.
EndOfTile ==
  /\ pc \in {"packed", "runs"} /\ row = h
  /\ pc' = "tile" /\ w' = 0 /\ h' = 0 /\ column' = 0 /\ row' = 0
  /\ shift' = 0 /\ buffer' = 0 /\ base' = 0 /\ run' = 0
  /\ UNCHANGED <<encoding, trle, hextile, meant, drawn>>

TRLEPixels == PackedPixel \/ PackedRow \/ EndOfTile \/ (\E n \in 1 .. Side * Side : Run(n))

(***************************************************************************)
(* Hextile                                                                 *)
(***************************************************************************)
NextHextile == encoding = "hextile" /\ UNCHANGED <<encoding, pc, trle, loops>>

HextileRaw ==
  /\ NextHextile /\ meant' = Raw /\ drawn' = Raw
  /\ UNCHANGED hextile

\* A tile that is not raw.  Coloured subrectangles leave the last of their colours
\* in fg, and the server does not refer back to it.
HextileTile(back, fore, specified, subrects) ==
  /\ NextHextile
  /\ "background" \in specified \/ recentBg = back
  /\ subrects # "one colour" \/ "foreground" \in specified \/ recentFg = fore
  /\ subrects = "coloured" => "foreground" \notin specified
  /\ bg' = (IF "background" \in specified THEN back ELSE bg)
  /\ fg' = (IF "foreground" \in specified \/ subrects = "coloured" THEN fore ELSE fg)
  /\ recentBg' = back
  /\ recentFg' = (IF subrects = "coloured" THEN 0
                  ELSE IF "foreground" \in specified THEN fore ELSE recentFg)
  /\ meant' = Tile(back, IF subrects = "one colour" THEN fore ELSE 0)
  /\ drawn' = Tile(bg', IF subrects = "one colour" THEN fg' ELSE 0)

Hextile ==
  \/ HextileRaw
  \/ \E back \in Colours, fore \in Colours, specified \in SUBSET {"background", "foreground"},
        subrects \in {"none", "one colour", "coloured"} :
       HextileTile(back, fore, specified, subrects)

TileNext == TRLETile \/ TRLEPixels \/ Hextile

TileSpec == TileInit /\ [][TileNext]_tileVars

-------------------------------------------------------------------------------
\* Whatever tiles come between, a tile that refers back to a palette or a colour
\* is drawn with the one the server means, its indices read with the right number
\* of bits, and is never refused.
DrawnAsMeant == drawn = meant /\ pc # "failed"

\* While the indices of a tile are unpacked, the byte and the bits of the next
\* pixel are where a row of whole bytes has them, for every width.
IndicesAligned ==
  pc = "packed" =>
    /\ buffer = base + row * ((w + 8 \div bpp - 1) \div (8 \div bpp)) + (column * bpp) \div 8
    /\ row < h /\ column < w => shift = 8 - bpp - ((column * bpp) % 8)

\* The runs of a tile, read one behind the other, fit the buffer of the smallest
\* size HandleTRLE() makes, a palette in front of them included.
BufferFits == buffer <= RawBufferSize

\* The buffer pointer of a tile is where its data is, and inside the buffer.
PixelsInBuffer == IndicesAligned /\ BufferFits
===============================================================================
