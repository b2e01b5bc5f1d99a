---------------------------- MODULE TestPatterns ----------------------------
(* The test patterns (pattern.cpp, format.cpp) that util_fill_pattern draws     *)
(* with the planes that bo_create (zizhan_buffer.cpp) lays out for it: which   *)
(* bytes a pattern writes, and which colours it takes.  The call itself, at    *)
(* the end of bo_create, is commented out, so that a new buffer is not filled. *)
(* A position is a byte from the start of the mapped buffer; the colours are   *)
(* left out, of the test card only the index of a bar is kept.                 *)
EXTENDS Integers, FiniteSets

CONSTANTS
  Widths, Heights,
  Pads,     \* bytes the driver adds to the end of a line
  BoSize    \* sizeof(struct bo)

VARIABLES
  picture,  \* format, pattern, width, height, pitch
  phase,    \* "luma": lines of plane 0 (or of all planes), "chroma", "done"
  line,     \* y
  at,       \* y_mem, u_mem, v_mem (mem is y_mem)
  written,  \* the bytes written
  bars      \* the indices of colours taken from a list: <<list, index>>

patternVars == <<picture, phase, line, at, written, bars>>

\* The YUV formats: where luma and chroma are in a packed line, which chroma comes first.
Yuv(kind, y, c, u, v, ysub, cs) ==
  [kind |-> kind, y |-> y, c |-> c, u |-> u, v |-> v, xsub |-> 2, ysub |-> ysub, cs |-> cs, bytes |-> 1]
Rgb(bytes) == [kind |-> "rgb", y |-> 0, c |-> 0, u |-> 0, v |-> 0, xsub |-> 1, ysub |-> 1, cs |-> 0,
               bytes |-> bytes]
FormatInfo ==
  [UYVY |-> Yuv("packed", 1, 0, 0, 2, 2, 2), VYUY |-> Yuv("packed", 1, 0, 2, 0, 2, 2),
   YUYV |-> Yuv("packed", 0, 1, 0, 2, 2, 2), YVYU |-> Yuv("packed", 0, 1, 2, 0, 2, 2),
   NV12 |-> Yuv("pairs", 0, 0, 0, 1, 2, 2), NV21 |-> Yuv("pairs", 0, 0, 1, 0, 2, 2),
   NV16 |-> Yuv("pairs", 0, 0, 0, 1, 1, 2), NV61 |-> Yuv("pairs", 0, 0, 1, 0, 1, 2),
   YUV420 |-> Yuv("planes", 0, 0, 1, 2, 2, 1), YVU420 |-> Yuv("planes", 0, 0, 2, 1, 2, 1),
   RGB565 |-> Rgb(2), RGB888 |-> Rgb(3), XRGB8888 |-> Rgb(4)]
info == FormatInfo[picture.format]
Separate(f) == FormatInfo[f].kind \in {"pairs", "planes"}

----------------------------------------------------------------------------
\* bo_create

\* bytes of a line
LineBytes(f, w) == IF FormatInfo[f].kind = "packed" THEN 2 * w ELSE FormatInfo[f].bytes * w

VirtualHeight(f, h) ==
  IF ~Separate(f) THEN h ELSE IF FormatInfo[f].ysub = 2 THEN (h * 3) \div 2 ELSE h * 2

Size(p) == p.pitch * VirtualHeight(p.format, p.height)

\* offsets[0..2]
Offset(p, plane) ==
  CASE plane = 0 -> 0
    [] plane = 1 -> p.pitch * p.height
    [] plane = 2 -> p.pitch * p.height + ((p.pitch \div 2) * p.height) \div 2

\* planes[0..2]: the offsets of the chroma are added to a struct bo *
Plane(p, plane) == BoSize * Offset(p, plane)

\* Where the chroma of a plane of its own starts: the plane of U or V, or its half of the pairs.
Chroma(p, component) ==
  IF FormatInfo[p.format].kind = "planes" THEN Plane(p, component) ELSE Plane(p, 1) + component

----------------------------------------------------------------------------
\* One line of a pattern.

Columns == 0..(picture.width - 1)
Starts == {x \in Columns : x % info.xsub = 0}

\* a packed line: the luma of a pixel, the chroma of a pair
PackedLuma(x) == at.y + 2 * x
PackedChroma(x) == {at.u + 2 * x + info.u, at.u + 2 * x + info.v}

\* fill_tiles_yuv_planar, _packed, _rgb16, _rgb24, _rgb32: one line
TilesLine ==
  CASE info.kind = "packed" ->
         UNION {{PackedLuma(x), PackedLuma(x) + 2} \cup PackedChroma(x) : x \in Starts}
    [] info.kind = "rgb" ->
         {at.y + info.bytes * x + b : x \in Columns, b \in 0..(info.bytes - 1)}
    [] OTHER ->
         UNION {{at.y + x, at.u + (x \div info.xsub) * info.cs, at.v + (x \div info.xsub) * info.cs} :
                x \in Columns}

\* the pointers at the next line of chroma
NextChroma == (picture.pitch * info.cs) \div info.xsub

FillTiles ==
  /\ picture.pattern = "tiles" /\ phase = "luma"
  /\ written' = written \cup TilesLine
  /\ at' = [at EXCEPT !.y = @ + picture.pitch,
                      !.u = CASE info.kind = "packed" -> @ + picture.pitch
                              [] Separate(picture.format) /\ (line + 1) % info.ysub = 0 -> @ + NextChroma
                              [] OTHER -> @,
                      !.v = IF Separate(picture.format) /\ (line + 1) % info.ysub = 0
                            THEN @ + NextChroma ELSE @]
  /\ line' = line + 1
  /\ phase' = IF line' = picture.height THEN "done" ELSE "luma"
  /\ UNCHANGED <<picture, bars>>

\* The bar of the test card that column x is in; <<"none", 0>> where the code divides by zero.
Bar(x, y, height) ==
  LET w == picture.width
      left == (w * 5) \div 7
      middle == (w * 6) \div 7
  IN  IF y < (height * 6) \div 9 THEN <<"top", (x * 7) \div w>>
      ELSE IF y < (height * 7) \div 9 THEN <<"middle", (x * 7) \div w>>
      ELSE IF x < left THEN <<"bottom", (x * 4) \div left>>
      ELSE IF x >= middle THEN <<"bottom", 7>>
      ELSE IF w \div 7 = 0 THEN <<"none", 0>>
      ELSE <<"bottom", ((x - left) * 3) \div (w \div 7) + 4>>

\* fill_smpte_yuv_planar, _packed: the lines of luma, then the lines of chroma
ChromaLines == IF Separate(picture.format) THEN picture.height \div info.ysub ELSE picture.height

SmpteLuma ==
  /\ picture.pattern = "smpte" /\ phase = "luma" /\ info.kind # "rgb"
  /\ written' = written \cup {at.y + (IF info.kind = "packed" THEN 2 * x ELSE x) : x \in Columns}
  /\ bars' = bars \cup {Bar(x, line, picture.height) : x \in Columns}
  /\ at' = [at EXCEPT !.y = @ + picture.pitch]
  /\ IF line + 1 < picture.height THEN line' = line + 1 /\ phase' = "luma"
     ELSE line' = 0 /\ phase' = IF ChromaLines = 0 THEN "done" ELSE "chroma"
  /\ UNCHANGED picture

SmpteChroma ==
  /\ phase = "chroma"
  /\ written' = written \cup
       (IF info.kind = "packed" THEN UNION {PackedChroma(x) : x \in Starts}
        ELSE UNION {{at.u + (x * info.cs) \div info.xsub, at.v + (x * info.cs) \div info.xsub} : x \in Starts})
  /\ bars' = bars \cup {Bar(x, line, ChromaLines) : x \in Starts}
  /\ LET next == IF info.kind = "packed" THEN picture.pitch ELSE NextChroma
     IN  at' = [at EXCEPT !.u = @ + next, !.v = @ + next]
  /\ line' = line + 1
  /\ phase' = IF line' = ChromaLines THEN "done" ELSE "chroma"
  /\ UNCHANGED picture

\* fill_smpte_rgb16, _rgb24, _rgb32: the pitch is counted in pixels.
SmpteRgb ==
  /\ picture.pattern = "smpte" /\ phase = "luma" /\ info.kind = "rgb"
  /\ written' = written \cup TilesLine
  /\ bars' = bars \cup {Bar(x, line, picture.height) : x \in Columns}
  /\ at' = [at EXCEPT !.y = @ + info.bytes * picture.pitch]
  /\ line' = line + 1
  /\ phase' = IF line' = picture.height THEN "done" ELSE "luma"
  /\ UNCHANGED picture

FillPlain ==
  /\ picture.pattern = "plain" /\ phase = "luma"
  /\ written' = 0..(picture.pitch * picture.height - 1)
  /\ phase' = "done"
  /\ UNCHANGED <<picture, line, at, bars>>

----------------------------------------------------------------------------
\* util_fill_pattern, were it called for a new buffer
Init ==
  /\ \E f \in DOMAIN FormatInfo, w \in Widths, h \in Heights, pad \in Pads, q \in {"tiles", "plain", "smpte"} :
       picture = [format |-> f, pattern |-> q, width |-> w, height |-> h, pitch |-> LineBytes(f, w) + pad]
  /\ phase = "luma" /\ line = 0 /\ written = {} /\ bars = {}
  /\ at = [y |-> info.y,
           u |-> IF info.kind = "packed" THEN info.c ELSE IF info.kind = "rgb" THEN 0 ELSE Chroma(picture, info.u),
           v |-> IF Separate(picture.format) THEN Chroma(picture, info.v) ELSE 0]

Next == FillTiles \/ SmpteLuma \/ SmpteChroma \/ SmpteRgb \/ FillPlain
Spec == Init /\ [][Next]_patternVars

----------------------------------------------------------------------------
\* The reference: the bytes of the pixels, in the planes the pattern is given.

\* the picture consists of whole blocks of pixels that share their chroma
Whole == /\ info.kind # "rgb" => picture.width % 2 = 0
         /\ Separate(picture.format) => picture.height % info.ysub = 0

RgbCard == picture.pattern = "smpte" /\ info.kind = "rgb"
Buffer == 0..(Size(picture) - 1)

PixelBytes ==
  LET p == picture
      lines == {p.pitch * y + b : y \in 0..(p.height - 1), b \in 0..(LineBytes(p.format, p.width) - 1)}
      block(first, step) ==
        {first + (x \div 2) * info.cs + (y \div info.ysub) * step : x \in Columns, y \in 0..(p.height - 1)}
  IN  CASE info.kind = "pairs"  -> lines \cup block(Plane(p, 1), p.pitch) \cup block(Plane(p, 1) + 1, p.pitch)
        [] info.kind = "planes" -> lines \cup block(Plane(p, 1), p.pitch \div 2)
                                         \cup block(Plane(p, 2), p.pitch \div 2)
        [] OTHER                -> lines

\* Whatever the format and the padding of its lines, a pattern has written the bytes of all the
\* picture's pixels, in the planes it was given, and no other byte: no padding, and no line of
\* another plane (pattern.cpp 77-275, 610-749).  Left out are pictures with half a block at an
\* edge, and the RGB test cards, whose lines are apart by as many pixels as the pitch has bytes
\* (318, 380, 442).
PixelsPainted ==
  Whole /\ picture.pattern # "plain" /\ ~RgbCard =>
    /\ written \subseteq PixelBytes
    /\ phase = "done" => written = PixelBytes

\* The luma, and all of a packed or an RGB picture but the RGB test cards, stays in the buffer,
\* as does a plain fill.  Chroma in planes of its own does not: its planes are taken BoSize times
\* as far into the buffer as they are (zizhan_buffer.cpp 255, 271, 272).
LumaInside ==
  Whole /\ ~RgbCard =>
    \A b \in written : b \in Buffer \/ (Separate(picture.format) /\ b >= Plane(picture, 1))

\* A test card at least as wide as its seven bars takes its colours from the lists, and reaches
\* the ends of each (pattern.cpp 77-275).
BarsExist ==
  picture.width >= 7 =>
    /\ bars \subseteq ({"top", "middle"} \X (0..6)) \cup ({"bottom"} \X (0..7))
    /\ phase = "done" /\ picture.pattern = "smpte" =>
         \A list \in {b[1] : b \in bars} : {<<list, 0>>, <<list, IF list = "bottom" THEN 7 ELSE 6>>} \subseteq bars

PatternsSafe == PixelsPainted /\ LumaInside /\ BarsExist
=============================================================================
