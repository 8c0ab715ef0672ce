------------------------------- MODULE Convert -------------------------------
(***************************************************************************)
(* convert.c: an image of the camera is repacked from one YUV layout to    *)
(* another and written as a bitmap or as raw RGB files.                    *)
(*                                                                         *)
(* A byte of an image is the sample it holds, <<plane, column, row>>: for  *)
(* "u" and "v" the column counts pairs of pixels and the row is the first  *)
(* one the sample stands for.  Values appear where the arithmetic on them  *)
(* matters, for the samples of one pixel.  The loops are functions of the  *)
(* offset they write; offsets start at 0, as in the code.                  *)
(***************************************************************************)
EXTENDS Integers, Sequences

CONSTANTS Widths, Heights, Samples

\* The chroma of two columns, and of two rows in the 4:2:0 layouts, is shared.
ASSUME ConstantsAssumption ==
  /\ \A n \in Widths \cup Heights : n \in Nat \ {0} /\ n % 2 = 0
  /\ Samples \subseteq 0..255

FullFormats == {"YUV422P", "NV16", "NV61", "YUYV", "YVYU", "UYVY", "VYUY"}
HalfFormats == {"YUV420", "YVU420", "YV12", "NV12", "NV21"}
Formats     == FullFormats \cup HalfFormats
Bitmaps     == {"BMP", "BMP555", "BMP565"}
Outputs     == Bitmaps \cup {"RGBfile"}

VARIABLES
  width, height,
  format,     \* how image is laid out
  full,       \* every row still has its own chroma
  image,      \* offset -> sample
  rgb,        \* pixel -> the samples its colour is computed from
  values,     \* the bytes of those three samples at one pixel
  pixel,      \* rgb_24 there: <<b, g, r>>
  file,       \* what was written last
  planes      \* the files that hold planes: name -> samples

vars == <<width, height, format, full, image, rgb, values, pixel, file, planes>>

NoWord == -1

\* The sizes in the header of a bitmap; the bytes before its pixels and in all;
\* the word of the pixel in a file of 555 and in one of 565.
NoFile == [output |-> "none", bfSize |-> 0, bfOffBits |-> 0, biHeight |-> 0,
           biBitCount |-> 0, biSizeImage |-> 0, before |-> 0, length |-> 0,
           w555 |-> NoWord, w565 |-> NoWord]
NoPlanes == [y |-> <<>>, u |-> <<>>, v |-> <<>>, uv |-> <<>>]

\* Bound: of an image one thing is saved.
Unsaved == file = NoFile /\ planes = NoPlanes

Pixels == (0..width - 1) \X (0..height - 1)
Count  == width * height

-----------------------------------------------------------------------------
(***************************************************************************)
(* Slips: plausible mistakes in a definition; none is used here.           *)
(***************************************************************************)
ColumnBlock(x, y)   == y * (width \div 2) + x \div 2
NoUpperClamp(n)     == IF n < 0 THEN 0 ELSE n
GreenUncentred(v)   == v[1] - (1415 * v[2]) \div 4096 - (2936 * v[3]) \div 4096
GreenOfFive(p)      == (p[3] \div 8) * 2048 + (p[2] \div 8) * 32 + p[1] \div 8
MasksForgotten(output) == 54

\* U is taken for V.
YV12Swapped(img) ==
  [i \in 0..(Count * 3) \div 2 - 1 |->
     IF i < Count THEN img[i]
     ELSE IF i < (Count * 5) \div 4 THEN img[2 * i - Count + 1]
     ELSE img[Count + 2 * (i - (Count * 5) \div 4)]]

-----------------------------------------------------------------------------
(***************************************************************************)
(* Where each function reads the samples of pixel (x, y): <<Y, U, V>>.     *)
(***************************************************************************)
Y(x, y)     == y * width + x
Half(x, y)  == Y(x, y) \div 2
Block(x, y) == (y \div 2) * (width \div 2) + x \div 2

YUV422PToRGB24(x, y) ==
  <<Y(x, y), Count + Half(x, y), (Count * 3) \div 2 + Half(x, y)>>
YUV420ToRGB24(x, y) ==
  <<Y(x, y), Count + Block(x, y), (Count * 5) \div 4 + Block(x, y)>>
YVU420ToRGB24(x, y) ==
  <<Y(x, y), (Count * 5) \div 4 + Block(x, y), Count + Block(x, y)>>
YV12ToRGB24(x, y) ==
  <<Y(x, y), (Count * 5) \div 4 + Block(x, y), Count + Block(x, y)>>
YUYVToRGB24(x, y) == <<2 * Y(x, y), 4 * Half(x, y) + 1, 4 * Half(x, y) + 3>>
YVYUToRGB24(x, y) == <<2 * Y(x, y), 4 * Half(x, y) + 3, 4 * Half(x, y) + 1>>
UYVYToRGB24(x, y) == <<2 * Y(x, y) + 1, 4 * Half(x, y), 4 * Half(x, y) + 2>>
VYUYToRGB24(x, y) == <<2 * Y(x, y) + 1, 4 * Half(x, y) + 2, 4 * Half(x, y)>>
NV12ToRGB24(x, y) ==
  <<Y(x, y), Count + 2 * Block(x, y), Count + 2 * Block(x, y) + 1>>
NV21ToRGB24(x, y) ==
  <<Y(x, y), Count + 2 * Block(x, y) + 1, Count + 2 * Block(x, y)>>
NV16ToRGB24(x, y) ==
  <<Y(x, y), Count + 2 * Half(x, y), Count + 2 * Half(x, y) + 1>>
NV61ToRGB24(x, y) ==
  <<Y(x, y), Count + 2 * Half(x, y) + 1, Count + 2 * Half(x, y)>>

\* The function a caller passes for an image of this format.
Offsets(x, y) ==
  [YUV422P |-> YUV422PToRGB24(x, y), YUV420 |-> YUV420ToRGB24(x, y),
   YVU420  |-> YVU420ToRGB24(x, y),  YV12   |-> YV12ToRGB24(x, y),
   YUYV    |-> YUYVToRGB24(x, y),    YVYU   |-> YVYUToRGB24(x, y),
   UYVY    |-> UYVYToRGB24(x, y),    VYUY   |-> VYUYToRGB24(x, y),
   NV12    |-> NV12ToRGB24(x, y),    NV21   |-> NV21ToRGB24(x, y),
   NV16    |-> NV16ToRGB24(x, y),    NV61   |-> NV61ToRGB24(x, y)][format]

-----------------------------------------------------------------------------
(***************************************************************************)
(* The colour of a pixel.                                                  *)
(***************************************************************************)
Clamp(n) == IF n < 0 THEN 0 ELSE IF n > 255 THEN 255 ELSE n

Blue(v)  == v[1] + (7289 * v[2]) \div 4096 - 228
Green(v) == v[1] - (1415 * v[2]) \div 4096 - (2936 * v[3]) \div 4096 + 136
Red(v)   == v[1] + (5765 * v[3]) \div 4096 - 180

ToRGB24(v) == <<Clamp(Blue(v)), Clamp(Green(v)), Clamp(Red(v))>>

\* The fields do not overlap: | is +.
RGB24ToRGB555(p) == (p[3] \div 8) * 1024 + (p[2] \div 8) * 32 + p[1] \div 8
RGB24ToRGB565(p) == (p[3] \div 8) * 2048 + (p[2] \div 4) * 32 + p[1] \div 8

-----------------------------------------------------------------------------
(***************************************************************************)
(* The layouts, as the camera delivers them: whole planes one after the    *)
(* other, or the samples of two planes by turns.                           *)
(***************************************************************************)
LumaOf(w, h) == [i \in 1..w * h |-> <<"y", (i - 1) % w, (i - 1) \div w>>]

\* One sample for two columns and "rows" rows.
ChromaOf(plane, w, h, rows) ==
  [i \in 1..(w \div 2) * (h \div rows) |->
     <<plane, (i - 1) % (w \div 2), rows * ((i - 1) \div (w \div 2))>>]

ByTurns(s, t) ==
  [i \in 1..2 * Len(s) |-> IF i % 2 = 1 THEN s[(i + 1) \div 2] ELSE t[i \div 2]]

FromZero(s) == [i \in 0..Len(s) - 1 |-> s[i + 1]]

Camera(f, w, h) ==
  LET l  == LumaOf(w, h)
      u  == ChromaOf("u", w, h, 1)  v  == ChromaOf("v", w, h, 1)
      u2 == ChromaOf("u", w, h, 2)  v2 == ChromaOf("v", w, h, 2)
  IN  FromZero([YUV422P |-> l \o u \o v,
                YUV420  |-> l \o u2 \o v2,
                YVU420  |-> l \o v2 \o u2,
                YV12    |-> l \o v2 \o u2,
                NV12    |-> l \o ByTurns(u2, v2),
                NV21    |-> l \o ByTurns(v2, u2),
                NV16    |-> l \o ByTurns(u, v),
                NV61    |-> l \o ByTurns(v, u),
                YUYV    |-> ByTurns(l, ByTurns(u, v)),
                YVYU    |-> ByTurns(l, ByTurns(v, u)),
                UYVY    |-> ByTurns(ByTurns(u, v), l),
                VYUY    |-> ByTurns(ByTurns(v, u), l)][f])

-----------------------------------------------------------------------------
(***************************************************************************)
(* Repacking.                                                              *)
(***************************************************************************)
NV21ToYV12(img) ==
  [i \in 0..(Count * 3) \div 2 - 1 |->
     IF i < Count THEN img[i]
     ELSE IF i < (Count * 5) \div 4 THEN img[Count + 2 * (i - Count)]
     ELSE img[Count + 2 * (i - (Count * 5) \div 4) + 1]]

NV21ToYU12(img) ==
  [i \in 0..(Count * 3) \div 2 - 1 |->
     IF i < Count THEN img[i]
     ELSE IF i < (Count * 5) \div 4 THEN img[Count + 2 * (i - Count) + 1]
     ELSE img[Count + 2 * (i - (Count * 5) \div 4)]]

\* U comes from the even rows and V from the odd ones.
YUYVToNV21(img) ==
  [i \in 0..(Count * 3) \div 2 - 1 |->
     IF i < Count THEN img[2 * i]
     ELSE LET k   == (i - Count) \div 2
              col == k % (width \div 2)
              row == 2 * (k \div (width \div 2))
          IN  IF (i - Count) % 2 = 0
              THEN img[(row + 1) * 2 * width + 4 * col + 3]
              ELSE img[row * 2 * width + 4 * col + 1]]

Repack(from, to, converted) ==
  /\ format = from /\ Unsaved
  /\ format' = to
  /\ image' = converted
  /\ full' = FALSE
  /\ UNCHANGED <<width, height, rgb, values, pixel, file, planes>>

ToYV12 == Repack("NV21", "YV12", NV21ToYV12(image))
ToYU12 == Repack("NV21", "YUV420", NV21ToYU12(image))
ToNV21 == Repack("YUYV", "NV21", YUYVToNV21(image))

-----------------------------------------------------------------------------
(***************************************************************************)
(* Writing.                                                                *)
(***************************************************************************)
FileHeaderSize == 14
InfoHeaderSize == 40

PixelBytes(output) == IF output = "BMP" THEN 3 ELSE 2
BitCount(output)   == IF output = "BMP" THEN 24 ELSE 16

\* bfOffBits: the 565 bitmap has its three masks behind the headers.
OffBits(output) ==
  FileHeaderSize + InfoHeaderSize + (IF output = "BMP565" THEN 12 ELSE 0)

\* bfSize
Size(output) ==
  Count * PixelBytes(output) + FileHeaderSize + InfoHeaderSize
  + (IF output = "BMP565" THEN 12 ELSE 0)

\* The 565 bitmap gives the size of the file, rounded up to whole words, for
\* that of the image.
SizeImage(output) ==
  IF output = "BMP565" THEN 4 * ((Size(output) + 3) \div 4) ELSE 0

\* The calls of fwrite before that of the pixels.
Before(output) ==
  LET masks == IF output = "BMP565" THEN 12 ELSE 0
  IN  FileHeaderSize + InfoHeaderSize + masks

\* biHeight is stored without a sign and read with one.
Bitmap(output, p) ==
  [output |-> output, bfSize |-> Size(output), bfOffBits |-> OffBits(output),
   biHeight |-> -height, biBitCount |-> BitCount(output),
   biSizeImage |-> SizeImage(output), before |-> Before(output),
   length |-> Before(output) + Count * PixelBytes(output),
   w555 |-> IF output = "BMP555" THEN RGB24ToRGB555(p) ELSE NoWord,
   w565 |-> IF output = "BMP565" THEN RGB24ToRGB565(p) ELSE NoWord]

\* rgb888.rgb, rgb555.rgb and rgb565.rgb, up to the first that cannot be made.
RawFile(p, made) ==
  [NoFile EXCEPT !.output = "RGBfile",
                 !.w555 = IF made >= 2 THEN RGB24ToRGB555(p) ELSE NoWord,
                 !.w565 = IF made >= 3 THEN RGB24ToRGB565(p) ELSE NoWord]

\* A function that cannot have memory, or its first file, changes nothing.
Write(output) ==
  /\ Unsaved
  /\ rgb' = [p \in Pixels |->
               [k \in 1..3 |-> image[Offsets(p[1], p[2])[k]]]]
  /\ values' \in Samples \X Samples \X Samples
  /\ pixel' = ToRGB24(values')
  /\ \/ output \in Bitmaps /\ file' = Bitmap(output, pixel')
     \/ output = "RGBfile" /\ \E made \in 1..3 : file' = RawFile(pixel', made)
  /\ UNCHANGED <<width, height, format, full, image, planes>>

\* n samples of the image, every step-th one.
Part(first, step, n) == [i \in 1..n |-> image[first + step * (i - 1)]]

SavePlanes(files) ==
  /\ format = "NV21" /\ Unsaved
  /\ planes' = files
  /\ UNCHANGED <<width, height, format, full, image, rgb, values, pixel, file>>

\* When a file of chroma cannot be opened, that of the luma stays.
OnlyLuma == [NoPlanes EXCEPT !.y = Part(0, 1, Count)]

saveYUV_NV21 ==
  \/ SavePlanes([OnlyLuma EXCEPT !.u = Part(Count + 1, 2, Count \div 4),
                                 !.v = Part(Count, 2, Count \div 4)])
  \/ SavePlanes(OnlyLuma)

saveY_UV_NV21 ==
  \/ SavePlanes([OnlyLuma EXCEPT !.uv = Part(Count, 1, Count \div 2)])
  \/ SavePlanes(OnlyLuma)

Init ==
  /\ width \in Widths /\ height \in Heights
  /\ format \in Formats
  /\ full = (format \in FullFormats)
  /\ image = Camera(format, width, height)
  /\ rgb = <<>> /\ values = <<0, 0, 0>> /\ pixel = <<0, 0, 0>>
  /\ file = NoFile /\ planes = NoPlanes

Next == \/ ToYV12 \/ ToYU12 \/ ToNV21
        \/ \E output \in Outputs : Write(output)
        \/ saveYUV_NV21 \/ saveY_UV_NV21

Spec == Init /\ [][Next]_vars

-----------------------------------------------------------------------------
\* Every variable keeps its type: a colour that was computed is three bytes.
TypeOK ==
  /\ width \in Widths /\ height \in Heights /\ format \in Formats
  /\ full \in BOOLEAN
  /\ values \in Samples \X Samples \X Samples \/ values = <<0, 0, 0>>
  /\ pixel \in (0..255) \X (0..255) \X (0..255)

\* The function for a format never reads outside an image of that format,
\* whichever function made the image.
ReadsInside ==
  \A p \in Pixels : \A k \in 1..3 : Offsets(p[1], p[2])[k] \in DOMAIN image

\* The colour of a pixel is computed from its own Y and from the U and the V
\* that stand for it, in every layout and after every repacking; a file of one
\* plane holds that plane's samples in the order of the image, and the file of
\* both has V before U for every place.
OwnSamples ==
  /\ file # NoFile =>
       \A p \in Pixels :
         /\ rgb[p][1] = <<"y", p[1], p[2]>>
         /\ \A k \in 2..3 :
              /\ rgb[p][k][1] = <<"y", "u", "v">>[k]
              /\ rgb[p][k][2] = p[1] \div 2
              /\ IF full THEN rgb[p][k][3] = p[2]
                         ELSE rgb[p][k][3] \div 2 = p[2] \div 2
  /\ LET Holds(s, plane, i, col, row) ==
           s[i][1] = plane /\ s[i][2] = col /\ s[i][3] \div 2 = row
         half == width \div 2
     IN /\ \A i \in DOMAIN planes.y :
             planes.y[i] = <<"y", (i - 1) % width, (i - 1) \div width>>
        /\ \A i \in DOMAIN planes.u :
             /\ Holds(planes.u, "u", i, (i - 1) % half, (i - 1) \div half)
             /\ Holds(planes.v, "v", i, (i - 1) % half, (i - 1) \div half)
        /\ \A i \in DOMAIN planes.uv :
             Holds(planes.uv, IF i % 2 = 1 THEN "v" ELSE "u", i,
                   ((i - 1) \div 2) % half, ((i - 1) \div 2) \div half)

\* Without colour (U = V = 128) the three bytes differ from Y by at most one.
GreyStaysGrey ==
  file # NoFile /\ values[2] = 128 /\ values[3] = 128 =>
    \A k \in 1..3 : pixel[k] - values[1] \in -1..1

\* The packed formats keep the high bits of the three bytes, each in its field.
FieldsKept ==
  LET Kept(word, bits, reds) ==
        /\ word % 32 = pixel[1] \div 8
        /\ (word % reds) \div 32 = pixel[2] \div bits
        /\ word \div reds = pixel[3] \div 8
  IN  /\ file.w555 # NoWord => Kept(file.w555, 8, 1024)
      /\ file.w565 # NoWord => Kept(file.w565, 4, 2048)

\* Where a reader of bitmaps looks for a pixel: every row is filled up to whole
\* words, and the first row is the top one when biHeight is negative.
Stride == 4 * ((width * file.biBitCount + 31) \div 32)

Sought(p) ==
  file.bfOffBits + p[1] * (file.biBitCount \div 8)
  + Stride * (IF file.biHeight < 0 THEN p[2] ELSE height - 1 - p[2])

\* Where the loops of the code left it.
Placed(p) == file.before + (p[2] * width + p[1]) * PixelBytes(file.output)

\* By its header a reader finds every pixel of a bitmap exactly when a row fills
\* whole words, which the code, that fills up none, has of every even width but
\* for BMP, where it must be a multiple of four.  bfSize is the size of the
\* file, and biSizeImage, where it is given, that size too: more than the
\* pixels take, and never less.
HeaderTellsSize ==
  file.output \in Bitmaps =>
    /\ file.bfSize = file.length
    /\ (\A p \in Pixels : Sought(p) = Placed(p))
         <=> (file.output = "BMP" => width % 4 = 0)
    /\ file.biSizeImage \in {0} \cup file.length..file.length + 3
=============================================================================
