---------------------------- MODULE ConvertProofs ----------------------------
(***************************************************************************)
(* Theorems about Convert, for images of every even width and height.      *)
(***************************************************************************)
EXTENDS Convert, TLAPS

IsEven(n) == n \in Nat \ {0} /\ n % 2 = 0

\* The samples of one chroma plane: one for two pixels, or one for four.
LEMMA PlaneSizes ==
  ASSUME NEW w, NEW h, IsEven(w), IsEven(h)
  PROVE  /\ w * h \in Nat
         /\ (w \div 2) * h \in Nat /\ w * h = 2 * ((w \div 2) * h)
         /\ (w \div 2) * (h \div 2) \in Nat
         /\ w * h = 4 * ((w \div 2) * (h \div 2))
  <1> DEFINE a == w \div 2  b == h \div 2
  <1>1. a \in Nat /\ b \in Nat /\ w = 2 * a /\ h = 2 * b
    BY DEF IsEven
  <1>2. /\ a * h \in Nat /\ a * b \in Nat
        /\ (2 * a) * h = 2 * (a * h) /\ a * (2 * b) = 2 * (a * b)
    BY <1>1
  <1>3. w * h = 2 * (a * h) /\ a * h = 2 * (a * b)
    BY <1>1, <1>2
  <1> QED
    BY <1>2, <1>3

\* The number of column c in row r of a table with n columns and m rows.
LEMMA InTable ==
  ASSUME NEW n \in Nat, NEW m \in Nat, NEW c \in 0..n - 1, NEW r \in 0..m - 1
  PROVE  r * n + c \in 0..m * n - 1
  <1>1. /\ r * n \in Nat /\ m * n \in Nat
        /\ (m - 1 - r) * n \in Nat
    OBVIOUS
  <1>2. (m - 1 - r) * n = m * n - n - r * n
    OBVIOUS
  <1> QED
    BY <1>1, <1>2

Sample == {"y", "u", "v"} \X Int \X Int

\* The planes hold one sample for each place.
LEMMA Lengths ==
  ASSUME NEW w, NEW h, IsEven(w), IsEven(h), NEW p \in {"u", "v"}
  PROVE  /\ LumaOf(w, h) \in Seq(Sample)
         /\ Len(LumaOf(w, h)) = w * h
         /\ ChromaOf(p, w, h, 1) \in Seq(Sample)
         /\ Len(ChromaOf(p, w, h, 1)) = (w \div 2) * h
         /\ ChromaOf(p, w, h, 2) \in Seq(Sample)
         /\ Len(ChromaOf(p, w, h, 2)) = (w \div 2) * (h \div 2)
  <1>1. /\ w * h \in Nat /\ (w \div 2) * h \in Nat
        /\ (w \div 2) * (h \div 2) \in Nat /\ h \div 1 = h
        /\ w \in Nat \ {0} /\ w \div 2 \in Nat \ {0}
    BY PlaneSizes DEF IsEven
  <1>2. LumaOf(w, h) \in Seq(Sample) /\ Len(LumaOf(w, h)) = w * h
    BY <1>1 DEF LumaOf, Sample
  <1>3. ASSUME NEW k \in {1, 2}
        PROVE  /\ ChromaOf(p, w, h, k) \in Seq(Sample)
               /\ Len(ChromaOf(p, w, h, k)) = (w \div 2) * (h \div k)
    <2>1. (w \div 2) * (h \div k) \in Nat
      BY <1>1
    <2>2. ASSUME NEW i \in 1..(w \div 2) * (h \div k)
          PROVE  <<p, (i - 1) % (w \div 2), k * ((i - 1) \div (w \div 2))>> \in Sample
      <3>1. (i - 1) % (w \div 2) \in Int /\ (i - 1) \div (w \div 2) \in Int
        BY <1>1
      <3>2. k * ((i - 1) \div (w \div 2)) \in Int
        BY <3>1
      <3> QED
        BY <3>1, <3>2 DEF Sample
    <2> QED
      BY <2>1, <2>2 DEF ChromaOf
  <1> QED
    BY <1>1, <1>2, <1>3
\* Two planes by turns are as long as both.
LEMMA TurnsLength ==
  ASSUME NEW S, NEW s \in Seq(S), NEW t \in Seq(S), Len(t) = Len(s)
  PROVE  ByTurns(s, t) \in Seq(S) /\ Len(ByTurns(s, t)) = 2 * Len(s)
  <1>1. 2 * Len(s) \in Nat
    OBVIOUS
  <1>2. ASSUME NEW i \in 1..2 * Len(s)
        PROVE  (IF i % 2 = 1 THEN s[(i + 1) \div 2] ELSE t[i \div 2]) \in S
    <2>1. i % 2 = 1 => (i + 1) \div 2 \in 1..Len(s)
      OBVIOUS
    <2>2. i % 2 # 1 => i \div 2 \in 1..Len(t)
      OBVIOUS
    <2> QED
      BY <2>1, <2>2
  <1> QED
    BY <1>1, <1>2 DEF ByTurns

\* The length of sequences one after the other.
LEMMA JoinedLength ==
  ASSUME NEW S, NEW s \in Seq(S), NEW t \in Seq(S)
  PROVE  Len(s \o t) = Len(s) + Len(t)
  OBVIOUS

\* The same for three.
LEMMA JoinedTwice ==
  ASSUME NEW S, NEW s \in Seq(S), NEW t \in Seq(S), NEW r \in Seq(S)
  PROVE  Len(s \o t \o r) = Len(s) + Len(t) + Len(r)
  OBVIOUS

\* The bytes of an image.
Bytes(n, whole) == IF whole THEN 2 * n ELSE (n * 3) \div 2

\* An image of the camera has two bytes for each pixel, or one and a half.
LEMMA CameraSize ==
  ASSUME NEW w, NEW h, IsEven(w), IsEven(h), NEW f \in Formats
  PROVE  DOMAIN Camera(f, w, h) = 0..Bytes(w * h, f \in FullFormats) - 1
  <1> DEFINE l  == LumaOf(w, h)
             u  == ChromaOf("u", w, h, 1)  v  == ChromaOf("v", w, h, 1)
             u2 == ChromaOf("u", w, h, 2)  v2 == ChromaOf("v", w, h, 2)
             n  == w * h
  <1>1. /\ l \in Seq(Sample) /\ Len(l) = n /\ n \in Nat
        /\ u \in Seq(Sample) /\ v \in Seq(Sample) /\ Len(u) = Len(v)
        /\ u2 \in Seq(Sample) /\ v2 \in Seq(Sample) /\ Len(u2) = Len(v2)
        /\ n = 2 * Len(u) /\ n = 4 * Len(u2)
    <2>1. /\ u \in Seq(Sample) /\ Len(u) = (w \div 2) * h
          /\ u2 \in Seq(Sample) /\ Len(u2) = (w \div 2) * (h \div 2)
          /\ l \in Seq(Sample) /\ Len(l) = n
      BY Lengths, Zenon
    <2>2. /\ v \in Seq(Sample) /\ Len(v) = (w \div 2) * h
          /\ v2 \in Seq(Sample) /\ Len(v2) = (w \div 2) * (h \div 2)
      BY Lengths, Zenon
    <2>3. n \in Nat /\ n = 2 * ((w \div 2) * h) /\ n = 4 * ((w \div 2) * (h \div 2))
      BY PlaneSizes, Zenon
    <2> QED
      BY <2>1, <2>2, <2>3
  <1> HIDE DEF l, u, v, u2, v2, n
  <1>2. /\ ByTurns(u, v) \in Seq(Sample) /\ Len(ByTurns(u, v)) = n
        /\ ByTurns(v, u) \in Seq(Sample) /\ Len(ByTurns(v, u)) = n
    BY <1>1, TurnsLength
  <1>3. /\ ByTurns(u2, v2) \in Seq(Sample) /\ 2 * Len(ByTurns(u2, v2)) = n
        /\ ByTurns(v2, u2) \in Seq(Sample) /\ 2 * Len(ByTurns(v2, u2)) = n
    <2>1. /\ ByTurns(u2, v2) \in Seq(Sample) /\ Len(ByTurns(u2, v2)) = 2 * Len(u2)
          /\ ByTurns(v2, u2) \in Seq(Sample) /\ Len(ByTurns(v2, u2)) = 2 * Len(v2)
      BY <1>1, TurnsLength, Zenon
    <2> QED
      BY <1>1, <2>1
  <1>4. /\ Len(ByTurns(l, ByTurns(u, v))) = 2 * n
        /\ Len(ByTurns(l, ByTurns(v, u))) = 2 * n
        /\ Len(ByTurns(ByTurns(u, v), l)) = 2 * n
        /\ Len(ByTurns(ByTurns(v, u), l)) = 2 * n
    <2>1. ASSUME NEW t \in Seq(Sample), Len(t) = n
          PROVE  Len(ByTurns(l, t)) = 2 * n /\ Len(ByTurns(t, l)) = 2 * n
      <3>1. Len(t) = Len(l) /\ Len(l) = Len(t) /\ l \in Seq(Sample)
        BY <1>1, <2>1, Zenon
      <3>2. /\ Len(ByTurns(l, t)) = 2 * Len(l)
            /\ Len(ByTurns(t, l)) = 2 * Len(t)
        BY <3>1, TurnsLength, Zenon
      <3> QED
        BY <1>1, <2>1, <3>2, Zenon
    <2> QED
      BY <1>2, <2>1, Zenon
  <1>5. /\ Len(l \o ByTurns(u, v)) = 2 * n /\ Len(l \o ByTurns(v, u)) = 2 * n
        /\ Len(l \o u \o v) = 2 * n
    <2>1. /\ Len(l \o ByTurns(u, v)) = Len(l) + Len(ByTurns(u, v))
          /\ Len(l \o ByTurns(v, u)) = Len(l) + Len(ByTurns(v, u))
      BY <1>1, <1>2, JoinedLength, Zenon
    <2>2. Len(l \o u \o v) = Len(l) + Len(u) + Len(v)
      <3>1. l \in Seq(Sample) /\ u \in Seq(Sample) /\ v \in Seq(Sample)
        BY <1>1, Zenon
      <3> QED
        BY <3>1, JoinedTwice
    <2>3. /\ n \in Nat /\ Len(l) = n /\ n = 2 * Len(u) /\ Len(u) = Len(v)
          /\ Len(u) \in Nat
      BY <1>1
    <2>4. Len(l) + Len(u) + Len(v) = 2 * n /\ n + n = 2 * n
      BY <2>3
    <2> QED
      BY <1>1, <1>2, <2>1, <2>2, <2>4, Zenon
  <1>6. /\ Len(l \o u2 \o v2) = (n * 3) \div 2
        /\ Len(l \o v2 \o u2) = (n * 3) \div 2
        /\ Len(l \o ByTurns(u2, v2)) = (n * 3) \div 2
        /\ Len(l \o ByTurns(v2, u2)) = (n * 3) \div 2
    <2>1. /\ Len(l \o ByTurns(u2, v2)) = Len(l) + Len(ByTurns(u2, v2))
          /\ Len(l \o ByTurns(v2, u2)) = Len(l) + Len(ByTurns(v2, u2))
      BY <1>1, <1>3, JoinedLength, Zenon
    <2>2. /\ Len(l \o u2 \o v2) = Len(l) + Len(u2) + Len(v2)
          /\ Len(l \o v2 \o u2) = Len(l) + Len(v2) + Len(u2)
      <3>1. l \in Seq(Sample) /\ u2 \in Seq(Sample) /\ v2 \in Seq(Sample)
        BY <1>1, Zenon
      <3> QED
        BY <3>1, JoinedTwice
    <2>3. /\ n \in Nat /\ Len(l) = n /\ n = 4 * Len(u2) /\ Len(u2) = Len(v2)
          /\ Len(u2) \in Nat
      BY <1>1
    <2>4. ASSUME NEW k \in Nat, 2 * k = n PROVE n + k = (n * 3) \div 2
      BY <2>3, <2>4
    <2>5. /\ Len(l) + Len(u2) + Len(v2) = (n * 3) \div 2
          /\ Len(l) + Len(v2) + Len(u2) = (n * 3) \div 2
      BY <2>3
    <2>6. Len(ByTurns(u2, v2)) \in Nat /\ Len(ByTurns(v2, u2)) \in Nat
      BY <1>3
    <2> QED
      BY <1>1, <1>3, <2>1, <2>2, <2>4, <2>5, <2>6, Zenon
  <1> DEFINE s == [YUV422P |-> l \o u \o v,
                   YUV420  |-> l \o u2 \o v2,
                   YVU420  |-> l \o v2 \o u2,
                   YV12    |-> l \o v2 \o u2,
                   NV12    |-> l \o ByTurns(u2, v2),
                   NV21    |-> l \o ByTurns(v2, u2),
                   NV16    |-> l \o ByTurns(u, v),
                   NV61    |-> l \o ByTurns(v, u),
                   YUYV    |-> ByTurns(l, ByTurns(u, v)),
                   YVYU    |-> ByTurns(l, ByTurns(v, u)),
                   UYVY    |-> ByTurns(ByTurns(u, v), l),
                   VYUY    |-> ByTurns(ByTurns(v, u), l)][f]
  <1>7. Len(s) = Bytes(n, f \in FullFormats)
    <2>1. CASE f \in FullFormats
      BY <1>4, <1>5, <2>1 DEF FullFormats, Bytes
    <2>2. CASE f \in HalfFormats
      BY <1>6, <2>2 DEF FullFormats, HalfFormats, Bytes
    <2> QED
      BY <2>1, <2>2 DEF Formats
  <1>8. Camera(f, w, h) = FromZero(s)
    BY DEF Camera, l, u, v, u2, v2
  <1> QED
    BY <1>7, <1>8 DEF FromZero, n
-----------------------------------------------------------------------------
\* The image in memory is as long as its format says.
SizeInv ==
  /\ width \in Widths /\ height \in Heights /\ format \in Formats
  /\ full <=> format \in FullFormats
  /\ DOMAIN image = 0..Bytes(Count, full) - 1

\* The sizes of an image are even.
LEMMA EvenSizes == SizeInv => IsEven(width) /\ IsEven(height)
  BY ConstantsAssumption DEF ConstantsAssumption, SizeInv, IsEven

\* Repacking writes every byte of the image it makes, and no more.
LEMMA SizeInvariant == Spec => []SizeInv
  <1>1. Init => SizeInv
    <2> SUFFICES ASSUME Init PROVE SizeInv
      OBVIOUS
    <2>1. IsEven(width) /\ IsEven(height)
      BY ConstantsAssumption DEF ConstantsAssumption, Init, IsEven
    <2>2. DOMAIN image = 0..Bytes(width * height, format \in FullFormats) - 1
      BY <2>1, CameraSize, Zenon DEF Init
    <2> QED
      BY <2>2, Zenon DEF Init, SizeInv, Count
  <1>2. SizeInv /\ [Next]_vars => SizeInv'
    <2> SUFFICES ASSUME SizeInv, [Next]_vars PROVE SizeInv'
      OBVIOUS
    <2>1. ASSUME NEW from, NEW to \in HalfFormats, NEW converted,
                 DOMAIN converted = 0..(Count * 3) \div 2 - 1,
                 Repack(from, to, converted)
          PROVE  SizeInv'
      <3>1. /\ format' = to /\ full' = FALSE /\ image' = converted
            /\ width' = width /\ height' = height
        BY <2>1, Zenon DEF Repack
      <3>2. to \in Formats /\ ~(to \in FullFormats)
        BY DEF Formats, HalfFormats, FullFormats
      <3>3. DOMAIN image' = 0..Bytes(Count', full') - 1
        BY <2>1, <3>1, Zenon DEF Count, Bytes
      <3>4. full' <=> format' \in FullFormats
        BY <3>1, <3>2, Zenon
      <3>5. width' \in Widths /\ height' \in Heights /\ format' \in Formats
        BY <3>1, <3>2, Zenon DEF SizeInv
      <3> QED
        BY <3>3, <3>4, <3>5, Zenon DEF SizeInv
    <2>2. CASE ToYV12 \/ ToYU12 \/ ToNV21
      <3>1. "YV12" \in HalfFormats /\ "YUV420" \in HalfFormats /\ "NV21" \in HalfFormats
        BY DEF HalfFormats
      <3>2. /\ DOMAIN NV21ToYV12(image) = 0..(Count * 3) \div 2 - 1
            /\ DOMAIN NV21ToYU12(image) = 0..(Count * 3) \div 2 - 1
            /\ DOMAIN YUYVToNV21(image) = 0..(Count * 3) \div 2 - 1
        BY DEF NV21ToYV12, NV21ToYU12, YUYVToNV21
      <3> QED
        BY <2>1, <2>2, <3>1, <3>2, Zenon DEF ToYV12, ToYU12, ToNV21
    <2>3. CASE UNCHANGED <<width, height, format, full, image>>
      BY <2>3, Zenon DEF SizeInv, Count
    <2> QED
      BY <2>2, <2>3, Zenon DEF Next, Write, saveYUV_NV21, saveY_UV_NV21, SavePlanes, vars
  <1> QED
    BY <1>1, <1>2, PTL DEF Spec

\* The functions that turn YUV into RGB read inside the image, for images of
\* every even size and in every layout, also after a repacking.
THEOREM NoReadOutside == Spec => []ReadsInside
  <1>1. SizeInv => ReadsInside
    <2> SUFFICES ASSUME SizeInv, NEW x \in 0..width - 1, NEW y \in 0..height - 1
                 PROVE  \A k \in 1..3 : Offsets(x, y)[k] \in DOMAIN image
      BY DEF ReadsInside, Pixels
    <2> DEFINE q == (width \div 2) * (height \div 2)
               c == Block(x, y)
               p == Y(x, y)
    <2>1. /\ width \in Nat \ {0} /\ height \in Nat \ {0}
          /\ width % 2 = 0 /\ height % 2 = 0
      BY EvenSizes DEF IsEven
    <2>2. Count = 4 * q /\ q \in Nat
      BY EvenSizes, PlaneSizes, Zenon DEF Count
    <2>3. p \in 0..Count - 1
      <3>1. y * width + x \in 0..height * width - 1
        BY <2>1, InTable
      <3>2. height * width = width * height
        BY <2>1
      <3> QED
        BY <3>1, <3>2 DEF Y, Count
    <2>4. c \in 0..q - 1
      <3>1. /\ width \div 2 \in Nat /\ height \div 2 \in Nat
            /\ x \div 2 \in 0..(width \div 2) - 1
            /\ y \div 2 \in 0..(height \div 2) - 1
        BY <2>1
      <3>2. (y \div 2) * (width \div 2) + x \div 2
              \in 0..(height \div 2) * (width \div 2) - 1
        BY <3>1, InTable
      <3>3. (height \div 2) * (width \div 2) = q
        BY <3>1
      <3> QED
        BY <3>2, <3>3 DEF Block
    <2>5. Half(x, y) = p \div 2
      BY DEF Half
    <2> HIDE DEF p, q, c
    <2>6. CASE format \in FullFormats
      <3>1. DOMAIN image = 0..8 * q - 1
        <4>1. DOMAIN image = 0..2 * Count - 1
          BY <2>6, Zenon DEF SizeInv, Bytes
        <4>2. 2 * Count = 8 * q
          BY <2>2
        <4> QED
          BY <4>1, <4>2, Zenon
      <3>2. p \div 2 \in 0..2 * q - 1 /\ p \in 0..4 * q - 1
        BY <2>2, <2>3
      <3>3. Count \in Nat /\ (Count * 3) \div 2 = 6 * q /\ p \in Nat
        BY <2>2, <2>3
      <3>4. CASE format \in {"YUV422P", "NV16", "NV61"}
        <4> DEFINE half == p \div 2
        <4>1. /\ p \in 0..8 * q - 1
              /\ Count + half \in 0..8 * q - 1
              /\ (Count * 3) \div 2 + half \in 0..8 * q - 1
              /\ Count + 2 * half \in 0..8 * q - 1
              /\ Count + 2 * half + 1 \in 0..8 * q - 1
          BY <2>2, <3>2, <3>3
        <4> HIDE DEF half
        <4>2. CASE format = "YUV422P"
          BY <2>5, <3>1, <4>1, <4>2 DEF Offsets, YUV422PToRGB24, p, half
        <4>3. CASE format = "NV16"
          BY <2>5, <3>1, <4>1, <4>3 DEF Offsets, NV16ToRGB24, p, half
        <4>4. CASE format = "NV61"
          BY <2>5, <3>1, <4>1, <4>4 DEF Offsets, NV61ToRGB24, p, half
        <4> QED
          BY <3>4, <4>2, <4>3, <4>4
      <3>5. CASE format \in {"YUYV", "YVYU", "UYVY", "VYUY"}
        <4> DEFINE half == p \div 2
        <4>1. /\ 2 * p \in 0..8 * q - 1 /\ 2 * p + 1 \in 0..8 * q - 1
              /\ 4 * half \in 0..8 * q - 1 /\ 4 * half + 1 \in 0..8 * q - 1
              /\ 4 * half + 2 \in 0..8 * q - 1 /\ 4 * half + 3 \in 0..8 * q - 1
          BY <2>2, <3>2
        <4> HIDE DEF half
        <4>2. CASE format = "YUYV"
          BY <2>5, <3>1, <4>1, <4>2 DEF Offsets, YUYVToRGB24, p, half
        <4>3. CASE format = "YVYU"
          BY <2>5, <3>1, <4>1, <4>3 DEF Offsets, YVYUToRGB24, p, half
        <4>4. CASE format = "UYVY"
          BY <2>5, <3>1, <4>1, <4>4 DEF Offsets, UYVYToRGB24, p, half
        <4>5. CASE format = "VYUY"
          BY <2>5, <3>1, <4>1, <4>5 DEF Offsets, VYUYToRGB24, p, half
        <4> QED
          BY <3>5, <4>2, <4>3, <4>4, <4>5
      <3> QED
        BY <2>6, <3>4, <3>5 DEF FullFormats
    <2>7. CASE format \in HalfFormats
      <3>1. DOMAIN image = 0..6 * q - 1
        <4>1. ~(format \in FullFormats)
          BY <2>7 DEF HalfFormats, FullFormats
        <4>2. DOMAIN image = 0..(Count * 3) \div 2 - 1
          BY <4>1, Zenon DEF SizeInv, Bytes
        <4>3. (Count * 3) \div 2 = 6 * q
          BY <2>2
        <4> QED
          BY <4>2, <4>3, Zenon
      <3>2. p \in 0..4 * q - 1
        BY <2>2, <2>3
      <3>3. /\ p \in 0..6 * q - 1
            /\ Count + c \in 0..6 * q - 1 /\ (Count * 5) \div 4 + c \in 0..6 * q - 1
            /\ Count + 2 * c \in 0..6 * q - 1 /\ Count + 2 * c + 1 \in 0..6 * q - 1
        BY <2>2, <2>4, <3>2
      <3>4. CASE format = "YUV420"
        BY <3>1, <3>3, <3>4 DEF Offsets, YUV420ToRGB24, p, c
      <3>5. CASE format \in {"YVU420", "YV12"}
        BY <3>1, <3>3, <3>5 DEF Offsets, YVU420ToRGB24, YV12ToRGB24, p, c
      <3>6. CASE format = "NV12"
        BY <3>1, <3>3, <3>6 DEF Offsets, NV12ToRGB24, p, c
      <3>7. CASE format = "NV21"
        BY <3>1, <3>3, <3>7 DEF Offsets, NV21ToRGB24, p, c
      <3> QED
        BY <2>7, <3>4, <3>5, <3>6, <3>7 DEF HalfFormats
    <2> QED
      BY <2>6, <2>7 DEF SizeInv, Formats
  <1> QED
    BY <1>1, SizeInvariant, PTL
-----------------------------------------------------------------------------
Byte == 0..255

\* What is cut to a byte is one.
LEMMA ClampIsByte == ASSUME NEW n \in Int PROVE Clamp(n) \in Byte
  BY DEF Clamp, Byte

\* So every colour is three bytes.
LEMMA ColourIsBytes ==
  ASSUME NEW v \in Samples \X Samples \X Samples
  PROVE  ToRGB24(v) \in Byte \X Byte \X Byte
  <1>1. v[1] \in Int /\ v[2] \in Int /\ v[3] \in Int
    <2>1. v[1] \in Samples /\ v[2] \in Samples /\ v[3] \in Samples
      OBVIOUS
    <2>2. \A n \in Samples : n \in 0..255
      BY ConstantsAssumption, Zenon DEF ConstantsAssumption
    <2>3. \A n \in 0..255 : n \in Int
      OBVIOUS
    <2> QED
      BY <2>1, <2>2, <2>3, Zenon
  <1>2. Blue(v) \in Int /\ Green(v) \in Int /\ Red(v) \in Int
    BY <1>1 DEF Blue, Green, Red
  <1> QED
    BY <1>2, ClampIsByte DEF ToRGB24

\* The three fields can be read back from a packed pixel.
LEMMA Fields ==
  ASSUME NEW p \in Byte \X Byte \X Byte
  PROVE  /\ RGB24ToRGB555(p) % 32 = p[1] \div 8
         /\ (RGB24ToRGB555(p) % 1024) \div 32 = p[2] \div 8
         /\ RGB24ToRGB555(p) \div 1024 = p[3] \div 8
         /\ RGB24ToRGB565(p) % 32 = p[1] \div 8
         /\ (RGB24ToRGB565(p) % 2048) \div 32 = p[2] \div 4
         /\ RGB24ToRGB565(p) \div 2048 = p[3] \div 8
  <1> DEFINE b == p[1] \div 8  g == p[2] \div 8  g6 == p[2] \div 4  r == p[3] \div 8
  <1>1. b \in 0..31 /\ g \in 0..31 /\ g6 \in 0..63 /\ r \in 0..31
    BY DEF Byte
  <1> HIDE DEF b, g, g6, r
  <1>2. /\ (r * 1024 + g * 32 + b) % 32 = b
        /\ ((r * 1024 + g * 32 + b) % 1024) \div 32 = g
        /\ (r * 1024 + g * 32 + b) \div 1024 = r
    BY <1>1
  <1>3. /\ (r * 2048 + g6 * 32 + b) % 32 = b
        /\ ((r * 2048 + g6 * 32 + b) % 2048) \div 32 = g6
        /\ (r * 2048 + g6 * 32 + b) \div 2048 = r
    BY <1>1
  <1> QED
    BY <1>2, <1>3 DEF RGB24ToRGB555, RGB24ToRGB565, b, g, g6, r

\* No bit that is kept of a colour is lost or falls into another field.
THEOREM ColoursArePacked == Spec => []FieldsKept
  <1>1. Init => FieldsKept
    BY DEF Init, FieldsKept, NoFile
  <1>2. FieldsKept /\ [Next]_vars => FieldsKept'
    <2>1. ASSUME NEW output \in Outputs, Write(output) PROVE FieldsKept'
      <3>1. pixel' \in Byte \X Byte \X Byte
        BY <2>1, ColourIsBytes DEF Write
      <3>2. /\ file'.w555 \in {NoWord, RGB24ToRGB555(pixel')}
            /\ file'.w565 \in {NoWord, RGB24ToRGB565(pixel')}
        <4>1. CASE file' = Bitmap(output, pixel')
          BY <4>1 DEF Bitmap
        <4>2. CASE \E made \in 1..3 : file' = RawFile(pixel', made)
          BY <4>2 DEF RawFile, NoFile
        <4> QED
          BY <2>1, <4>1, <4>2, Zenon DEF Write
      <3> QED
        BY <3>1, <3>2, Fields DEF FieldsKept
    <2>2. CASE UNCHANGED <<pixel, file>>
      BY <2>2 DEF FieldsKept
    <2> QED
      BY <2>1, <2>2, Zenon DEF Next, ToYV12, ToYU12, ToNV21, Repack,
        saveYUV_NV21, saveY_UV_NV21, SavePlanes, vars
  <1> QED
    BY <1>1, <1>2, PTL DEF Spec
-----------------------------------------------------------------------------
(***************************************************************************)
(* Every pixel has its own samples.                                        *)
(***************************************************************************)
\* Place r * n + c of a table with n columns is column c of row r.
LEMMA PlaceInTable ==
  ASSUME NEW n \in Nat \ {0}, NEW r \in Nat, NEW c \in 0..n - 1
  PROVE  (r * n + c) \div n = r /\ (r * n + c) % n = c
  <1> DEFINE m == r * n + c  q == m \div n  z == m % n
  <1>1. m \in Nat /\ r * n \in Nat
    OBVIOUS
  <1>2. q \in Nat /\ z \in 0..n - 1 /\ m = n * q + z
    BY <1>1
  <1>3. ASSUME NEW a \in Nat, NEW b \in Nat, a > b PROVE a * n >= b * n + n
    <2>1. PICK d \in Nat : a = b + 1 + d
      BY <1>3, a - b - 1 \in Nat, a = b + 1 + (a - b - 1)
    <2>2. a * n = b * n + n + d * n /\ d * n \in Nat /\ b * n \in Nat
      BY <2>1
    <2> QED
      BY <2>2
  <1>4. n * q = q * n /\ q * n \in Nat
    BY <1>2
  <1> HIDE DEF q, z, m
  <1>5. ~(r > q) /\ ~(q > r)
    BY <1>1, <1>2, <1>3, <1>4 DEF m
  <1>6. q = r
    BY <1>2, <1>5
  <1>7. z = c
    BY <1>1, <1>2, <1>4, <1>6 DEF m
  <1> QED
    BY <1>6, <1>7 DEF q, z, m

\* And every place has its column and its row.
LEMMA RowOfPlace ==
  ASSUME NEW n \in Nat \ {0}, NEW m \in Nat, NEW i \in 0..m * n - 1
  PROVE  i % n \in 0..n - 1 /\ i \div n \in 0..m - 1 /\ i = (i \div n) * n + (i % n)
  <1> DEFINE q == i \div n  z == i % n
  <1>1. m * n \in Nat /\ i \in Nat /\ i < m * n
    OBVIOUS
  <1>2. q \in Nat /\ z \in 0..n - 1 /\ i = n * q + z
    BY <1>1
  <1>3. n * q = q * n /\ q * n \in Nat
    BY <1>2
  <1>4. q < m
    <2> SUFFICES ASSUME ~(q < m) PROVE FALSE
      OBVIOUS
    <2>1. q - m \in Nat /\ (q - m) * n \in Nat
      BY <1>2
    <2>2. (q - m) * n = q * n - m * n
      BY <1>2
    <2> HIDE DEF q, z
    <2> QED
      BY <1>1, <1>2, <1>3, <2>1, <2>2
  <1> QED
    BY <1>2, <1>3, <1>4

\* The sample of a pixel is where its row and column are counted.
LEMMA PlaneSamples ==
  ASSUME NEW w, NEW h, IsEven(w), IsEven(h),
         NEW x \in 0..w - 1, NEW y \in 0..h - 1, NEW p \in {"u", "v"}
  PROVE  /\ LumaOf(w, h)[y * w + x + 1] = <<"y", x, y>>
         /\ ChromaOf(p, w, h, 1)[y * (w \div 2) + x \div 2 + 1] = <<p, x \div 2, y>>
         /\ ChromaOf(p, w, h, 2)[(y \div 2) * (w \div 2) + x \div 2 + 1]
              = <<p, x \div 2, 2 * (y \div 2)>>
  <1> DEFINE a == w \div 2  c == x \div 2  r == y \div 2
  <1>1. /\ w \in Nat \ {0} /\ a \in Nat \ {0} /\ h \in Nat /\ h \div 2 \in Nat
        /\ h \div 1 = h /\ c \in 0..a - 1 /\ r \in 0..(h \div 2) - 1
        /\ x \in 0..w - 1 /\ y \in Nat /\ r \in Nat
    BY DEF IsEven
  <1>2. /\ y * w + x \in 0..h * w - 1 /\ y * a + c \in 0..h * a - 1
        /\ r * a + c \in 0..(h \div 2) * a - 1
    BY <1>1, InTable
  <1>3. /\ y * w + x + 1 \in 1..w * h /\ y * a + c + 1 \in 1..a * (h \div 1)
        /\ r * a + c + 1 \in 1..a * (h \div 2)
        /\ (y * w + x + 1) - 1 = y * w + x /\ (y * a + c + 1) - 1 = y * a + c
        /\ (r * a + c + 1) - 1 = r * a + c
    <2>1. /\ h * w = w * h /\ h * a = a * h /\ (h \div 2) * a = a * (h \div 2)
          /\ h * w \in Nat /\ h * a \in Nat /\ (h \div 2) * a \in Nat
      BY <1>1
    <2> HIDE DEF a, c, r
    <2>2. ASSUME NEW i, NEW m \in Nat, i \in 0..m - 1
          PROVE  i + 1 \in 1..m /\ (i + 1) - 1 = i
      BY <2>2
    <2> QED
      BY <1>1, <1>2, <2>1, <2>2, Zenon
  <1>4. /\ (y * w + x) % w = x /\ (y * w + x) \div w = y
        /\ (y * a + c) % a = c /\ (y * a + c) \div a = y
        /\ (r * a + c) % a = c /\ (r * a + c) \div a = r
    <2> HIDE DEF a, c, r
    <2>1. (y * w + x) % w = x /\ (y * w + x) \div w = y
      BY <1>1, PlaceInTable
    <2>2. (y * a + c) % a = c /\ (y * a + c) \div a = y
      BY <1>1, PlaceInTable
    <2>3. (r * a + c) % a = c /\ (r * a + c) \div a = r
      BY <1>1, PlaceInTable
    <2> QED
      BY <2>1, <2>2, <2>3
  <1>5. LumaOf(w, h)[y * w + x + 1] = <<"y", x, y>>
    BY <1>3, <1>4, Zenon DEF LumaOf
  <1>6. ChromaOf(p, w, h, 1)[y * a + c + 1] = <<p, c, 1 * y>>
    BY <1>3, <1>4, Zenon DEF ChromaOf, a
  <1>7. ChromaOf(p, w, h, 2)[r * a + c + 1] = <<p, c, 2 * r>>
    BY <1>3, <1>4, Zenon DEF ChromaOf, a
  <1> QED
    BY <1>1, <1>5, <1>6, <1>7

\* Where the samples are of two planes by turns.
LEMMA TurnsSamples ==
  ASSUME NEW s, NEW t, Len(s) \in Nat, NEW k \in 0..Len(s) - 1
  PROVE  ByTurns(s, t)[2 * k + 1] = s[k + 1] /\ ByTurns(s, t)[2 * k + 2] = t[k + 1]
  <1>1. /\ 2 * k + 1 \in 1..2 * Len(s) /\ (2 * k + 1) % 2 = 1
        /\ ((2 * k + 1) + 1) \div 2 = k + 1
        /\ 2 * k + 2 \in 1..2 * Len(s) /\ ~((2 * k + 2) % 2 = 1)
        /\ (2 * k + 2) \div 2 = k + 1
    OBVIOUS
  <1> QED
    BY <1>1, Zenon DEF ByTurns

\* The same in an image, where offsets start at 0.
LEMMA TurnsFromZero ==
  ASSUME NEW s \in Seq(Sample), NEW t \in Seq(Sample)
  PROVE  \A k \in 0..Len(s) - 1 :
           /\ FromZero(ByTurns(s, t))[2 * k] = s[k + 1]
           /\ FromZero(ByTurns(s, t))[2 * k + 1] = t[k + 1]
  <1> SUFFICES ASSUME NEW k \in 0..Len(s) - 1
               PROVE  /\ FromZero(ByTurns(s, t))[2 * k] = s[k + 1]
                      /\ FromZero(ByTurns(s, t))[2 * k + 1] = t[k + 1]
    BY Zenon
  <1> DEFINE r == ByTurns(s, t)
  <1>1. Len(s) \in Nat /\ Len(r) = 2 * Len(s)
    BY DEF ByTurns
  <1>2. r[2 * k + 1] = s[k + 1] /\ r[2 * k + 2] = t[k + 1]
    BY <1>1, TurnsSamples
  <1> HIDE DEF r
  <1>3. /\ 2 * k \in 0..Len(r) - 1 /\ 2 * k + 1 \in 0..Len(r) - 1
        /\ (2 * k + 1) + 1 = 2 * k + 2
    BY <1>1
  <1>4. /\ FromZero(r)[2 * k] = s[k + 1]
        /\ FromZero(r)[2 * k + 1] = t[k + 1]
    BY <1>2, <1>3, Zenon DEF FromZero
  <1> QED
    BY <1>4 DEF r

\* And for one plane behind another.
LEMMA JoinedFromZero ==
  ASSUME NEW s \in Seq(Sample), NEW t \in Seq(Sample)
  PROVE  /\ \A i \in 0..Len(s) - 1 : FromZero(s \o t)[i] = s[i + 1]
         /\ \A k \in 0..Len(t) - 1 : FromZero(s \o t)[Len(s) + k] = t[k + 1]
  <1> DEFINE r == s \o t
  <1>1. /\ Len(r) = Len(s) + Len(t) /\ Len(s) \in Nat /\ Len(t) \in Nat
        /\ \A i \in 0..Len(s) - 1 : r[i + 1] = s[i + 1]
        /\ \A k \in 0..Len(t) - 1 : r[Len(s) + k + 1] = t[k + 1]
    OBVIOUS
  <1> HIDE DEF r
  <1>2. /\ \A i \in 0..Len(s) - 1 : i \in 0..Len(r) - 1
        /\ \A k \in 0..Len(t) - 1 : Len(s) + k \in 0..Len(r) - 1
    BY <1>1
  <1>3. /\ \A i \in 0..Len(s) - 1 : FromZero(r)[i] = s[i + 1]
        /\ \A k \in 0..Len(t) - 1 : FromZero(r)[Len(s) + k] = t[k + 1]
    BY <1>1, <1>2, Zenon DEF FromZero
  <1> QED
    BY <1>3 DEF r

\* Three planes one after the other.
LEMMA PlanarSamples ==
  ASSUME NEW l \in Seq(Sample), NEW a \in Seq(Sample), NEW b \in Seq(Sample),
         Len(b) = Len(a)
  PROVE  /\ \A i \in 0..Len(l) - 1 : FromZero(l \o a \o b)[i] = l[i + 1]
         /\ \A k \in 0..Len(a) - 1 :
              /\ FromZero(l \o a \o b)[Len(l) + k] = a[k + 1]
              /\ FromZero(l \o a \o b)[Len(l) + Len(a) + k] = b[k + 1]
  <1>1. PICK t \in Seq(Sample) : t = l \o a
    <2>1. l \o a \in Seq(Sample)
      OBVIOUS
    <2> QED
      BY <2>1, Zenon
  <1>2. /\ Len(l) \in Nat /\ Len(a) \in Nat /\ Len(t) = Len(l) + Len(a)
        /\ \A i \in 0..Len(l) - 1 : t[i + 1] = l[i + 1]
        /\ \A k \in 0..Len(a) - 1 : t[(Len(l) + k) + 1] = a[k + 1]
    BY <1>1
  <1>3. /\ \A i \in 0..Len(t) - 1 : FromZero(t \o b)[i] = t[i + 1]
        /\ \A k \in 0..Len(b) - 1 : FromZero(t \o b)[Len(t) + k] = b[k + 1]
    BY JoinedFromZero
  <1>4. /\ \A i \in 0..Len(l) - 1 : i \in 0..Len(t) - 1
        /\ \A k \in 0..Len(a) - 1 : Len(l) + k \in 0..Len(t) - 1
    BY <1>2
  <1> QED
    BY <1>1, <1>2, <1>3, <1>4, Zenon

\* A plane, then two by turns.
LEMMA SemiPlanarSamples ==
  ASSUME NEW l \in Seq(Sample), NEW a \in Seq(Sample), NEW b \in Seq(Sample),
         Len(b) = Len(a)
  PROVE  /\ \A i \in 0..Len(l) - 1 : FromZero(l \o ByTurns(a, b))[i] = l[i + 1]
         /\ \A k \in 0..Len(a) - 1 :
              /\ FromZero(l \o ByTurns(a, b))[Len(l) + 2 * k] = a[k + 1]
              /\ FromZero(l \o ByTurns(a, b))[Len(l) + (2 * k + 1)] = b[k + 1]
  <1>1. PICK t \in Seq(Sample) : t = ByTurns(a, b) /\ Len(t) = 2 * Len(a)
    BY TurnsLength
  <1>2. /\ \A n \in 0..Len(l) - 1 : FromZero(l \o t)[n] = l[n + 1]
        /\ \A n \in 0..Len(t) - 1 : FromZero(l \o t)[Len(l) + n] = t[n + 1]
    BY JoinedFromZero
  <1>3. ASSUME NEW k \in 0..Len(a) - 1
        PROVE  /\ t[2 * k + 1] = a[k + 1] /\ t[(2 * k + 1) + 1] = b[k + 1]
               /\ 2 * k \in 0..Len(t) - 1 /\ 2 * k + 1 \in 0..Len(t) - 1
    <2>1. (2 * k + 1) + 1 = 2 * k + 2 /\ Len(a) \in Nat
      OBVIOUS
    <2>2. t[2 * k + 1] = a[k + 1] /\ t[2 * k + 2] = b[k + 1]
      BY <1>1, <2>1, TurnsSamples
    <2> QED
      BY <1>1, <2>1, <2>2
  <1> QED
    BY <1>1, <1>2, <1>3, Zenon

\* All three by turns: luma first, or chroma first.
LEMMA PackedSamples ==
  ASSUME NEW l \in Seq(Sample), NEW a \in Seq(Sample), NEW b \in Seq(Sample),
         Len(b) = Len(a), Len(l) = 2 * Len(a)
  PROVE  /\ \A i \in 0..Len(l) - 1 :
              /\ FromZero(ByTurns(l, ByTurns(a, b)))[2 * i] = l[i + 1]
              /\ FromZero(ByTurns(ByTurns(a, b), l))[2 * i + 1] = l[i + 1]
         /\ \A k \in 0..Len(a) - 1 :
              /\ FromZero(ByTurns(l, ByTurns(a, b)))[4 * k + 1] = a[k + 1]
              /\ FromZero(ByTurns(l, ByTurns(a, b)))[4 * k + 3] = b[k + 1]
              /\ FromZero(ByTurns(ByTurns(a, b), l))[4 * k] = a[k + 1]
              /\ FromZero(ByTurns(ByTurns(a, b), l))[4 * k + 2] = b[k + 1]
  <1>1. PICK t \in Seq(Sample) : t = ByTurns(a, b) /\ Len(t) = 2 * Len(a)
    BY TurnsLength
  <1>2. Len(t) = Len(l)
    BY <1>1
  <1>3. \A j \in 0..Len(l) - 1 :
          /\ FromZero(ByTurns(l, t))[2 * j] = l[j + 1]
          /\ FromZero(ByTurns(l, t))[2 * j + 1] = t[j + 1]
    BY TurnsFromZero
  <1>4. \A j \in 0..Len(t) - 1 :
          /\ FromZero(ByTurns(t, l))[2 * j] = t[j + 1]
          /\ FromZero(ByTurns(t, l))[2 * j + 1] = l[j + 1]
    BY TurnsFromZero
  <1>5. ASSUME NEW k \in 0..Len(a) - 1
        PROVE  /\ FromZero(ByTurns(l, t))[4 * k + 1] = a[k + 1]
               /\ FromZero(ByTurns(l, t))[4 * k + 3] = b[k + 1]
               /\ FromZero(ByTurns(t, l))[4 * k] = a[k + 1]
               /\ FromZero(ByTurns(t, l))[4 * k + 2] = b[k + 1]
    <2>1. /\ 2 * k \in 0..Len(t) - 1 /\ 2 * k + 1 \in 0..Len(t) - 1
          /\ (2 * k + 1) + 1 = 2 * k + 2
          /\ 2 * (2 * k) = 4 * k /\ 2 * (2 * k) + 1 = 4 * k + 1
          /\ 2 * (2 * k + 1) + 1 = 4 * k + 3 /\ 2 * (2 * k + 1) = 4 * k + 2
          /\ Len(a) \in Nat
      BY <1>1
    <2>2. t[2 * k + 1] = a[k + 1] /\ t[2 * k + 2] = b[k + 1]
      BY <1>1, <2>1, TurnsSamples
    <2>3. /\ FromZero(ByTurns(l, t))[2 * (2 * k) + 1] = t[2 * k + 1]
          /\ FromZero(ByTurns(l, t))[2 * (2 * k + 1) + 1] = t[(2 * k + 1) + 1]
          /\ FromZero(ByTurns(t, l))[2 * (2 * k)] = t[2 * k + 1]
          /\ FromZero(ByTurns(t, l))[2 * (2 * k + 1)] = t[(2 * k + 1) + 1]
      BY <1>2, <1>3, <1>4, <2>1, Zenon
    <2> QED
      BY <2>1, <2>2, <2>3, Zenon
  <1>6. /\ \A i \in 0..Len(l) - 1 : FromZero(ByTurns(l, t))[2 * i] = l[i + 1]
        /\ \A i \in 0..Len(l) - 1 : FromZero(ByTurns(t, l))[2 * i + 1] = l[i + 1]
    BY <1>2, <1>3, <1>4, Zenon
  <1> QED
    BY <1>1, <1>5, <1>6, Zenon

\* s is the sample of a chroma plane that stands for pixel (x, y).
Stands(s, plane, whole, x, y) ==
  /\ s[1] = plane /\ s[2] = x \div 2
  /\ IF whole THEN s[3] = y ELSE s[3] \div 2 = y \div 2

\* The three samples a pixel's colour is computed from are its own.
Own(img, whole, o, x, y) ==
  /\ img[o[1]] = <<"y", x, y>>
  /\ Stands(img[o[2]], "u", whole, x, y)
  /\ Stands(img[o[3]], "v", whole, x, y)

\* The same for three offsets.
LEMMA OwnThree ==
  ASSUME NEW img, NEW whole, NEW i, NEW j, NEW k, NEW x, NEW y
  PROVE  Own(img, whole, <<i, j, k>>, x, y)
           <=> /\ img[i] = <<"y", x, y>>
               /\ Stands(img[j], "u", whole, x, y)
               /\ Stands(img[k], "v", whole, x, y)
  BY DEF Own

\* The function for the layout finds the samples of every pixel.
ImageInv ==
  \A x \in 0..width - 1 : \A y \in 0..height - 1 : Own(image, full, Offsets(x, y), x, y)

\* The counts of samples, as multiples of those of a plane of 4:2:0.
LEMMA Counts ==
  ASSUME IsEven(width), IsEven(height),
         NEW x \in 0..width - 1, NEW y \in 0..height - 1
  PROVE  LET q == (width \div 2) * (height \div 2)
         IN  /\ q \in Nat /\ Count = 4 * q
             /\ Y(x, y) \in 0..4 * q - 1
             /\ Half(x, y) \in 0..2 * q - 1
             /\ Half(x, y) = y * (width \div 2) + x \div 2
             /\ Block(x, y) \in 0..q - 1
  <1> DEFINE a == width \div 2  b == height \div 2  q == a * b
  <1>1. /\ a \in Nat \ {0} /\ b \in Nat \ {0} /\ width = 2 * a /\ height = 2 * b
        /\ x \div 2 \in 0..a - 1 /\ y \div 2 \in 0..b - 1
        /\ x \in Nat /\ y \in Nat /\ width \in Nat /\ height \in Nat
    BY DEF IsEven
  <1>2. q \in Nat /\ Count = 4 * q
    BY PlaneSizes, Zenon DEF Count
  <1>3. Y(x, y) \in 0..4 * q - 1
    <2>1. y * width + x \in 0..height * width - 1
      BY <1>1, InTable
    <2>2. height * width = Count
      BY <1>1 DEF Count
    <2> QED
      BY <1>2, <2>1, <2>2, Zenon DEF Y
  <1>4. Block(x, y) \in 0..q - 1
    <2>1. (y \div 2) * a + x \div 2 \in 0..b * a - 1
      BY <1>1, InTable
    <2>2. b * a = q
      BY <1>1
    <2> QED
      BY <2>1, <2>2, Zenon DEF Block
  <1>5. Half(x, y) = y * a + x \div 2
    <2>1. y * width = 2 * (y * a) /\ y * a \in Nat
      BY <1>1
    <2>2. ASSUME NEW m \in Nat PROVE (2 * m + x) \div 2 = m + x \div 2
      BY <1>1
    <2> QED
      BY <2>1, <2>2, Zenon DEF Half, Y
  <1> HIDE DEF q
  <1>6. Half(x, y) \in 0..2 * q - 1
    BY <1>2, <1>3 DEF Half
  <1> QED
    BY <1>2, <1>3, <1>4, <1>5, <1>6 DEF q

\* So it is for an image of the camera.
LEMMA CameraOwns == Init => ImageInv
  <1> SUFFICES ASSUME Init, NEW x \in 0..width - 1, NEW y \in 0..height - 1
               PROVE  Own(image, full, Offsets(x, y), x, y)
    BY Zenon DEF ImageInv
  <1> DEFINE w  == width  h == height
             l  == LumaOf(w, h)
             u  == ChromaOf("u", w, h, 1)  v  == ChromaOf("v", w, h, 1)
             u2 == ChromaOf("u", w, h, 2)  v2 == ChromaOf("v", w, h, 2)
             q  == (w \div 2) * (h \div 2)
             i  == Y(x, y)  k == Half(x, y)  b == Block(x, y)
  <1>1. IsEven(w) /\ IsEven(h) /\ x \in Int /\ y \in Int
    BY ConstantsAssumption DEF ConstantsAssumption, Init, IsEven
  <1>2. /\ l \in Seq(Sample) /\ Len(l) = 4 * q
        /\ u \in Seq(Sample) /\ v \in Seq(Sample) /\ Len(u) = 2 * q /\ Len(v) = 2 * q
        /\ u2 \in Seq(Sample) /\ v2 \in Seq(Sample) /\ Len(u2) = q /\ Len(v2) = q
    <2>1. /\ (w \div 2) * h \in Nat /\ w * h = 2 * ((w \div 2) * h)
          /\ w * h = 4 * q /\ q \in Nat
      BY <1>1, PlaneSizes, Zenon
    <2>2. (w \div 2) * h = 2 * q
      <3> HIDE DEF q
      <3> QED
        BY <2>1
    <2>3. /\ l \in Seq(Sample) /\ Len(l) = w * h
          /\ u \in Seq(Sample) /\ Len(u) = (w \div 2) * h
          /\ u2 \in Seq(Sample) /\ Len(u2) = q
      BY <1>1, Lengths, Zenon
    <2>4. /\ v \in Seq(Sample) /\ Len(v) = (w \div 2) * h
          /\ v2 \in Seq(Sample) /\ Len(v2) = q
      BY <1>1, Lengths, Zenon
    <2> QED
      BY <2>1, <2>2, <2>3, <2>4, Zenon
  <1>3. /\ q \in Nat /\ Count = 4 * q /\ i \in 0..4 * q - 1
        /\ k \in 0..2 * q - 1 /\ b \in 0..q - 1
        /\ k = y * (w \div 2) + x \div 2
    BY <1>1, Counts, Zenon
  <1>4. /\ l[i + 1] = <<"y", x, y>>
        /\ u[k + 1] = <<"u", x \div 2, y>> /\ v[k + 1] = <<"v", x \div 2, y>>
        /\ u2[b + 1] = <<"u", x \div 2, 2 * (y \div 2)>>
        /\ v2[b + 1] = <<"v", x \div 2, 2 * (y \div 2)>>
    <2>1. ASSUME NEW p \in {"u", "v"}
          PROVE  /\ l[i + 1] = <<"y", x, y>>
                 /\ ChromaOf(p, w, h, 1)[k + 1] = <<p, x \div 2, y>>
                 /\ ChromaOf(p, w, h, 2)[b + 1] = <<p, x \div 2, 2 * (y \div 2)>>
      <3>1. /\ LumaOf(w, h)[y * w + x + 1] = <<"y", x, y>>
            /\ ChromaOf(p, w, h, 1)[y * (w \div 2) + x \div 2 + 1] = <<p, x \div 2, y>>
            /\ ChromaOf(p, w, h, 2)[(y \div 2) * (w \div 2) + x \div 2 + 1]
                 = <<p, x \div 2, 2 * (y \div 2)>>
        BY <1>1, PlaneSamples
      <3>2. /\ i = y * w + x /\ k = y * (w \div 2) + x \div 2
            /\ b = (y \div 2) * (w \div 2) + x \div 2
        BY <1>3, Zenon DEF Y, Block
      <3> HIDE DEF i, k, b
      <3> QED
        BY <3>1, <3>2, Zenon
    <2> QED
      BY <2>1, Zenon
  <1> HIDE DEF l, u, v, u2, v2, q, i, k, b
  <1>5. ASSUME NEW o, full,
               image[o[1]] = l[i + 1], image[o[2]] = u[k + 1], image[o[3]] = v[k + 1]
        PROVE  Own(image, full, o, x, y)
    BY <1>4, <1>5 DEF Own, Stands
  <1>6. ASSUME NEW o, ~full,
               image[o[1]] = l[i + 1], image[o[2]] = u2[b + 1], image[o[3]] = v2[b + 1]
        PROVE  Own(image, full, o, x, y)
    <2>1. (2 * (y \div 2)) \div 2 = y \div 2
      BY <1>1
    <2> QED
      BY <1>4, <1>6, <2>1 DEF Own, Stands
  <1>7. full <=> format \in FullFormats
    BY DEF Init
  <1>8. image = Camera(format, w, h)
    BY DEF Init
  <1>9. i \in 0..Len(l) - 1 /\ k \in 0..Len(u) - 1 /\ b \in 0..Len(u2) - 1
    BY <1>2, <1>3
  <1>10. /\ (Count * 3) \div 2 = 4 * q + 2 * q /\ (Count * 5) \div 4 = 4 * q + q
         /\ 4 * q + 2 * k + 1 = 4 * q + (2 * k + 1)
         /\ 4 * q + 2 * b + 1 = 4 * q + (2 * b + 1)
    BY <1>3
  <1>11. ASSUME NEW a \in Seq(Sample), NEW c \in Seq(Sample), NEW n \in 0..Len(a) - 1,
                Len(c) = Len(a), image = FromZero(l \o a \o c)
         PROVE  /\ image[i] = l[i + 1]
                /\ image[Len(l) + n] = a[n + 1]
                /\ image[Len(l) + Len(a) + n] = c[n + 1]
    <2>1. /\ \A d \in 0..Len(l) - 1 : FromZero(l \o a \o c)[d] = l[d + 1]
          /\ \A d \in 0..Len(a) - 1 :
               /\ FromZero(l \o a \o c)[Len(l) + d] = a[d + 1]
               /\ FromZero(l \o a \o c)[Len(l) + Len(a) + d] = c[d + 1]
      <3>1. l \in Seq(Sample) /\ Len(c) = Len(a)
        BY <1>2, <1>11, Zenon
      <3> QED
        BY <3>1, PlanarSamples
    <2> QED
      BY <1>9, <1>11, <2>1, Zenon
  <1>12. ASSUME NEW a \in Seq(Sample), NEW c \in Seq(Sample), NEW n \in 0..Len(a) - 1,
                Len(c) = Len(a), image = FromZero(l \o ByTurns(a, c))
         PROVE  /\ image[i] = l[i + 1]
                /\ image[Len(l) + 2 * n] = a[n + 1]
                /\ image[Len(l) + (2 * n + 1)] = c[n + 1]
    <2>1. /\ \A d \in 0..Len(l) - 1 : FromZero(l \o ByTurns(a, c))[d] = l[d + 1]
          /\ \A d \in 0..Len(a) - 1 :
               /\ FromZero(l \o ByTurns(a, c))[Len(l) + 2 * d] = a[d + 1]
               /\ FromZero(l \o ByTurns(a, c))[Len(l) + (2 * d + 1)] = c[d + 1]
      <3>1. l \in Seq(Sample) /\ Len(c) = Len(a)
        BY <1>2, <1>12, Zenon
      <3> QED
        BY <3>1, SemiPlanarSamples
    <2> QED
      BY <1>9, <1>12, <2>1, Zenon
  <1>13. ASSUME NEW a \in Seq(Sample), NEW c \in Seq(Sample), NEW n \in 0..Len(a) - 1,
                Len(c) = Len(a), Len(l) = 2 * Len(a)
         PROVE  /\ image = FromZero(ByTurns(l, ByTurns(a, c))) =>
                     /\ image[2 * i] = l[i + 1]
                     /\ image[4 * n + 1] = a[n + 1] /\ image[4 * n + 3] = c[n + 1]
                /\ image = FromZero(ByTurns(ByTurns(a, c), l)) =>
                     /\ image[2 * i + 1] = l[i + 1]
                     /\ image[4 * n] = a[n + 1] /\ image[4 * n + 2] = c[n + 1]
    <2>1. /\ \A d \in 0..Len(l) - 1 :
               /\ FromZero(ByTurns(l, ByTurns(a, c)))[2 * d] = l[d + 1]
               /\ FromZero(ByTurns(ByTurns(a, c), l))[2 * d + 1] = l[d + 1]
          /\ \A d \in 0..Len(a) - 1 :
               /\ FromZero(ByTurns(l, ByTurns(a, c)))[4 * d + 1] = a[d + 1]
               /\ FromZero(ByTurns(l, ByTurns(a, c)))[4 * d + 3] = c[d + 1]
               /\ FromZero(ByTurns(ByTurns(a, c), l))[4 * d] = a[d + 1]
               /\ FromZero(ByTurns(ByTurns(a, c), l))[4 * d + 2] = c[d + 1]
      <3>1. l \in Seq(Sample) /\ Len(c) = Len(a)
        BY <1>2, <1>13, Zenon
      <3> QED
        BY <3>1, <1>13, PackedSamples
    <2>2. /\ FromZero(ByTurns(l, ByTurns(a, c)))[2 * i] = l[i + 1]
          /\ FromZero(ByTurns(ByTurns(a, c), l))[2 * i + 1] = l[i + 1]
      BY <1>9, <2>1, Zenon
    <2>3. /\ FromZero(ByTurns(l, ByTurns(a, c)))[4 * n + 1] = a[n + 1]
          /\ FromZero(ByTurns(l, ByTurns(a, c)))[4 * n + 3] = c[n + 1]
          /\ FromZero(ByTurns(ByTurns(a, c), l))[4 * n] = a[n + 1]
          /\ FromZero(ByTurns(ByTurns(a, c), l))[4 * n + 2] = c[n + 1]
      BY <2>1, Zenon
    <2> QED
      BY <2>2, <2>3, Zenon
  <1>14. /\ k \in 0..Len(u) - 1 /\ k \in 0..Len(v) - 1
         /\ b \in 0..Len(u2) - 1 /\ b \in 0..Len(v2) - 1
         /\ Len(u) = Len(v) /\ Len(v) = Len(u) /\ Len(u2) = Len(v2) /\ Len(v2) = Len(u2)
         /\ Len(l) = 2 * Len(u) /\ Len(l) = 2 * Len(v)
    BY <1>2, <1>3
  <1>15. CASE format = "YUV422P"
    <2>1. image = FromZero(l \o u \o v)
      BY <1>8, <1>15 DEF Camera, l, u, v
    <2>2. Offsets(x, y) = <<i, Len(l) + k, Len(l) + Len(u) + k>>
      BY <1>2, <1>3, <1>10, <1>15 DEF Offsets, YUV422PToRGB24, i, k
    <2>3. /\ image[i] = l[i + 1] /\ image[Len(l) + k] = u[k + 1]
          /\ image[Len(l) + Len(u) + k] = v[k + 1]
      BY <1>2, <1>11, <1>14, <2>1, Zenon
    <2> QED
      BY <1>5, <1>7, <1>15, <2>2, <2>3 DEF FullFormats
  <1>16. CASE format = "NV16"
    <2>1. image = FromZero(l \o ByTurns(u, v))
      BY <1>8, <1>16 DEF Camera, l, u, v
    <2>2. Offsets(x, y) = <<i, Len(l) + 2 * k, Len(l) + (2 * k + 1)>>
      BY <1>2, <1>3, <1>10, <1>16 DEF Offsets, NV16ToRGB24, i, k
    <2>3. /\ image[i] = l[i + 1] /\ image[Len(l) + 2 * k] = u[k + 1]
          /\ image[Len(l) + (2 * k + 1)] = v[k + 1]
      BY <1>2, <1>12, <1>14, <2>1, Zenon
    <2> QED
      BY <1>5, <1>7, <1>16, <2>2, <2>3 DEF FullFormats
  <1>17. CASE format = "NV61"
    <2>1. image = FromZero(l \o ByTurns(v, u))
      BY <1>8, <1>17 DEF Camera, l, u, v
    <2>2. Offsets(x, y) = <<i, Len(l) + (2 * k + 1), Len(l) + 2 * k>>
      BY <1>2, <1>3, <1>10, <1>17 DEF Offsets, NV61ToRGB24, i, k
    <2>3. /\ image[i] = l[i + 1] /\ image[Len(l) + 2 * k] = v[k + 1]
          /\ image[Len(l) + (2 * k + 1)] = u[k + 1]
      BY <1>2, <1>12, <1>14, <2>1, Zenon
    <2> QED
      BY <1>5, <1>7, <1>17, <2>2, <2>3 DEF FullFormats
  <1>18. CASE format = "YUYV"
    <2>1. image = FromZero(ByTurns(l, ByTurns(u, v)))
      BY <1>8, <1>18 DEF Camera, l, u, v
    <2>2. Offsets(x, y) = <<2 * i, 4 * k + 1, 4 * k + 3>>
      BY <1>18 DEF Offsets, YUYVToRGB24, i, k
    <2>3. /\ image[2 * i] = l[i + 1]
          /\ image[4 * k + 1] = u[k + 1] /\ image[4 * k + 3] = v[k + 1]
      BY <1>2, <1>13, <1>14, <2>1, Zenon
    <2> QED
      BY <1>5, <1>7, <1>18, <2>2, <2>3 DEF FullFormats
  <1>19. CASE format = "YVYU"
    <2>1. image = FromZero(ByTurns(l, ByTurns(v, u)))
      BY <1>8, <1>19 DEF Camera, l, u, v
    <2>2. Offsets(x, y) = <<2 * i, 4 * k + 3, 4 * k + 1>>
      BY <1>19 DEF Offsets, YVYUToRGB24, i, k
    <2>3. /\ image[2 * i] = l[i + 1]
          /\ image[4 * k + 1] = v[k + 1] /\ image[4 * k + 3] = u[k + 1]
      BY <1>2, <1>13, <1>14, <2>1, Zenon
    <2> QED
      BY <1>5, <1>7, <1>19, <2>2, <2>3 DEF FullFormats
  <1>20. CASE format = "UYVY"
    <2>1. image = FromZero(ByTurns(ByTurns(u, v), l))
      BY <1>8, <1>20 DEF Camera, l, u, v
    <2>2. Offsets(x, y) = <<2 * i + 1, 4 * k, 4 * k + 2>>
      BY <1>20 DEF Offsets, UYVYToRGB24, i, k
    <2>3. /\ image[2 * i + 1] = l[i + 1]
          /\ image[4 * k] = u[k + 1] /\ image[4 * k + 2] = v[k + 1]
      BY <1>2, <1>13, <1>14, <2>1, Zenon
    <2> QED
      BY <1>5, <1>7, <1>20, <2>2, <2>3 DEF FullFormats
  <1>21. CASE format = "VYUY"
    <2>1. image = FromZero(ByTurns(ByTurns(v, u), l))
      BY <1>8, <1>21 DEF Camera, l, u, v
    <2>2. Offsets(x, y) = <<2 * i + 1, 4 * k + 2, 4 * k>>
      BY <1>21 DEF Offsets, VYUYToRGB24, i, k
    <2>3. /\ image[2 * i + 1] = l[i + 1]
          /\ image[4 * k] = v[k + 1] /\ image[4 * k + 2] = u[k + 1]
      BY <1>2, <1>13, <1>14, <2>1, Zenon
    <2> QED
      BY <1>5, <1>7, <1>21, <2>2, <2>3 DEF FullFormats
  <1>22. CASE format = "YUV420"
    <2>1. image = FromZero(l \o u2 \o v2)
      BY <1>8, <1>22 DEF Camera, l, u2, v2
    <2>2. Offsets(x, y) = <<i, Len(l) + b, Len(l) + Len(u2) + b>>
      BY <1>2, <1>3, <1>10, <1>22 DEF Offsets, YUV420ToRGB24, i, b
    <2>3. /\ image[i] = l[i + 1] /\ image[Len(l) + b] = u2[b + 1]
          /\ image[Len(l) + Len(u2) + b] = v2[b + 1]
      BY <1>2, <1>11, <1>14, <2>1, Zenon
    <2> QED
      BY <1>6, <1>7, <1>22, <2>2, <2>3 DEF FullFormats
  <1>23. CASE format \in {"YVU420", "YV12"}
    <2>1. image = FromZero(l \o v2 \o u2)
      <3>1. Camera("YVU420", w, h) = FromZero(l \o v2 \o u2)
        BY DEF Camera, l, u2, v2
      <3>2. Camera("YV12", w, h) = FromZero(l \o v2 \o u2)
        BY DEF Camera, l, u2, v2
      <3> QED
        BY <1>8, <1>23, <3>1, <3>2
    <2>2. Offsets(x, y) = <<i, Len(l) + Len(v2) + b, Len(l) + b>>
      <3>1. /\ (Count * 5) \div 4 + b = Len(l) + Len(v2) + b
            /\ Count + b = Len(l) + b
        BY <1>2, <1>3, <1>10
      <3>2. CASE format = "YVU420"
        BY <3>1, <3>2 DEF Offsets, YVU420ToRGB24, i, b
      <3>3. CASE format = "YV12"
        BY <3>1, <3>3 DEF Offsets, YV12ToRGB24, i, b
      <3> QED
        BY <1>23, <3>2, <3>3
    <2>3. /\ image[i] = l[i + 1] /\ image[Len(l) + b] = v2[b + 1]
          /\ image[Len(l) + Len(v2) + b] = u2[b + 1]
      BY <1>2, <1>11, <1>14, <2>1, Zenon
    <2> QED
      BY <1>6, <1>7, <1>23, <2>2, <2>3 DEF FullFormats
  <1>24. CASE format = "NV12"
    <2>1. image = FromZero(l \o ByTurns(u2, v2))
      BY <1>8, <1>24 DEF Camera, l, u2, v2
    <2>2. Offsets(x, y) = <<i, Len(l) + 2 * b, Len(l) + (2 * b + 1)>>
      BY <1>2, <1>3, <1>10, <1>24 DEF Offsets, NV12ToRGB24, i, b
    <2>3. /\ image[i] = l[i + 1] /\ image[Len(l) + 2 * b] = u2[b + 1]
          /\ image[Len(l) + (2 * b + 1)] = v2[b + 1]
      BY <1>2, <1>12, <1>14, <2>1, Zenon
    <2> QED
      BY <1>6, <1>7, <1>24, <2>2, <2>3 DEF FullFormats
  <1>25. CASE format = "NV21"
    <2>1. image = FromZero(l \o ByTurns(v2, u2))
      BY <1>8, <1>25 DEF Camera, l, u2, v2
    <2>2. Offsets(x, y) = <<i, Len(l) + (2 * b + 1), Len(l) + 2 * b>>
      BY <1>2, <1>3, <1>10, <1>25 DEF Offsets, NV21ToRGB24, i, b
    <2>3. /\ image[i] = l[i + 1] /\ image[Len(l) + 2 * b] = v2[b + 1]
          /\ image[Len(l) + (2 * b + 1)] = u2[b + 1]
      BY <1>2, <1>12, <1>14, <2>1, Zenon
    <2> QED
      BY <1>6, <1>7, <1>25, <2>2, <2>3 DEF FullFormats
  <1> QED
    BY <1>15, <1>16, <1>17, <1>18, <1>19, <1>20, <1>21, <1>22, <1>23, <1>24, <1>25
       DEF Init, Formats, FullFormats, HalfFormats

\* Repacking NV21 moves every sample to where the new layout has it.
LEMMA NV21Repacked ==
  ASSUME SizeInv, ImageInv, ToYV12 \/ ToYU12,
         NEW x \in 0..width - 1, NEW y \in 0..height - 1
  PROVE  Own(image, full, Offsets(x, y), x, y)'
  <1> DEFINE q == (width \div 2) * (height \div 2)
             i == Y(x, y)  b == Block(x, y)
  <1>1. /\ q \in Nat /\ Count = 4 * q /\ i \in 0..4 * q - 1 /\ b \in 0..q - 1
    BY EvenSizes, Counts, Zenon
  <1>2. /\ width' = width /\ height' = height /\ Count' = Count
        /\ Y(x, y)' = i /\ Block(x, y)' = b
        /\ full' = FALSE /\ format = "NV21"
    BY DEF ToYV12, ToYU12, Repack, Count, Y, Block
  <1>3. full = FALSE
    BY <1>2 DEF SizeInv, FullFormats
  <1> HIDE DEF q, i, b
  <1>4. /\ image[i] = <<"y", x, y>>
        /\ Stands(image[4 * q + 2 * b + 1], "u", FALSE, x, y)
        /\ Stands(image[4 * q + 2 * b], "v", FALSE, x, y)
    <2>1. Own(image, full, Offsets(x, y), x, y)
      BY Zenon DEF ImageInv
    <2>2. Offsets(x, y) = <<i, 4 * q + 2 * b + 1, 4 * q + 2 * b>>
      BY <1>1, <1>2 DEF Offsets, NV21ToRGB24, i, b
    <2> QED
      <3>1. Own(image, FALSE, <<i, 4 * q + 2 * b + 1, 4 * q + 2 * b>>, x, y)
        BY <1>3, <2>1, <2>2
      <3> QED
        BY <3>1, OwnThree
  <1>5. /\ (Count * 3) \div 2 = 6 * q /\ (Count * 5) \div 4 = 5 * q
        /\ i \in 0..6 * q - 1 /\ i < Count
        /\ 4 * q + b \in 0..6 * q - 1 /\ ~(4 * q + b < Count) /\ 4 * q + b < 5 * q
        /\ Count + 2 * ((4 * q + b) - Count) = 4 * q + 2 * b
        /\ 5 * q + b \in 0..6 * q - 1 /\ ~(5 * q + b < Count) /\ ~(5 * q + b < 5 * q)
        /\ Count + 2 * ((5 * q + b) - 5 * q) = 4 * q + 2 * b
    BY <1>1
  <1>6. CASE ToYV12
    <2>1. image' = NV21ToYV12(image) /\ format' = "YV12"
      BY <1>6 DEF ToYV12, Repack
    <2>2. /\ image'[i] = image[i]
          /\ image'[4 * q + b] = image[4 * q + 2 * b]
          /\ image'[5 * q + b] = image[4 * q + 2 * b + 1]
      BY <1>5, <2>1 DEF NV21ToYV12
    <2>3. Offsets(x, y)' = <<i, 5 * q + b, 4 * q + b>>
      BY <1>1, <1>2, <1>5, <2>1 DEF Offsets, YV12ToRGB24
    <2> QED
      <3>1. /\ image'[i] = <<"y", x, y>>
            /\ Stands(image'[5 * q + b], "u", FALSE, x, y)
            /\ Stands(image'[4 * q + b], "v", FALSE, x, y)
        BY <1>4, <2>2, Zenon
      <3>2. Own(image', FALSE, <<i, 5 * q + b, 4 * q + b>>, x, y)
        BY <3>1, OwnThree, Zenon
      <3> QED
        BY <1>2, <2>3, <3>2, Zenon
  <1>7. CASE ToYU12
    <2>1. image' = NV21ToYU12(image) /\ format' = "YUV420"
      BY <1>7 DEF ToYU12, Repack
    <2>2. /\ image'[i] = image[i]
          /\ image'[4 * q + b] = image[4 * q + 2 * b + 1]
          /\ image'[5 * q + b] = image[4 * q + 2 * b]
      BY <1>5, <2>1 DEF NV21ToYU12
    <2>3. Offsets(x, y)' = <<i, 4 * q + b, 5 * q + b>>
      BY <1>1, <1>2, <1>5, <2>1 DEF Offsets, YUV420ToRGB24
    <2> QED
      <3>1. /\ image'[i] = <<"y", x, y>>
            /\ Stands(image'[4 * q + b], "u", FALSE, x, y)
            /\ Stands(image'[5 * q + b], "v", FALSE, x, y)
        BY <1>4, <2>2, Zenon
      <3>2. Own(image', FALSE, <<i, 4 * q + b, 5 * q + b>>, x, y)
        BY <3>1, OwnThree, Zenon
      <3> QED
        BY <1>2, <2>3, <3>2, Zenon
  <1> QED
    BY <1>6, <1>7

\* Repacking YUYV leaves out the chroma of every second row: the U of the odd
\* rows and the V of the even ones.
LEMMA YUYVRepacked ==
  ASSUME SizeInv, ImageInv, ToNV21,
         NEW x \in 0..width - 1, NEW y \in 0..height - 1
  PROVE  Own(image, full, Offsets(x, y), x, y)'
  <1> DEFINE a == width \div 2  q == a * (height \div 2)
             i == Y(x, y)  b == Block(x, y)  c == x \div 2  r == 2 * (y \div 2)
  <1>1. /\ q \in Nat /\ Count = 4 * q /\ i \in 0..4 * q - 1 /\ b \in 0..q - 1
    BY EvenSizes, Counts, Zenon
  <1>2. /\ width' = width /\ height' = height /\ Count' = Count
        /\ Y(x, y)' = i /\ Block(x, y)' = b
        /\ full' = FALSE /\ format = "YUYV" /\ format' = "NV21"
        /\ image' = YUYVToNV21(image)
    BY DEF ToNV21, Repack, Count, Y, Block
  <1>3. full = TRUE
    BY <1>2, Zenon DEF SizeInv, FullFormats
  <1>4. /\ a \in Nat \ {0} /\ width = 2 * a /\ c \in 0..a - 1
        /\ r \in 0..height - 1 /\ r + 1 \in 0..height - 1
        /\ r \div 2 = y \div 2 /\ (r + 1) \div 2 = y \div 2 /\ y \div 2 \in Nat
        /\ r = 2 * (y \div 2)
    BY EvenSizes DEF IsEven
  <1>5. b % a = c /\ 2 * (b \div a) = r
    <2>1. b = (y \div 2) * a + c
      BY Zenon DEF Block
    <2> HIDE DEF a, b, c
    <2>2. ((y \div 2) * a + c) \div a = y \div 2 /\ ((y \div 2) * a + c) % a = c
      BY <1>4, PlaceInTable
    <2> QED
      BY <1>4, <2>1, <2>2, Zenon
  <1>6. ASSUME NEW z \in 0..height - 1
        PROVE  /\ Stands(image[4 * Half(x, z) + 1], "u", TRUE, x, z)
               /\ Stands(image[4 * Half(x, z) + 3], "v", TRUE, x, z)
               /\ image[2 * Y(x, z)] = <<"y", x, z>>
               /\ 4 * Half(x, z) = z * 2 * width + 4 * c
    <2>1. Own(image, full, Offsets(x, z), x, z)
      BY Zenon DEF ImageInv
    <2>2. Offsets(x, z) = <<2 * Y(x, z), 4 * Half(x, z) + 1, 4 * Half(x, z) + 3>>
      BY <1>2 DEF Offsets, YUYVToRGB24
    <2>3. Half(x, z) = z * a + c
      BY EvenSizes, Counts, Zenon
    <2>4. 4 * (z * a + c) = z * 2 * width + 4 * c
      <3> HIDE DEF a, c
      <3> QED
        BY <1>4
    <2> QED
      <3>1. PICK j, u, v : j = 2 * Y(x, z) /\ u = 4 * Half(x, z) + 1 /\ v = 4 * Half(x, z) + 3
        OBVIOUS
      <3>2. Own(image, full, <<j, u, v>>, x, z)
        BY <2>1, <2>2, <3>1
      <3>3. image[j] = <<"y", x, z>> /\ Stands(image[u], "u", full, x, z)
            /\ Stands(image[v], "v", full, x, z)
        BY <3>2, OwnThree
      <3> QED
        BY <1>3, <2>3, <2>4, <3>1, <3>3, Zenon
  <1> HIDE DEF q, i, b, c, r, a
  <1>7. /\ (Count * 3) \div 2 = 6 * q
        /\ i \in 0..6 * q - 1 /\ i < Count
        /\ 4 * q + 2 * b + 1 \in 0..6 * q - 1 /\ ~(4 * q + 2 * b + 1 < Count)
        /\ ((4 * q + 2 * b + 1) - Count) \div 2 = b
        /\ ((4 * q + 2 * b + 1) - Count) % 2 = 1
        /\ 4 * q + 2 * b \in 0..6 * q - 1 /\ ~(4 * q + 2 * b < Count)
        /\ ((4 * q + 2 * b) - Count) \div 2 = b
        /\ ((4 * q + 2 * b) - Count) % 2 = 0
    BY <1>1
  <1>8. /\ image'[i] = image[2 * i]
        /\ image'[4 * q + 2 * b + 1] = image[r * 2 * width + 4 * c + 1]
        /\ image'[4 * q + 2 * b] = image[(r + 1) * 2 * width + 4 * c + 3]
    <2>1. image'[i] = image[2 * i]
      BY <1>2, <1>7 DEF YUYVToNV21
    <2>2. /\ b % (width \div 2) = c /\ 2 * (b \div (width \div 2)) = r
      BY <1>5, Zenon DEF a
    <2>3. image'[4 * q + 2 * b + 1] = image[r * 2 * width + 4 * c + 1]
      BY <1>2, <1>7, <2>2 DEF YUYVToNV21
    <2>4. image'[4 * q + 2 * b] = image[(r + 1) * 2 * width + 4 * c + 3]
      BY <1>2, <1>7, <2>2 DEF YUYVToNV21
    <2> QED
      BY <2>1, <2>3, <2>4
  <1>9. Offsets(x, y)' = <<i, 4 * q + 2 * b + 1, 4 * q + 2 * b>>
    BY <1>1, <1>2 DEF Offsets, NV21ToRGB24
  <1>10. /\ image[2 * i] = <<"y", x, y>>
         /\ Stands(image[r * 2 * width + 4 * c + 1], "u", TRUE, x, r)
         /\ Stands(image[(r + 1) * 2 * width + 4 * c + 3], "v", TRUE, x, r + 1)
    BY <1>4, <1>6, Zenon DEF i
  <1>11. /\ Stands(image[r * 2 * width + 4 * c + 1], "u", FALSE, x, y)
         /\ Stands(image[(r + 1) * 2 * width + 4 * c + 3], "v", FALSE, x, y)
    BY <1>4, <1>10, Zenon DEF Stands
  <1> QED
    <2>1. /\ image'[i] = <<"y", x, y>>
          /\ Stands(image'[4 * q + 2 * b + 1], "u", FALSE, x, y)
          /\ Stands(image'[4 * q + 2 * b], "v", FALSE, x, y)
      BY <1>8, <1>10, <1>11, Zenon
    <2>2. Own(image', FALSE, <<i, 4 * q + 2 * b + 1, 4 * q + 2 * b>>, x, y)
      BY <2>1, OwnThree, Zenon
    <2> QED
      BY <1>2, <1>9, <2>2, Zenon

\* A sample in a file of chroma: of this plane, column and pair of rows.
Holds(s, plane, col, row) == s[1] = plane /\ s[2] = col /\ s[3] \div 2 = row

\* The first samples of an image in NV21 are those of its pixels in order.
LEMMA LumaInOrder ==
  ASSUME SizeInv, ImageInv, format = "NV21", NEW i \in 1..Count
  PROVE  image[i - 1] = <<"y", (i - 1) % width, (i - 1) \div width>>
  <1> DEFINE x == (i - 1) % width  y == (i - 1) \div width
  <1>1. width \in Nat \ {0} /\ height \in Nat /\ i - 1 \in 0..height * width - 1
    <2>1. width \in Nat \ {0} /\ height \in Nat
      BY EvenSizes DEF IsEven
    <2>2. Count = height * width /\ height * width \in Nat
      BY <2>1 DEF Count
    <2> HIDE DEF x, y
    <2> QED
      BY <2>1, <2>2
  <1>2. x \in 0..width - 1 /\ y \in 0..height - 1 /\ i - 1 = y * width + x
    BY <1>1, RowOfPlace, Zenon
  <1> HIDE DEF x, y
  <1>3. Own(image, full, Offsets(x, y), x, y)
    BY <1>2, Zenon DEF ImageInv
  <1>4. Offsets(x, y)[1] = Y(x, y)
    BY DEF Offsets, NV21ToRGB24
  <1>5. image[i - 1] = <<"y", x, y>>
    BY <1>2, <1>3, <1>4, Zenon DEF Own, Y
  <1> QED
    BY <1>5 DEF x, y

\* Then come pairs of V and U, one for each block of four pixels.
LEMMA ChromaInOrder ==
  ASSUME SizeInv, ImageInv, format = "NV21",
         NEW j \in 0..(Count \div 4) - 1
  PROVE  LET half == width \div 2
         IN  /\ Holds(image[Count + 2 * j], "v", j % half, j \div half)
             /\ Holds(image[Count + 2 * j + 1], "u", j % half, j \div half)
  <1> DEFINE a == width \div 2  c == height \div 2
             k == j % a  m == j \div a  x == 2 * k  y == 2 * m
  <1>1. /\ a \in Nat \ {0} /\ c \in Nat /\ width = 2 * a /\ height = 2 * c
        /\ Count \div 4 = c * a
    <2>1. a \in Nat \ {0} /\ c \in Nat /\ width = 2 * a /\ height = 2 * c
      BY EvenSizes DEF IsEven
    <2>2. Count = 4 * (a * c) /\ a * c \in Nat
      BY EvenSizes, PlaneSizes, Zenon DEF Count
    <2>3. a * c = c * a
      BY <2>1
    <2> HIDE DEF a, c
    <2> QED
      BY <2>1, <2>2, <2>3
  <1>2. k \in 0..a - 1 /\ m \in 0..c - 1 /\ j = m * a + k
    <2> HIDE DEF a, c
    <2>1. j \in 0..c * a - 1
      BY <1>1, Zenon
    <2> QED
      BY <1>1, <2>1, RowOfPlace, Zenon
  <1> HIDE DEF k, m
  <1>3. /\ x \in 0..width - 1 /\ y \in 0..height - 1
        /\ x \div 2 = k /\ y \div 2 = m
    BY <1>1, <1>2
  <1>4. Block(x, y) = j
    BY <1>2, <1>3, Zenon DEF Block
  <1>5. Own(image, full, Offsets(x, y), x, y)
    BY <1>3, Zenon DEF ImageInv
  <1>6. Offsets(x, y)[2] = Count + 2 * j + 1 /\ Offsets(x, y)[3] = Count + 2 * j
    BY <1>4 DEF Offsets, NV21ToRGB24
  <1>7. full = FALSE
    BY DEF SizeInv, FullFormats
  <1>8. /\ Stands(image[Count + 2 * j + 1], "u", FALSE, x, y)
        /\ Stands(image[Count + 2 * j], "v", FALSE, x, y)
    BY <1>5, <1>6, <1>7, Zenon DEF Own
  <1>9. /\ Holds(image[Count + 2 * j], "v", k, m)
        /\ Holds(image[Count + 2 * j + 1], "u", k, m)
    BY <1>3, <1>8, Zenon DEF Stands, Holds
  <1> QED
    BY <1>9 DEF k, m, a

\* The two halves of OwnSamples: the colours, and the files of planes.
ColoursOwn ==
  file # NoFile => \A p \in Pixels : Own(rgb[p], full, <<1, 2, 3>>, p[1], p[2])

PlanesOwn ==
  LET half == width \div 2
  IN /\ \A i \in DOMAIN planes.y :
          planes.y[i] = <<"y", (i - 1) % width, (i - 1) \div width>>
     /\ \A i \in DOMAIN planes.u :
          /\ Holds(planes.u[i], "u", (i - 1) % half, (i - 1) \div half)
          /\ Holds(planes.v[i], "v", (i - 1) % half, (i - 1) \div half)
     /\ \A i \in DOMAIN planes.uv :
          Holds(planes.uv[i], IF i % 2 = 1 THEN "v" ELSE "u",
                ((i - 1) \div 2) % half, ((i - 1) \div 2) \div half)

\* Saving the planes of an image keeps their order.
LEMMA PlanesSaved ==
  ASSUME SizeInv, ImageInv, saveYUV_NV21 \/ saveY_UV_NV21
  PROVE  PlanesOwn'
  <1> DEFINE q == Count \div 4  half == width \div 2
             luma == Part(0, 1, Count)
             us == Part(Count + 1, 2, Count \div 4)
             vs == Part(Count, 2, Count \div 4)
             vus == Part(Count, 1, Count \div 2)
  <1>1. format = "NV21" /\ width' = width
    BY DEF saveYUV_NV21, saveY_UV_NV21, SavePlanes
  <1>2. Count \in Nat /\ q \in Nat /\ Count \div 2 = 2 * q
    BY EvenSizes, PlaneSizes DEF Count
  <1>3. /\ DOMAIN luma = 1..Count
        /\ \A i \in 1..Count : luma[i] = <<"y", (i - 1) % width, (i - 1) \div width>>
    <2>1. ASSUME NEW i \in 1..Count
          PROVE  luma[i] = <<"y", (i - 1) % width, (i - 1) \div width>>
      <3>1. luma[i] = image[0 + 1 * (i - 1)]
        BY Zenon DEF Part
      <3>2. 0 + 1 * (i - 1) = i - 1
        BY <1>2
      <3> QED
        BY <1>1, <3>1, <3>2, LumaInOrder, Zenon
    <2> QED
      BY <2>1, Zenon DEF Part
  <1>4. /\ DOMAIN us = 1..q
        /\ \A i \in 1..q :
             /\ Holds(us[i], "u", (i - 1) % half, (i - 1) \div half)
             /\ Holds(vs[i], "v", (i - 1) % half, (i - 1) \div half)
    <2>1. ASSUME NEW i \in 1..q
          PROVE  /\ Holds(us[i], "u", (i - 1) % half, (i - 1) \div half)
                 /\ Holds(vs[i], "v", (i - 1) % half, (i - 1) \div half)
      <3>1. us[i] = image[Count + 1 + 2 * (i - 1)] /\ vs[i] = image[Count + 2 * (i - 1)]
        BY Zenon DEF Part
      <3>2. /\ i - 1 \in 0..q - 1
            /\ Count + 1 + 2 * (i - 1) = Count + 2 * (i - 1) + 1
        BY <1>2
      <3> QED
        BY <1>1, <3>1, <3>2, ChromaInOrder, Zenon
    <2> QED
      BY <2>1, Zenon DEF Part
  <1>5. /\ DOMAIN vus = 1..2 * q
        /\ \A i \in 1..2 * q :
             Holds(vus[i], IF i % 2 = 1 THEN "v" ELSE "u",
                   ((i - 1) \div 2) % half, ((i - 1) \div 2) \div half)
    <2>1. ASSUME NEW i \in 1..2 * q
          PROVE  Holds(vus[i], IF i % 2 = 1 THEN "v" ELSE "u",
                       ((i - 1) \div 2) % half, ((i - 1) \div 2) \div half)
      <3> DEFINE j == (i - 1) \div 2
      <3>1. vus[i] = image[Count + 1 * (i - 1)]
        BY <1>2, Zenon DEF Part
      <3>2. /\ j \in 0..q - 1
            /\ i % 2 = 1 => Count + 1 * (i - 1) = Count + 2 * j
            /\ ~(i % 2 = 1) => Count + 1 * (i - 1) = Count + 2 * j + 1
        BY <1>2
      <3> HIDE DEF j
      <3>3. /\ Holds(image[Count + 2 * j], "v", j % half, j \div half)
            /\ Holds(image[Count + 2 * j + 1], "u", j % half, j \div half)
        BY <1>1, <3>2, ChromaInOrder, Zenon
      <3>4. Holds(vus[i], IF i % 2 = 1 THEN "v" ELSE "u", j % half, j \div half)
        <4>1. CASE i % 2 = 1
          BY <3>1, <3>2, <3>3, <4>1, Zenon
        <4>2. CASE ~(i % 2 = 1)
          BY <3>1, <3>2, <3>3, <4>2, Zenon
        <4> QED
          BY <4>1, <4>2, Zenon
      <3> QED
        BY <3>4, Zenon DEF j
    <2> QED
      BY <1>2, <2>1, Zenon DEF Part
  <1> HIDE DEF luma, us, vs, vus, q
  <1>6. DOMAIN <<>> = {}
    OBVIOUS
  <1>7. /\ planes'.y = luma
        /\ planes'.u = <<>> \/ (planes'.u = us /\ planes'.v = vs)
        /\ planes'.uv = <<>> \/ planes'.uv = vus
    <2>1. CASE saveYUV_NV21
      BY <2>1 DEF saveYUV_NV21, SavePlanes, OnlyLuma, NoPlanes, luma, us, vs
    <2>2. CASE saveY_UV_NV21
      BY <2>2 DEF saveY_UV_NV21, SavePlanes, OnlyLuma, NoPlanes, luma, vus
    <2> QED
      BY <2>1, <2>2
  <1>8. \A i \in DOMAIN planes'.y :
          planes'.y[i] = <<"y", (i - 1) % width, (i - 1) \div width>>
    BY <1>3, <1>7, Zenon
  <1>9. \A i \in DOMAIN planes'.u :
          /\ Holds(planes'.u[i], "u", (i - 1) % half, (i - 1) \div half)
          /\ Holds(planes'.v[i], "v", (i - 1) % half, (i - 1) \div half)
    BY <1>4, <1>6, <1>7, Zenon
  <1>10. \A i \in DOMAIN planes'.uv :
           Holds(planes'.uv[i], IF i % 2 = 1 THEN "v" ELSE "u",
                 ((i - 1) \div 2) % half, ((i - 1) \div 2) \div half)
    BY <1>5, <1>6, <1>7, Zenon
  <1> QED
    BY <1>1, <1>8, <1>9, <1>10, Zenon DEF PlanesOwn

\* Where nothing is saved there is nothing to be wrong.
LEMMA NothingSaved == Unsaved => ColoursOwn /\ PlanesOwn
  <1> SUFFICES ASSUME Unsaved PROVE PlanesOwn
    BY DEF Unsaved, ColoursOwn
  <1>1. planes.y = <<>> /\ planes.u = <<>> /\ planes.uv = <<>>
    BY DEF Unsaved, NoPlanes
  <1>2. DOMAIN <<>> = {}
    OBVIOUS
  <1> QED
    BY <1>1, <1>2, Zenon DEF PlanesOwn

\* A colour is computed from the samples its function finds.
LEMMA ColoursWritten ==
  ASSUME ImageInv, NEW output \in Outputs, Write(output)
  PROVE  ColoursOwn'
  <1> SUFFICES ASSUME NEW x \in 0..width - 1, NEW y \in 0..height - 1
               PROVE  Own(rgb[<<x, y>>], full, <<1, 2, 3>>, x, y)'
    <2>1. Pixels' = Pixels
      BY DEF Write, Pixels
    <2>2. \A p \in Pixels : p = <<p[1], p[2]>> /\ p[1] \in 0..width - 1
                            /\ p[2] \in 0..height - 1
      BY DEF Pixels
    <2> QED
      BY <2>1, <2>2, Zenon DEF ColoursOwn
  <1> DEFINE o == Offsets(x, y)  s == [k \in 1..3 |-> image[o[k]]]
  <1>1. rgb'[<<x, y>>] = s
    <2>1. <<x, y>> \in Pixels /\ <<x, y>>[1] = x /\ <<x, y>>[2] = y
      BY DEF Pixels
    <2>2. rgb' = [p \in Pixels |-> [k \in 1..3 |-> image[Offsets(p[1], p[2])[k]]]]
      BY Zenon DEF Write
    <2> QED
      BY <2>1, <2>2, Zenon
  <1>2. full' = full
    BY DEF Write
  <1>3. Own(image, full, o, x, y)
    BY Zenon DEF ImageInv
  <1> HIDE DEF o
  <1>4. s[1] = image[o[1]] /\ s[2] = image[o[2]] /\ s[3] = image[o[3]]
    OBVIOUS
  <1> HIDE DEF s
  <1>5. /\ s[1] = <<"y", x, y>>
        /\ Stands(s[2], "u", full, x, y) /\ Stands(s[3], "v", full, x, y)
    BY <1>3, <1>4, Zenon DEF Own
  <1>6. Own(s, full, <<1, 2, 3>>, x, y)
    BY <1>5, OwnThree, Zenon
  <1> QED
    BY <1>1, <1>2, <1>6, Zenon

\* An image that is left alone keeps its samples where they are.
LEMMA SameImage ==
  ASSUME ImageInv, UNCHANGED <<width, height, format, full, image>>
  PROVE  ImageInv'
  BY DEF ImageInv, Offsets, YUV422PToRGB24, YUV420ToRGB24, YVU420ToRGB24,
         YV12ToRGB24, YUYVToRGB24, YVYUToRGB24, UYVYToRGB24, VYUYToRGB24,
         NV12ToRGB24, NV21ToRGB24, NV16ToRGB24, NV61ToRGB24, Y, Half, Block, Count

\* The colour of every pixel is computed from the pixel's own samples, and the
\* files of planes hold their samples in order, for images of every even size,
\* in every layout and after every repacking (convert.c).
THEOREM SamplesBelong == Spec => []OwnSamples
  <1>1. Init => ImageInv /\ ColoursOwn /\ PlanesOwn
    BY CameraOwns, NothingSaved, Zenon DEF Init, Unsaved
  <1>2. SizeInv /\ ImageInv /\ ColoursOwn /\ PlanesOwn /\ [Next]_vars
          => (ImageInv /\ ColoursOwn /\ PlanesOwn)'
    <2> SUFFICES ASSUME SizeInv, ImageInv, ColoursOwn, PlanesOwn, [Next]_vars
                 PROVE  (ImageInv /\ ColoursOwn /\ PlanesOwn)'
      OBVIOUS
    <2>1. CASE ToYV12 \/ ToYU12 \/ ToNV21
      <3>1. width' = width /\ height' = height /\ Unsaved'
        BY <2>1 DEF ToYV12, ToYU12, ToNV21, Repack, Unsaved
      <3>2. ASSUME NEW x \in 0..width - 1, NEW y \in 0..height - 1
            PROVE  Own(image, full, Offsets(x, y), x, y)'
        BY <2>1, NV21Repacked, YUYVRepacked, Zenon
      <3>3. ImageInv'
        BY <3>1, <3>2, Zenon DEF ImageInv
      <3>4. (ColoursOwn /\ PlanesOwn)'
        BY <3>1, NothingSaved, PTL
      <3> QED
        BY <3>3, <3>4
    <2>2. ASSUME NEW output \in Outputs, Write(output)
          PROVE  (ImageInv /\ ColoursOwn /\ PlanesOwn)'
      <3>1. UNCHANGED <<width, height, format, full, image, planes>>
        BY <2>2, Zenon DEF Write
      <3>2. PlanesOwn'
        BY <3>1, Zenon DEF PlanesOwn
      <3>3. ImageInv'
        BY <3>1, SameImage, Zenon
      <3> QED
        BY <2>2, <3>2, <3>3, ColoursWritten
    <2>3. CASE saveYUV_NV21 \/ saveY_UV_NV21
      <3>1. UNCHANGED <<width, height, format, full, image>> /\ file' = NoFile
        BY <2>3, Zenon DEF saveYUV_NV21, saveY_UV_NV21, SavePlanes, Unsaved
      <3>2. ColoursOwn'
        BY <3>1, Zenon DEF ColoursOwn
      <3>3. ImageInv'
        BY <3>1, SameImage, Zenon
      <3> QED
        BY <2>3, <3>2, <3>3, PlanesSaved, Zenon
    <2>4. CASE UNCHANGED vars
      <3>1. ImageInv'
        BY <2>4, SameImage, Zenon DEF vars
      <3>2. ColoursOwn' /\ PlanesOwn'
        BY <2>4, Zenon DEF vars, ColoursOwn, PlanesOwn, Pixels
      <3> QED
        BY <3>1, <3>2
    <2> QED
      BY <2>1, <2>2, <2>3, <2>4, Zenon DEF Next
  <1>3. ColoursOwn /\ PlanesOwn => OwnSamples
    <2> SUFFICES ASSUME ColoursOwn, PlanesOwn PROVE OwnSamples
      OBVIOUS
    <2>1. ASSUME file # NoFile, NEW p \in Pixels
          PROVE  /\ rgb[p][1] = <<"y", p[1], p[2]>>
                 /\ Stands(rgb[p][2], "u", full, p[1], p[2])
                 /\ Stands(rgb[p][3], "v", full, p[1], p[2])
      BY <2>1, OwnThree, Zenon DEF ColoursOwn
    <2>2. \A k \in 2..3 : k = 2 \/ k = 3
      OBVIOUS
    <2>3. <<"y", "u", "v">>[2] = "u" /\ <<"y", "u", "v">>[3] = "v"
      OBVIOUS
    <2>4. ASSUME file # NoFile, NEW p \in Pixels, NEW k \in 2..3
          PROVE  /\ rgb[p][k][1] = <<"y", "u", "v">>[k]
                 /\ rgb[p][k][2] = p[1] \div 2
                 /\ IF full THEN rgb[p][k][3] = p[2]
                            ELSE rgb[p][k][3] \div 2 = p[2] \div 2
      BY <2>1, <2>2, <2>3, <2>4 DEF Stands
    <2> QED
      BY <2>1, <2>4, Zenon DEF OwnSamples, PlanesOwn, Holds
  <1> QED
    BY <1>1, <1>2, <1>3, SizeInvariant, PTL DEF Spec
-----------------------------------------------------------------------------
(***************************************************************************)
(* Types, grey and headers.                                                *)
(***************************************************************************)
\* What an action other than Write leaves alone.
LEMMA OnlyWriteColours ==
  [Next]_vars => \/ \E output \in Outputs : Write(output)
                 \/ UNCHANGED <<width, height, values, pixel, file>>
  BY Zenon DEF Next, ToYV12, ToYU12, ToNV21, Repack, saveYUV_NV21, saveY_UV_NV21,
     SavePlanes, vars

\* Every variable keeps its type; a colour that was computed is three bytes,
\* whatever the samples (Clamp in the convertors of convert.c).
THEOREM TypeCorrect == Spec => []TypeOK
  <1>1. Init => TypeOK
    BY DEF Init, TypeOK
  <1>2. SizeInv' /\ TypeOK /\ [Next]_vars => TypeOK'
    <2> SUFFICES ASSUME SizeInv', TypeOK, [Next]_vars PROVE TypeOK'
      OBVIOUS
    <2>1. width' \in Widths /\ height' \in Heights /\ format' \in Formats
      BY Zenon DEF SizeInv
    <2>2. full' \in BOOLEAN
      BY Zenon DEF TypeOK, Next, ToYV12, ToYU12, ToNV21, Repack, Write, saveYUV_NV21,
         saveY_UV_NV21, SavePlanes, vars
    <2>3. ASSUME NEW output \in Outputs, Write(output)
          PROVE  /\ values' \in Samples \X Samples \X Samples
                 /\ pixel' \in (0..255) \X (0..255) \X (0..255)
      BY <2>3, ColourIsBytes, Zenon DEF Write, Byte
    <2> QED
      BY <2>1, <2>2, <2>3, OnlyWriteColours, Zenon DEF TypeOK
  <1> QED
    BY <1>1, <1>2, SizeInvariant, PTL DEF Spec

\* The rounding of the three products for U = V = 128 and the constants that
\* centre them leave at most one step between a byte and Y.
LEMMA GreyColour ==
  ASSUME NEW v \in Samples \X Samples \X Samples, v[2] = 128, v[3] = 128
  PROVE  \A k \in 1..3 : ToRGB24(v)[k] - v[1] \in -1..1
  <1>1. v[1] \in 0..255
    <2>1. v[1] \in Samples
      OBVIOUS
    <2> QED
      BY <2>1, ConstantsAssumption, Zenon DEF ConstantsAssumption
  <1>2. Blue(v) = v[1] - 1 /\ Green(v) = v[1] + 1 /\ Red(v) = v[1]
    BY <1>1 DEF Blue, Green, Red
  <1>3. /\ Clamp(v[1] - 1) - v[1] \in -1..1 /\ Clamp(v[1] + 1) - v[1] \in -1..1
        /\ Clamp(v[1]) - v[1] \in -1..1
    BY <1>1 DEF Clamp
  <1>4. \A k \in 1..3 : k = 1 \/ k = 2 \/ k = 3
    OBVIOUS
  <1> QED
    BY <1>2, <1>3, <1>4 DEF ToRGB24

\* A pixel without colour stays grey up to one step (the fixed-point
\* coefficients of the convertors in convert.c).
THEOREM GreyIsKept == Spec => []GreyStaysGrey
  <1>1. Init => GreyStaysGrey
    BY DEF Init, GreyStaysGrey
  <1>2. GreyStaysGrey /\ [Next]_vars => GreyStaysGrey'
    <2>1. ASSUME NEW output \in Outputs, Write(output) PROVE GreyStaysGrey'
      <3>1. values' \in Samples \X Samples \X Samples /\ pixel' = ToRGB24(values')
        BY <2>1, Zenon DEF Write
      <3> QED
        BY <3>1, GreyColour, Zenon DEF GreyStaysGrey
    <2>2. ASSUME GreyStaysGrey, UNCHANGED <<values, pixel, file>> PROVE GreyStaysGrey'
      BY <2>2, Zenon DEF GreyStaysGrey
    <2> QED
      BY <2>1, <2>2, OnlyWriteColours, Zenon
  <1> QED
    BY <1>1, <1>2, PTL DEF Spec

\* What a reader takes for a row is a row of the file, if the width is a multiple
\* of four or a pixel has two bytes.
LEMMA Rows ==
  ASSUME NEW w \in Nat, w % 2 = 0
  PROVE  /\ 4 * ((w * 16 + 31) \div 32) = 2 * w
         /\ 4 * ((w * 24 + 31) \div 32) = 3 * w <=> w % 4 = 0
  <1>1. PICK k \in Nat : w = 4 * k \/ w = 4 * k + 2
    <2>1. w = 4 * (w \div 4) \/ w = 4 * (w \div 4) + 2
      OBVIOUS
    <2> QED
      BY <2>1, w \div 4 \in Nat
  <1>2. CASE w = 4 * k
    BY <1>2
  <1>3. CASE w = 4 * k + 2
    BY <1>3
  <1> QED
    BY <1>1, <1>2, <1>3

\* Every pixel of w columns and h rows is read where it was written.
AllFound(w, h, n, start, stride) ==
  \A p \in (0..w - 1) \X (0..h - 1) :
    start + p[1] * n + stride * p[2] = start + (p[2] * w + p[1]) * n

\* Rows that are read as they were written leave every pixel in its place, and
\* other rows lose the first pixel of the second.
LEMMA PixelsFound ==
  ASSUME NEW w \in Nat \ {0}, NEW h \in Nat, h >= 2, NEW n \in Nat,
         NEW start \in Nat, NEW stride \in Nat
  PROVE  AllFound(w, h, n, start, stride) <=> stride = n * w
  <1>1. ASSUME stride = n * w, NEW p \in (0..w - 1) \X (0..h - 1)
        PROVE  start + p[1] * n + stride * p[2] = start + (p[2] * w + p[1]) * n
    <2> DEFINE x == p[1]  y == p[2]
    <2>1. x \in Nat /\ y \in Nat
      OBVIOUS
    <2> HIDE DEF x, y
    <2>2. stride * y = n * (y * w) /\ (y * w + x) * n = n * (y * w) + x * n
      BY <1>1, <2>1
    <2>3. y * w \in Nat /\ n * (y * w) \in Nat /\ x * n \in Nat
      BY <2>1
    <2>4. start + x * n + stride * y = start + (y * w + x) * n
      BY <2>2, <2>3
    <2> QED
      BY <2>4 DEF x, y
  <1>2. ASSUME AllFound(w, h, n, start, stride)
        PROVE  stride = n * w
    <2>1. <<0, 1>> \in (0..w - 1) \X (0..h - 1)
      OBVIOUS
    <2>2. start + 0 * n + stride * 1 = start + (1 * w + 0) * n
      BY <1>2, <2>1 DEF AllFound
    <2> QED
      BY <2>2
  <1> QED
    BY <1>1, <1>2, Zenon DEF AllFound

\* A reader finds the pixels of a bitmap by its header exactly when rows fill
\* whole words, its sizes are that of the file, for images of every even size
\* (YUVToBMP and its kin in convert.c).
THEOREM HeadersAreRight == Spec => []HeaderTellsSize
  <1>1. Init => HeaderTellsSize
    BY DEF Init, HeaderTellsSize, NoFile, Bitmaps
  <1>2. SizeInv /\ HeaderTellsSize /\ [Next]_vars => HeaderTellsSize'
    <2> SUFFICES ASSUME SizeInv, HeaderTellsSize, [Next]_vars
                 PROVE  HeaderTellsSize'
      OBVIOUS
    <2>1. ASSUME NEW output \in Bitmaps, Write(output),
                 file' = Bitmap(output, pixel')
          PROVE  HeaderTellsSize'
      <3> DEFINE n == PixelBytes(output)  start == Before(output)
                 size == Size(output)
      <3>1. /\ file'.output = output /\ file'.bfSize = size
            /\ file'.bfOffBits = OffBits(output) /\ file'.biHeight = -height
            /\ file'.biBitCount = BitCount(output)
            /\ file'.biSizeImage = SizeImage(output) /\ file'.before = start
            /\ file'.length = start + Count * n
        BY <2>1 DEF Bitmap
      <3>2. width' = width /\ height' = height /\ Pixels' = Pixels
        BY <2>1 DEF Write, Pixels
      <3>3. /\ width \in Nat \ {0} /\ width % 2 = 0
            /\ height \in Nat \ {0} /\ height >= 2
        BY ConstantsAssumption DEF ConstantsAssumption, SizeInv
      <3>4. /\ n \in {2, 3} /\ BitCount(output) = 8 * n /\ start \in Nat
            /\ OffBits(output) = start
        BY DEF PixelBytes, BitCount, Before, OffBits, FileHeaderSize,
               InfoHeaderSize, Bitmaps
      <3>5. Count \in Nat /\ Count * n \in Nat
        BY <3>3, <3>4 DEF Count
      <3>6. size = start + Count * n
        BY <3>5 DEF Size, Before, FileHeaderSize, InfoHeaderSize
      <3>7. SizeImage(output) \in {0} \cup size..size + 3
        <4>1. size \in Nat
          BY <3>4, <3>5, <3>6
        <4> HIDE DEF size
        <4>2. 4 * ((size + 3) \div 4) \in size..size + 3
          BY <4>1
        <4> QED
          BY <4>2 DEF SizeImage, size
      <3> DEFINE stride == 4 * ((width * (8 * n) + 31) \div 32)
      <3>8. stride = n * width <=> (output = "BMP" => width % 4 = 0)
        <4>1. CASE output = "BMP"
          <5>1. n = 3 /\ stride = 4 * ((width * 24 + 31) \div 32)
            BY <4>1 DEF PixelBytes
          <5> QED
            BY <3>3, <4>1, <5>1, Rows
        <4>2. CASE output # "BMP"
          <5>1. n = 2 /\ stride = 4 * ((width * 16 + 31) \div 32)
            BY <4>2 DEF PixelBytes
          <5> QED
            BY <3>3, <4>2, <5>1, Rows
        <4> QED
          BY <4>1, <4>2
      <3>9. stride \in Nat
        BY <3>3, <3>4
      <3>10. Stride' = stride
        BY <3>1, <3>2, <3>4 DEF Stride
      <3>11. ASSUME NEW p \in Pixels
             PROVE  /\ Sought(p)' = start + p[1] * n + stride * p[2]
                    /\ Placed(p)' = start + (p[2] * width + p[1]) * n
        <4>1. file'.biHeight < 0 /\ file'.biBitCount \div 8 = n
          BY <3>1, <3>3, <3>4
        <4>2. PixelBytes(file'.output) = n
          BY <3>1
        <4>3. p[1] \in Nat /\ p[2] \in Nat
          BY <3>3 DEF Pixels
        <4> HIDE DEF n, start, stride
        <4>4. /\ p[1] * n \in Nat /\ stride * p[2] \in Nat
          BY <3>4, <3>9, <4>3
        <4>5. Sought(p)' = start + p[1] * n + stride * p[2]
          <5>1. Sought(p)' = OffBits(output) + p[1] * n + stride * p[2]
            BY <3>1, <3>10, <4>1, Zenon DEF Sought
          <5> QED
            BY <3>4, <5>1, Zenon
        <4>6. Placed(p)' = start + (p[2] * width + p[1]) * n
          BY <3>1, <3>2, <4>2, Zenon DEF Placed
        <4> QED
          BY <4>5, <4>6
      <3> HIDE DEF n, start, stride, size
      <3>12. (\A p \in Pixels : Sought(p)' = Placed(p)')
               <=> (output = "BMP" => width % 4 = 0)
        <4>1. AllFound(width, height, n, start, stride) <=> stride = n * width
          <5>1. /\ width \in Nat \ {0} /\ height \in Nat /\ height >= 2
                /\ n \in Nat /\ start \in Nat /\ stride \in Nat
            BY <3>3, <3>4, <3>9
          <5> QED
            BY <5>1, PixelsFound, Zenon
        <4> QED
          BY <3>8, <3>11, <4>1, Zenon DEF Pixels, AllFound
      <3> QED
        BY <3>1, <3>2, <3>6, <3>7, <3>12, Zenon DEF HeaderTellsSize
    <2>2. ASSUME NEW made \in 1..3, file' = RawFile(pixel', made)
          PROVE  HeaderTellsSize'
      <3>1. file'.output = "RGBfile"
        BY <2>2 DEF RawFile, NoFile
      <3> QED
        BY <3>1 DEF HeaderTellsSize, Bitmaps
    <2>3. CASE UNCHANGED <<width, height, file>>
      BY <2>3, Zenon DEF HeaderTellsSize, Sought, Placed, Stride, Pixels
    <2> QED
      BY <2>1, <2>2, <2>3, OnlyWriteColours, Zenon DEF Write
  <1> QED
    BY <1>1, <1>2, SizeInvariant, PTL DEF Spec
=============================================================================
