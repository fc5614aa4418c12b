------------------------ MODULE SmallProgramsProofs -------------------------
(***************************************************************************)
(* Proofs about programs that have nothing to do with each other:          *)
(* ImageFilter, for any image, filter and number of threads; StopResume,   *)
(* for any number of scripts; SignalEcho, for any number of messages asked *)
(* for; PermitServer, for any number of children and of requests waited    *)
(* for; Pipeline, for any number of commands and any size of a pipe;       *)
(* NamedPipe, for any set of slaves; and RecordFiles, for any files and    *)
(* keys, however often the program is killed.                              *)
(***************************************************************************)
EXTENDS ImageFilter, StopResume, SignalEcho, PermitServer, Pipeline, NamedPipe,
        RecordFiles, CommonLemmas

-----------------------------------------------------------------------------
(* ImageFilter: the indices.                                               *)

\* In rows of w pixels, column a and row b are found again from the index.
LEMMA Grid ==
  ASSUME NEW w \in Nat \ {0}, NEW a \in 0 .. w - 1, NEW b \in Nat
  PROVE  /\ a + b * w \in Nat
         /\ ((a + b * w) % w) = a /\ (a + b * w) \div w = b
<1> DEFINE p == a + b * w  q == p \div w  r == p % w
<1>1. b * w \in Nat
  OBVIOUS
<1>2. p \in Nat
  BY <1>1
<1>3. q \in Int /\ r \in 0 .. w - 1 /\ p = w * q + r
  BY <1>2, Division
<1> HIDE DEF q, r
<1>4. w * (q - b) = a - r /\ w * (b - q) = r - a
  BY <1>3
<1>5. a = r
  <2>1. CASE a < r
    <3>1. w * (b - q) > 0 /\ w * (b - q) < w /\ b - q \in Int
      BY <1>3, <1>4, <2>1
    <3> QED
      BY <3>1, NoMultipleBetween
  <2>2. CASE a > r
    <3>1. w * (q - b) > 0 /\ w * (q - b) < w /\ q - b \in Int
      BY <1>3, <1>4, <2>2
    <3> QED
      BY <3>1, NoMultipleBetween
  <2> QED
    BY <1>3, <2>1, <2>2
<1>6. q = b
  BY <1>3, <1>4, <1>5
<1> QED
  BY <1>2, <1>5, <1>6 DEF q, r

\* The clamped index is the nearest one inside, and the only one.
LEMMA Clamped ==
  ASSUME NEW last \in Nat, NEW x \in Int
  PROVE  /\ Clamp(last, x) \in 0 .. last
         /\ \A k \in 0 .. last :
              /\ Distance(Clamp(last, x), x) \in Nat /\ Distance(k, x) \in Nat
              /\ Distance(Clamp(last, x), x) <= Distance(k, x)
              /\ Distance(k, x) <= Distance(Clamp(last, x), x) => k = Clamp(last, x)
  BY DEF Clamp, Distance

\* Column and row of a pixel.
LEMMA PixelPlace ==
  ASSUME W \in Nat \ {0}, H \in Nat \ {0}, NEW p \in Image
  PROVE  /\ p \in Nat /\ (p % W) \in 0 .. W - 1 /\ p \div W \in 0 .. H - 1
         /\ p = (p % W) + (p \div W) * W
<1> DEFINE q == p \div W  r == p % W
<1>1. p \in Nat /\ p < H * W
  BY DEF Image
<1>2. q \in Int /\ r \in 0 .. W - 1 /\ p = W * q + r
  BY <1>1, Division
<1> HIDE DEF q, r
<1>3. q >= 0
  <2>1. CASE q <= -1
    <3>1. W * q <= -W
      BY <1>2, <2>1
    <3> QED
      BY <1>1, <1>2, <3>1
  <2> QED
    BY <1>2, <2>1
<1>4. q <= H - 1
  <2>1. CASE q >= H
    <3>1. W * q >= W * H
      BY <1>2, <2>1
    <3> QED
      BY <1>1, <1>2, <3>1
  <2> QED
    BY <1>2, <2>1
<1>5. p = r + q * W
  BY <1>2
<1> QED
  BY <1>1, <1>2, <1>3, <1>4, <1>5 DEF q, r

\* calculate_pixel reads the pixel of the image that is nearest to the place wanted.
LEMMA NearestIsClamped ==
  ASSUME W \in Nat \ {0}, H \in Nat \ {0}, NEW x \in Int, NEW y \in Int
  PROVE  Nearest(x, y) = Clamp(W - 1, x) + Clamp(H - 1, y) * W
<1> DEFINE a == Clamp(W - 1, x)  b == Clamp(H - 1, y)  p == a + b * W
           Far(q) == Distance(q % W, x) + Distance(q \div W, y)
<1>1. /\ a \in 0 .. W - 1
      /\ \A k \in 0 .. W - 1 : /\ Distance(a, x) \in Nat /\ Distance(k, x) \in Nat
                               /\ Distance(a, x) <= Distance(k, x)
                               /\ Distance(k, x) <= Distance(a, x) => k = a
  BY Clamped
<1>2. /\ b \in 0 .. H - 1
      /\ \A k \in 0 .. H - 1 : /\ Distance(b, y) \in Nat /\ Distance(k, y) \in Nat
                               /\ Distance(b, y) <= Distance(k, y)
                               /\ Distance(k, y) <= Distance(b, y) => k = b
  BY Clamped
<1> HIDE DEF a, b
<1>3. p \in Image /\ (p % W) = a /\ p \div W = b
  <2>1. p \in Nat /\ (p % W) = a /\ p \div W = b
    BY <1>1, <1>2, Grid
  <2>2. b * W <= (H - 1) * W
    BY <1>2
  <2>3. p < H * W
    BY <1>1, <1>2, <2>1, <2>2
  <2> QED
    BY <2>1, <2>3 DEF Image
<1> HIDE DEF p
<1>4. ASSUME NEW q \in Image PROVE Far(p) <= Far(q)
  BY <1>1, <1>2, <1>3, PixelPlace
<1>5. ASSUME NEW q \in Image, Far(q) <= Far(p) PROVE q = p
  <2>1. (q % W) \in 0 .. W - 1 /\ q \div W \in 0 .. H - 1
    BY PixelPlace
  <2>2. (q % W) = a /\ q \div W = b
    BY <1>1, <1>2, <1>3, <1>5, <2>1
  <2> QED
    BY <2>2, PixelPlace DEF p
<1>6. Nearest(x, y) = CHOOSE q \in Image : \A r \in Image : Far(q) <= Far(r)
  BY DEF Nearest
<1> HIDE DEF Far
<1>7. \A q \in Image : (\A r \in Image : Far(q) <= Far(r)) <=> q = p
  BY <1>3, <1>4, <1>5
<1> QED
  BY <1>3, <1>6, <1>7 DEF p, a, b

-----------------------------------------------------------------------------
(* ImageFilter: the invariant.                                             *)

FilterSizes ==
  /\ W \in Nat \ {0} /\ H \in Nat \ {0} /\ C \in Nat /\ threads_number \in Nat \ {0}

FilterTypes ==
  /\ FilterSizes
  /\ created \in 0 .. threads_number
  /\ pixel \in [Threads -> Nat]
  /\ DOMAIN value = Image
  /\ saved \in BOOLEAN

\* Every thread is in its batch; a batch before which the image ends is never begun.
InBatch ==
  \A t \in Threads :
    from(t) <= pixel[t] /\ (pixel[t] <= to(t) \/ pixel[t] = from(t))

\* What a thread has passed is calculated.
PassedIsCalculated ==
  \A t \in Threads : \A p \in Image :
    from(t) <= p /\ p < pixel[t] => value[p] = calculate_pixel(p)

\* Nothing has been written behind the output yet, so that everything is as it should be.
Unharmed ==
  /\ InBatch
  /\ PassedIsCalculated
  /\ \A t \in Threads : pixel[t] <= H * W \/ pixel[t] = from(t)
  /\ saved => \A t \in Threads : pixel[t] >= to(t)

FilterInv ==
  /\ FilterTypes
  /\ BatchesFit => behind = {}
  /\ behind = {} => Unharmed

-----------------------------------------------------------------------------
(* ImageFilter: the batches.                                               *)

LEMMA BatchSize ==
  ASSUME FilterSizes
  PROVE  /\ batch_size \in Nat \ {0} /\ H * W \in Nat \ {0}
         /\ batch_size * threads_number >= H * W
<1> DEFINE S == H * W  n == threads_number  q == S \div n  r == S % n
<1>1. S \in Nat \ {0} /\ n \in Nat \ {0}
  BY DEF FilterSizes
<1>2. batch_size = IF r = 0 THEN q ELSE q + 1
  BY DEF batch_size
<1> HIDE DEF S
<1>3. q \in Int /\ r \in 0 .. n - 1 /\ S = n * q + r
  BY <1>1, Division
<1> HIDE DEF n, q, r
<1>4. q >= 0
  <2>1. CASE q <= -1
    <3>1. n * q <= -n
      BY <1>1, <1>3, <2>1
    <3> QED
      BY <1>1, <1>3, <3>1
  <2> QED
    BY <1>3, <2>1
<1>5. CASE r = 0
  <2>1. batch_size = q /\ S = q * n
    BY <1>1, <1>2, <1>3, <1>5
  <2>2. q # 0
    BY <1>1, <1>3, <1>5
  <2> QED
    BY <1>1, <1>3, <1>4, <2>1, <2>2 DEF S, n
<1>6. CASE r # 0
  <2>1. batch_size = q + 1 /\ (q + 1) * n = n * q + n
    BY <1>1, <1>2, <1>3, <1>6
  <2> QED
    BY <1>1, <1>3, <1>4, <2>1 DEF S, n
<1> QED
  BY <1>5, <1>6

\* Where the batches are: one after the other, together the whole image; and inside
\* of it if the last one begins there, and only then.
LEMMA Batches ==
  ASSUME FilterSizes
  PROVE  /\ \A t \in Threads : from(t) \in Nat /\ to(t) \in Nat
         /\ \A s, t \in Threads : s < t => to(s) <= from(t) /\ from(s) <= from(t)
         /\ \A p \in Image : \E t \in Threads : from(t) <= p /\ p < to(t)
         /\ BatchesFit => \A t \in Threads : to(t) <= H * W
         /\ ~BatchesFit => \E t \in Threads : to(t) > H * W /\ from(t) < to(t)
<1> DEFINE S == H * W  n == threads_number  B == batch_size
<1>1. S \in Nat \ {0} /\ n \in Nat \ {0} /\ B \in Nat \ {0} /\ B * n >= S
  BY BatchSize DEF FilterSizes
<1>2. /\ Threads = 0 .. n - 1 /\ Image = 0 .. S - 1
      /\ \A t : from(t) = B * t /\ to(t) = IF t = n - 1 THEN S ELSE B * (t + 1)
  BY DEF Threads, Image, from, to
<1> HIDE DEF S, n, B
<1>3. \A t \in Nat : B * t \in Nat /\ B * (t + 1) \in Nat
  BY <1>1
<1>4. \A s, t \in Nat : s <= t => B * s <= B * t
  BY <1>1
<1>5. \A t \in Threads : from(t) \in Nat /\ to(t) \in Nat
  BY <1>1, <1>2, <1>3
<1>6. ASSUME NEW s \in Threads, NEW t \in Threads, s < t
      PROVE  to(s) <= from(t) /\ from(s) <= from(t)
  <2>1. s \in Nat /\ t \in Nat /\ s # n - 1 /\ s + 1 <= t /\ s + 1 \in Nat
    BY <1>1, <1>2, <1>6
  <2> QED
    BY <1>2, <1>4, <2>1
<1>7. ASSUME NEW p \in Image PROVE \E t \in Threads : from(t) <= p /\ p < to(t)
  <2> DEFINE d == p \div B  r == p % B
  <2>1. p \in Nat /\ p < S
    BY <1>1, <1>2
  <2>2. d \in Int /\ r \in 0 .. B - 1 /\ p = B * d + r
    BY <1>1, <2>1, Division
  <2> HIDE DEF d, r
  <2>3. d >= 0
    <3>1. CASE d <= -1
      <4>1. B * d <= -B
        BY <1>1, <2>2, <3>1
      <4> QED
        BY <1>1, <2>1, <2>2, <4>1
    <3> QED
      BY <2>2, <3>1
  <2>4. B * d <= p /\ p < B * (d + 1)
    <3>1. B * (d + 1) = B * d + B
      BY <1>1, <2>2
    <3> QED
      BY <1>1, <2>1, <2>2, <3>1
  <2>5. CASE d < n - 1
    <3>1. d \in Threads /\ from(d) = B * d /\ to(d) = B * (d + 1)
      BY <1>1, <1>2, <2>2, <2>3, <2>5
    <3> QED
      BY <2>4, <3>1
  <2>6. CASE d >= n - 1
    <3>1. B * (n - 1) <= B * d /\ B * (n - 1) \in Nat /\ B * d \in Nat
      BY <1>1, <1>3, <1>4, <2>2, <2>3, <2>6
    <3>2. n - 1 \in Threads /\ from(n - 1) = B * (n - 1) /\ to(n - 1) = S
      BY <1>1, <1>2
    <3> QED
      BY <2>1, <2>4, <3>1, <3>2
  <2> QED
    BY <1>1, <2>2, <2>5, <2>6
<1>8. ASSUME B * (n - 1) <= S, NEW t \in Threads PROVE to(t) <= S
  <2>1. CASE t = n - 1
    BY <1>1, <1>2, <2>1
  <2>2. CASE t # n - 1
    <3>1. t + 1 \in Nat /\ n - 1 \in Nat /\ t + 1 <= n - 1
      BY <1>1, <1>2, <2>2
    <3>2. B * (t + 1) <= B * (n - 1) /\ B * (t + 1) \in Nat /\ B * (n - 1) \in Nat
      BY <1>3, <1>4, <3>1
    <3> QED
      BY <1>1, <1>2, <1>8, <2>2, <3>2
  <2> QED
    BY <2>1, <2>2
<1>9. ASSUME ~(B * (n - 1) <= S) PROVE \E t \in Threads : to(t) > S /\ from(t) < to(t)
  <2>1. n # 1
    BY <1>1, <1>9
  <2>2. n - 2 \in Threads /\ n - 2 # n - 1 /\ (n - 2) + 1 = n - 1 /\ n - 2 \in Nat
    BY <1>1, <1>2, <2>1
  <2>3. from(n - 2) = B * (n - 2) /\ to(n - 2) = B * (n - 1)
    BY <1>2, <2>2
  <2>4. B * (n - 1) = B * (n - 2) + B /\ B * (n - 2) \in Nat /\ B * (n - 1) \in Nat
    BY <1>1, <1>3, <2>2
  <2>5. to(n - 2) > S /\ from(n - 2) < to(n - 2)
    BY <1>1, <1>9, <2>3, <2>4
  <2> QED
    BY <2>2, <2>5
<1>10. BatchesFit <=> B * (n - 1) <= S
  BY DEF BatchesFit, S, n, B
<1> QED
  BY <1>5, <1>6, <1>7, <1>8, <1>9, <1>10 DEF S

\* What calculate_pixel reads are the nearest pixels of the image.
LEMMA WindowIsRight ==
  ASSUME FilterSizes, NEW p \in Image
  PROVE  LET center == (C + 1) \div 2
         IN  calculate_pixel(p) =
               [o \in Offsets |->
                  Nearest((p % W) + o[1] - center, (p \div W) + o[2] - center)]
<1> DEFINE center == (C + 1) \div 2
<1>1. center \in Int /\ W \in Nat \ {0} /\ H \in Nat \ {0}
  <2>1. C + 1 \in Nat
    BY DEF FilterSizes
  <2> QED
    BY <2>1, Division DEF FilterSizes
<1>2. (p % W) \in Int /\ p \div W \in Int
  BY <1>1, PixelPlace
<1> HIDE DEF center
<1>3. ASSUME NEW o \in Offsets
      PROVE  Nearest((p % W) + o[1] - center, (p \div W) + o[2] - center)
             = Clamp(W - 1, (p % W) + o[1] - center)
               + Clamp(H - 1, (p \div W) + o[2] - center) * W
  <2>1. o[1] \in Int /\ o[2] \in Int
    BY DEF Offsets
  <2>2. (p % W) + o[1] - center \in Int /\ (p \div W) + o[2] - center \in Int
    BY <1>1, <1>2, <2>1
  <2> QED
    BY <1>1, <2>2, NearestIsClamped
<1> QED
  BY <1>3 DEF calculate_pixel, center

-----------------------------------------------------------------------------
(* ImageFilter: the theorems.                                              *)

\* The sizes are those of the whole behaviour, and with them all the indices.
LEMMA SameIndices ==
  ASSUME UNCHANGED sizes
  PROVE  /\ Threads' = Threads /\ Image' = Image /\ FilterSizes' = FilterSizes
         /\ batch_size' = batch_size
         /\ UNCHANGED W /\ UNCHANGED H /\ UNCHANGED threads_number
         /\ BatchesFit' <=> BatchesFit
         /\ \A s : from(s)' = from(s) /\ to(s)' = to(s)
         /\ \A p : calculate_pixel(p)' = calculate_pixel(p)
  BY DEF sizes, Threads, Image, FilterSizes, from, to, batch_size, calculate_pixel, Offsets, Clamp,
         BatchesFit

\* What does not touch the image keeps what is known of it.
LEMMA ImageKept ==
  ASSUME FilterInv, UNCHANGED <<sizes, pixel, value, behind>>,
         created' \in 0 .. threads_number, saved' \in BOOLEAN,
         saved' /\ ~saved => \A t \in Threads : pixel[t] >= to(t)
  PROVE  FilterInv'
<1>1. UNCHANGED sizes
  OBVIOUS
<1>2. FilterTypes'
  BY <1>1, SameIndices DEF FilterInv, FilterTypes
<1>3. Unharmed => Unharmed'
  BY <1>1, SameIndices DEF Unharmed, InBatch, PassedIsCalculated, FilterInv, FilterTypes
<1> QED
  BY <1>1, <1>2, <1>3, SameIndices DEF FilterInv

\* Between any two steps of the threads the output holds exactly what the threads that
\* ran have calculated, each in its own batch.
THEOREM FilterInvariance == FilterSpec => []FilterInv
<1> USE FilterBounds
<1>1. FilterInit => FilterInv
  <2> SUFFICES ASSUME FilterInit PROVE FilterInv
    OBVIOUS
  <2>1. FilterSizes
    BY DEF FilterInit, FilterSizes
  <2>2. \A t \in Threads : from(t) \in Nat
    BY <2>1, Batches
  <2>3. FilterTypes
    <3>1. created \in 0 .. threads_number
      BY <2>1 DEF FilterInit, FilterSizes
    <3>2. pixel \in [Threads -> Nat] /\ DOMAIN value = Image
      BY <2>2 DEF FilterInit
    <3> QED
      BY <2>1, <3>1, <3>2 DEF FilterInit, FilterTypes
  <2>4. InBatch /\ PassedIsCalculated
    <3>1. \A t \in Threads : pixel[t] = from(t)
      BY DEF FilterInit
    <3>2. \A t \in Threads, p \in Image : ~(from(t) <= p /\ p < from(t))
      BY <2>2 DEF Image
    <3> QED
      BY <2>2, <3>1, <3>2 DEF InBatch, PassedIsCalculated
  <2> QED
    BY <2>3, <2>4 DEF FilterInit, FilterInv, Unharmed
<1>2. ASSUME FilterInv, CreateThread PROVE FilterInv'
  <2>1. created' \in 0 .. threads_number
    BY <1>2 DEF FilterInv, FilterTypes, FilterSizes, CreateThread
  <2> QED
    BY <1>2, <2>1, ImageKept DEF FilterInv, FilterTypes, CreateThread
<1>3. ASSUME FilterInv, NEW t \in Threads, calculate(t) PROVE FilterInv'
  <2> USE <1>3
  <2> DEFINE n == pixel[t]
  <2>1. /\ UNCHANGED <<sizes, created, saved>> /\ n < to(t)
        /\ pixel' = [pixel EXCEPT ![t] = n + 1]
    BY DEF calculate
  <2>2. /\ Threads' = Threads /\ Image' = Image /\ FilterSizes' = FilterSizes
        /\ batch_size' = batch_size
        /\ UNCHANGED W /\ UNCHANGED H /\ UNCHANGED threads_number
        /\ BatchesFit' <=> BatchesFit
        /\ \A s : from(s)' = from(s) /\ to(s)' = to(s)
        /\ \A p : calculate_pixel(p)' = calculate_pixel(p)
    BY <2>1, SameIndices
  <2>3. /\ \A s \in Threads : from(s) \in Nat /\ to(s) \in Nat /\ pixel[s] \in Nat
        /\ pixel' \in [Threads -> Nat] /\ pixel'[t] = n + 1
        /\ \A s \in Threads : s # t => pixel'[s] = pixel[s]
    BY <2>1, Batches DEF FilterInv, FilterTypes
  <2>4. /\ DOMAIN value' = Image
        /\ \A p \in Image : value'[p] = IF p = n THEN calculate_pixel(p) ELSE value[p]
    BY DEF calculate, FilterInv, FilterTypes
  <2>5. FilterTypes'
    BY <2>1, <2>2, <2>3, <2>4 DEF FilterInv, FilterTypes
  <2>6. BatchesFit => behind' = {}
    <3>1. ASSUME BatchesFit PROVE n \in Image
      <4>1. to(t) <= H * W
        BY <2>2, <3>1, Batches DEF FilterInv, FilterTypes
      <4> QED
        BY <2>1, <2>3, <4>1, BatchSize DEF Image, FilterInv, FilterTypes
    <3> QED
      BY <3>1 DEF calculate, FilterInv
  <2>7. ASSUME behind' = {} PROVE Unharmed'
    <3>1. n \in Image /\ Unharmed
      BY <2>7 DEF calculate, FilterInv
    <3>2. InBatch'
      BY <2>1, <2>2, <2>3, <3>1 DEF Unharmed, InBatch
    <3>3. PassedIsCalculated'
      <4>1. ASSUME NEW s \in Threads, NEW p \in Image, from(s) <= p, p < pixel'[s]
            PROVE  value'[p] = calculate_pixel(p)
        <5>1. p = n \/ p < pixel[s]
          BY <2>3, <4>1 DEF Image
        <5> QED
          BY <2>4, <3>1, <4>1, <5>1 DEF Unharmed, PassedIsCalculated
      <4> QED
        BY <2>2, <4>1 DEF PassedIsCalculated
    <3>4. ASSUME NEW s \in Threads PROVE pixel'[s] <= H * W \/ pixel'[s] = from(s)
      <4>1. n + 1 <= H * W
        BY <2>3, <3>1, BatchSize DEF Image, FilterInv, FilterTypes
      <4> QED
        BY <2>3, <3>1, <4>1 DEF Unharmed
    <3>5. ~saved'
      BY <2>1, <2>3, <3>1 DEF Unharmed
    <3> QED
      BY <2>2, <3>2, <3>3, <3>4, <3>5 DEF Unharmed
  <2> QED
    BY <2>2, <2>5, <2>6, <2>7 DEF FilterInv
<1>4. ASSUME FilterInv, save_output PROVE FilterInv'
  BY <1>4, ImageKept DEF FilterInv, FilterTypes, save_output
<1>5. ASSUME FilterInv, OverwriteBatches PROVE FilterInv'
  <2>1. UNCHANGED <<sizes, created, behind, saved>> /\ behind # {}
    BY <1>5 DEF OverwriteBatches
  <2>2. \A t \in Threads : to(t) \in Nat
    BY <1>5, Batches DEF FilterInv, FilterTypes
  <2>3. pixel' \in [Threads -> Nat] /\ DOMAIN value' = Image
    BY <1>5, <2>2 DEF OverwriteBatches
  <2> QED
    BY <1>5, <2>1, <2>3, SameIndices DEF FilterInv, FilterTypes
<1>6. ASSUME FilterInv, UNCHANGED filterVars PROVE FilterInv'
  BY <1>6, ImageKept DEF FilterInv, FilterTypes, filterVars
<1>7. FilterInv /\ [FilterNext]_filterVars => FilterInv'
  BY <1>2, <1>3, <1>4, <1>5, <1>6 DEF FilterNext
<1> QED
  BY <1>1, <1>7, PTL DEF FilterSpec

\* Whatever the sizes and the number of threads: something behind the output is written
\* exactly if the batches before the last do not fit into the image; if nothing is, the
\* threads never share a pixel, and the output is right once it is saved.
THEOREM FilterAlwaysRight == FilterSpec => []FilterRight
<1>1. FilterInv => FilterRight
  <2> SUFFICES ASSUME FilterInv PROVE FilterRight
    OBVIOUS
  <2>1. FilterSizes
    BY DEF FilterInv, FilterTypes
  <2>2. /\ \A t \in Threads : from(t) \in Nat /\ to(t) \in Nat /\ pixel[t] \in Nat
        /\ \A s, t \in Threads : s < t => to(s) <= from(t)
        /\ \A p \in Image : \E t \in Threads : from(t) <= p /\ p < to(t)
    BY <2>1, Batches DEF FilterInv, FilterTypes
  <2>3. ASSUME saved, behind = {} PROVE BatchesFit
    <3>1. SUFFICES ASSUME ~BatchesFit PROVE FALSE
      OBVIOUS
    <3>2. PICK t \in Threads : to(t) > H * W /\ from(t) < to(t)
      BY <2>1, <3>1, Batches
    <3>3. pixel[t] >= to(t) /\ (pixel[t] <= H * W \/ pixel[t] = from(t))
      BY <2>3 DEF FilterInv, Unharmed
    <3> QED
      BY <2>1, <2>2, <3>2, <3>3, BatchSize
  <2>4. ASSUME saved, behind = {}, NEW p \in Image PROVE value[p] = calculate_pixel(p)
    <3>1. PICK t \in Threads : from(t) <= p /\ p < to(t)
      BY <2>2
    <3>2. p < pixel[t]
      BY <2>2, <2>4, <3>1 DEF FilterInv, Unharmed, Image
    <3> QED
      BY <2>4, <3>1, <3>2 DEF FilterInv, Unharmed, PassedIsCalculated
  <2>5. ASSUME behind = {}, NEW s \in Threads, NEW t \in Threads, s < t
        PROVE  (from(s) .. pixel[s] - 1) \cap (from(t) .. pixel[t] - 1) = {}
    <3>1. pixel[s] <= from(t) \/ pixel[s] = from(s)
      BY <2>2, <2>5 DEF FilterInv, Unharmed, InBatch
    <3> QED
      BY <2>2, <3>1
  <2>6. saved /\ behind = {} =>
          \A p \in Image :
            LET center == (C + 1) \div 2
            IN  value[p] = [o \in Offsets |->
                   Nearest((p % W) + o[1] - center, (p \div W) + o[2] - center)]
    BY <2>1, <2>4, WindowIsRight
  <2> QED
    BY <2>3, <2>5, <2>6 DEF FilterRight, FilterInv
<1> QED
  BY <1>1, FilterInvariance, PTL

-----------------------------------------------------------------------------
(* StopResume: the invariant.                                              *)

StopTypes ==
  /\ stop_main \in {"fork", "store", "loop", "pause", "ended", "massacre"}
  /\ waiting \in BOOLEAN /\ missed \in BOOLEAN /\ escaped \in BOOLEAN
  /\ forks \in 0 .. MaxForks
  /\ child_process_id \in 0 .. forks
  /\ stop_child \in [1 .. MaxForks ->
                       {"none", "fresh", "half", "script", "stopped", "done", "dead"}]

\* Only the last script can be alive, and none is when the next one is forked.
LastOnly ==
  /\ Alive \subseteq {forks}
  /\ stop_main = "fork" => Alive = {}
  /\ waiting /\ stop_main \in {"loop", "pause"} => Alive = {}
  /\ stop_main = "ended" => escaped \/ Alive = {}

\* What the parent knows of its scripts.
KnowsItsScript ==
  /\ stop_main \in {"fork", "loop", "pause"} => child_process_id = forks
  /\ stop_main = "store" => child_process_id = forks - 1 /\ stop_child[forks] # "dead"
  /\ stop_main \in {"store", "loop", "pause"} => forks >= 1
  /\ stop_main = "loop" => missed \/ stop_child[forks] # "dead"
  /\ stop_main = "pause" /\ ~waiting => missed \/ stop_child[forks] # "dead"

StopInv == StopTypes /\ LastOnly /\ KnowsItsScript

\* Scripts run one after the other, and the parent knows the one that runs except
\* between fork() and the assignment of its result.
THEOREM StopInvariance == StopSpec => []StopInv
<1> USE MaxForksAssumption
<1>1. StopInit => StopInv
  <2> SUFFICES ASSUME StopInit PROVE StopInv
    OBVIOUS
  <2>1. Alive = {}
    BY DEF StopInit, Alive, Forked
  <2>2. StopTypes
    <3>1. forks \in 0 .. MaxForks /\ child_process_id \in 0 .. forks
      BY DEF StopInit
    <3>2. stop_child \in [1 .. MaxForks -> {"none", "fresh", "half", "script", "stopped", "done", "dead"}]
      BY DEF StopInit
    <3> QED
      BY <3>1, <3>2 DEF StopInit, StopTypes
  <2>3. LastOnly
    BY <2>1 DEF LastOnly
  <2>4. KnowsItsScript
    BY DEF StopInit, KnowsItsScript
  <2> QED
    BY <2>2, <2>3, <2>4 DEF StopInv
<1>2. ASSUME StopInv, ForkScript PROVE StopInv'
  <2>1. StopTypes'
    <3>1. forks' \in 1 .. MaxForks /\ child_process_id' \in 0 .. forks'
      BY <1>2 DEF StopInv, StopTypes, ForkScript
    <3>2. stop_child' \in [1 .. MaxForks -> {"none", "fresh", "half", "script", "stopped", "done", "dead"}]
      BY <1>2, <3>1 DEF StopInv, StopTypes, ForkScript
    <3>3. stop_main' = "store" /\ waiting' \in BOOLEAN /\ missed' \in BOOLEAN /\ escaped' \in BOOLEAN
      BY <1>2 DEF StopInv, StopTypes, ForkScript, Continues
    <3>4. forks' \in 0 .. MaxForks
      BY <3>1
    <3> QED
      BY <3>1, <3>2, <3>3, <3>4 DEF StopTypes
  <2>2. stop_main' = "store" /\ stop_child'[forks'] = "fresh" /\ waiting' = FALSE /\ forks' = forks + 1
    BY <1>2 DEF StopInv, StopTypes, ForkScript, Continues
  <2>3. Alive' \subseteq {forks'}
    <3>1. Alive = {}
      BY <1>2 DEF StopInv, LastOnly, ForkScript, Continues
    <3>2. ASSUME NEW c \in Alive', c # forks' PROVE c \in Alive
      BY <1>2, <3>2 DEF StopInv, StopTypes, ForkScript, Alive, Forked
    <3> QED
      BY <3>1, <3>2
  <2>4. LastOnly'
    BY <2>2, <2>3 DEF LastOnly
  <2>5. KnowsItsScript'
    BY <1>2, <2>2 DEF StopInv, StopTypes, KnowsItsScript, ForkScript, Continues
  <2> QED
    BY <2>1, <2>4, <2>5 DEF StopInv
<1>3. ASSUME StopInv, StoreChild \/ CallPause PROVE StopInv'
  <2>1. Alive' = Alive
    BY <1>3 DEF StoreChild, CallPause, Alive, Forked
  <2> QED
    BY <1>3, <2>1 DEF StopInv, StopTypes, LastOnly, KnowsItsScript, StoreChild, CallPause,
                      Continues
<1>4. ASSUME StopInv, ChildGoesOn PROVE StopInv'
  <2>1. StopTypes'
    BY <1>4 DEF StopInv, StopTypes, ChildGoesOn
  <2>2. Alive' \subseteq Alive
    BY <1>4 DEF StopInv, StopTypes, ChildGoesOn, Alive, Forked
  <2>3. \A c \in Forked : stop_child'[c] = "dead" => stop_child[c] = "dead"
    BY <1>4 DEF StopInv, StopTypes, ChildGoesOn, Forked
  <2>4. stop_main \in {"store", "loop", "pause"} => forks \in Forked
    BY <1>4 DEF StopInv, StopTypes, KnowsItsScript, Forked
  <2>5. LastOnly'
    BY <1>4, <2>2 DEF StopInv, LastOnly, ChildGoesOn
  <2>6. KnowsItsScript'
    BY <1>4, <2>3, <2>4 DEF StopInv, KnowsItsScript, ChildGoesOn
  <2> QED
    BY <2>1, <2>5, <2>6 DEF StopInv
<1>5. ASSUME StopInv, handle_SIGTSTP PROVE StopInv'
  <2> USE <1>5
  <2>1. PICK toGroup \in BOOLEAN :
          LET stopping == Handling({"fresh"}, toGroup)
              resuming == Handling({"stopped"}, toGroup)
              victims  == KnownTo(stopping) \cup (IF waiting THEN {} ELSE {child_process_id})
          IN  /\ stop_child' = [c \in DOMAIN stop_child |->
                             AfterKill(victims, c,
                               IF c \in stopping THEN "stopped"
                               ELSE IF c \in resuming THEN "fresh" ELSE stop_child[c])]
              /\ waiting' = ~waiting
              /\ stop_main' = IF KillsAll(victims) THEN "massacre"
                         ELSE IF waiting /\ stop_main = "pause" THEN "fork" ELSE stop_main
              /\ missed' = (missed \/ (~waiting /\ stop_main = "loop"))
    BY DEF handle_SIGTSTP
  <2> DEFINE stopping == Handling({"fresh"}, toGroup)
             resuming == Handling({"stopped"}, toGroup)
             victims  == KnownTo(stopping) \cup (IF waiting THEN {} ELSE {child_process_id})
  <2>2. UNCHANGED <<child_process_id, forks, escaped>>
    BY DEF handle_SIGTSTP
  <2>3. stopping \subseteq Alive /\ resuming \subseteq Alive
    BY DEF Handling, Alive
  <2>4. DOMAIN stop_child = 1 .. MaxForks /\ Forked \subseteq 1 .. MaxForks
    BY DEF StopInv, StopTypes, Forked
  <2>5. /\ \A c \in 1 .. MaxForks :
             stop_child'[c] = AfterKill(victims, c,
                               IF c \in stopping THEN "stopped"
                               ELSE IF c \in resuming THEN "fresh" ELSE stop_child[c])
        /\ stop_child' = [c \in 1 .. MaxForks |-> stop_child'[c]]
    BY <2>1, <2>4
  <2>6. Alive' \subseteq Alive
    BY <2>2, <2>3, <2>4, <2>5 DEF Alive, Forked, AfterKill
  <2>7. StopTypes'
    <3>1. stop_child' \in [1 .. MaxForks -> {"none", "fresh", "half", "script", "stopped", "done", "dead"}]
      BY <2>5 DEF StopInv, StopTypes, AfterKill
    <3> QED
      BY <2>1, <2>2, <3>1 DEF StopInv, StopTypes
  <2>8. stop_main = "store" => stop_child'[forks] # "dead"
    <3>1. SUFFICES ASSUME stop_main = "store" PROVE stop_child'[forks] # "dead"
      OBVIOUS
    <3>2. child_process_id = forks - 1 /\ stop_child[forks] # "dead" /\ forks \in 1 .. MaxForks
      BY <3>1 DEF StopInv, StopTypes, KnowsItsScript
    <3>3. stopping \subseteq {forks}
      BY <2>3 DEF StopInv, LastOnly
    <3>4. forks \notin victims
      BY <3>2, <3>3 DEF KnownTo
    <3> QED
      BY <2>5, <3>2, <3>4 DEF AfterKill
  <2>9. ~waiting /\ stop_main \in {"loop", "pause"} => Alive' = {}
    <3>1. SUFFICES ASSUME ~waiting, stop_main \in {"loop", "pause"} PROVE Alive' = {}
      OBVIOUS
    <3>2. forks \in victims
      BY <3>1 DEF StopInv, KnowsItsScript
    <3>3. SUFFICES ASSUME NEW c \in Alive' PROVE FALSE
      OBVIOUS
    <3>4. c = forks /\ c \in Alive
      BY <2>6 DEF StopInv, LastOnly
    <3>5. c \in 1 .. MaxForks
      BY <2>2, <2>4, <3>3 DEF Alive, Forked
    <3>6. stop_child'[c] = "dead"
      BY <2>5, <3>2, <3>4, <3>5 DEF AfterKill
    <3> QED
      BY <3>3, <3>6 DEF Alive
  <2>10. stop_main' = stop_main \/ stop_main' = "massacre" \/ (stop_main' = "fork" /\ waiting /\ stop_main = "pause")
    BY <2>1
  <2>11. waiting' = ~waiting /\ (~waiting /\ stop_main = "loop" => missed') /\ (missed => missed')
    BY <2>1
  <2>12. waiting /\ stop_main = "pause" => stop_main' # "pause"
    BY <2>1
  <2> HIDE DEF victims, stopping, resuming
  <2>13. LastOnly'
    BY <2>2, <2>6, <2>9, <2>10, <2>11 DEF StopInv, StopTypes, LastOnly, handle_SIGTSTP, ParentRuns
  <2>14. waiting /\ stop_main = "loop" /\ stop_child[forks] # "dead" => stop_child'[forks] # "dead"
    <3>1. SUFFICES ASSUME waiting, stop_main = "loop", stop_child[forks] # "dead"
                   PROVE  stop_child'[forks] # "dead"
      OBVIOUS
    <3>2. stopping = {} /\ resuming = {} /\ forks \in 1 .. MaxForks
      BY <2>3, <3>1 DEF StopInv, StopTypes, LastOnly, KnowsItsScript
    <3>3. victims = {}
      BY <3>1, <3>2 DEF KnownTo, victims
    <3> QED
      BY <2>5, <3>1, <3>2, <3>3 DEF AfterKill
  <2>15. KnowsItsScript'
    BY <2>2, <2>8, <2>10, <2>11, <2>12, <2>14 DEF StopInv, StopTypes, KnowsItsScript
  <2> QED
    BY <2>7, <2>13, <2>15 DEF StopInv
<1>6. ASSUME StopInv, stop_handle_SIGINT PROVE StopInv'
  <2> USE <1>6
  <2>1. PICK toGroup \in BOOLEAN :
          LET leaving == Handling({"fresh", "half", "stopped"}, toGroup)
              victims == KnownTo({c \in leaving : stop_child[c] # "stopped"})
                         \cup (IF waiting THEN {} ELSE {child_process_id})
          IN  /\ stop_child' = [c \in DOMAIN stop_child |->
                             AfterKill(victims, c, IF c \in leaving THEN "dead" ELSE stop_child[c])]
              /\ stop_main' = IF KillsAll(victims) THEN "massacre" ELSE "ended"
              /\ escaped' = (stop_main = "store")
    BY DEF stop_handle_SIGINT
  <2> DEFINE leaving == Handling({"fresh", "half", "stopped"}, toGroup)
             victims == KnownTo({c \in leaving : stop_child[c] # "stopped"})
                        \cup (IF waiting THEN {} ELSE {child_process_id})
  <2>2. UNCHANGED <<waiting, child_process_id, forks, missed>> /\ stop_main' \in {"massacre", "ended"}
    BY <2>1 DEF stop_handle_SIGINT
  <2>3. DOMAIN stop_child = 1 .. MaxForks /\ Forked \subseteq 1 .. MaxForks
    BY DEF StopInv, StopTypes, Forked
  <2>4. /\ \A c \in 1 .. MaxForks :
             stop_child'[c] = AfterKill(victims, c, IF c \in leaving THEN "dead" ELSE stop_child[c])
        /\ stop_child' = [c \in 1 .. MaxForks |-> stop_child'[c]]
    BY <2>1, <2>3
  <2>5. ~waiting => child_process_id \in victims
    OBVIOUS
  <2> HIDE DEF leaving, victims
  <2>6. Alive' \subseteq Alive
    BY <2>2, <2>3, <2>4 DEF Alive, Forked, AfterKill
  <2>7. StopTypes'
    <3>1. stop_child' \in [1 .. MaxForks -> {"none", "fresh", "half", "script", "stopped", "done", "dead"}]
      BY <2>4 DEF StopInv, StopTypes, AfterKill
    <3>2. escaped' \in BOOLEAN
      BY <2>1
    <3> QED
      BY <2>2, <3>1, <3>2 DEF StopInv, StopTypes
  <2>8. escaped' \/ Alive' = {}
    <3>1. SUFFICES ASSUME stop_main # "store" PROVE Alive' = {}
      BY <2>1
    <3>2. stop_main \in {"fork", "loop", "pause"}
      BY <3>1 DEF StopInv, StopTypes, stop_handle_SIGINT, ParentRuns
    <3>3. CASE Alive = {}
      BY <2>6, <3>3
    <3>4. CASE Alive # {}
      <4>1. ~waiting /\ stop_main \in {"loop", "pause"} /\ child_process_id = forks
        BY <3>2, <3>4 DEF StopInv, LastOnly, KnowsItsScript
      <4>2. ASSUME NEW c \in Alive' PROVE FALSE
        <5>1. c = forks /\ c \in Alive /\ c \in 1 .. MaxForks
          BY <2>3, <2>6, <4>2 DEF StopInv, LastOnly, Alive
        <5>2. stop_child'[c] = "dead"
          BY <2>4, <2>5, <4>1, <5>1 DEF AfterKill
        <5> QED
          BY <4>2, <5>2 DEF Alive
      <4> QED
        BY <4>2
    <3> QED
      BY <3>3, <3>4
  <2>9. LastOnly'
    BY <2>2, <2>6, <2>8 DEF StopInv, LastOnly
  <2>10. KnowsItsScript'
    BY <2>2 DEF KnowsItsScript
  <2> QED
    BY <2>7, <2>9, <2>10 DEF StopInv
<1>7. ASSUME StopInv, UNCHANGED stopVars PROVE StopInv'
  BY <1>7 DEF StopInv, StopTypes, LastOnly, KnowsItsScript, Alive, Forked, stopVars
<1> QED
  BY <1>1, <1>2, <1>3, <1>4, <1>5, <1>6, <1>7, PTL DEF StopSpec, StopNext

\* At most one script at a time, and the terminal is obeyed but for the two windows.
THEOREM TerminalAlwaysObeyed == StopSpec => []TerminalObeyed
<1>1. StopInv => TerminalObeyed
  <2> SUFFICES ASSUME StopInv PROVE TerminalObeyed
    OBVIOUS
  <2>1. Cardinality(Alive) <= 1
    <3>1. Alive = {} \/ Alive = {forks}
      BY DEF StopInv, LastOnly
    <3>2. Cardinality(Alive) = 0 \/ Cardinality(Alive) = 1
      BY <3>1, FS_EmptySet, FS_Singleton, Zenon
    <3> QED
      BY <3>2
  <2>2. waiting /\ ParentRuns => stop_main = "store" \/ Alive = {}
    BY DEF StopInv, StopTypes, LastOnly, ParentRuns
  <2> QED
    BY <2>1, <2>2 DEF StopInv, LastOnly, KnowsItsScript, TerminalObeyed
<1> QED
  BY <1>1, StopInvariance, PTL

-----------------------------------------------------------------------------
(* SignalEcho: what the counters say at any moment.                        *)

USE MaxLAssumption

EchoWaiting == {"test", "enter", "suspended"}

\* Where the parent can be; nothing is sent, counted or pending before it sends.
EchoStart ==
  /\ MainRuns => echo_main \in {"sleep", "send"} \cup (IF TYPE = 2 THEN {"count", "suspended"}
                                                              ELSE EchoWaiting)
  /\ echo_main \in {"sleep", "killed"} \/ (TYPE = 2 /\ echo_main = "send") =>
       /\ posted = 0 /\ counter_main_sent = 0 /\ counter_main_received = 0
       /\ to_child = 0 /\ to_main = 0
  /\ echo_main \in {"sleep", "killed"} => ~terminate
  /\ MainRuns => ~interrupted

\* While the parent runs, the child is told to end after the last message only, and
\* then it ends with all of them handled, if it was ready in time for the first.
EchoTermination ==
  /\ MainRuns /\ (terminate \/ echo_child = "leave") => TYPE # 2 /\ echo_main \in EchoWaiting
  /\ MainRuns /\ prompt /\ echo_main # "sleep" => echo_child \notin {"start", "half"}
  /\ MainRuns /\ prompt /\ echo_child \in {"leave", "dead"} =>
       TYPE # 2 /\ echo_main \in EchoWaiting /\ to_child = 0

\* TYPE 2: one message or its echo is under way.  The counter that decides when to stop
\* is the number of echoes until the first message is counted.  The counting may lose
\* increments, no more than there were echoes before it, which are no more than L.
OneUnderWay ==
  /\ TYPE = 2 /\ echo_main \in {"count", "suspended"} =>
       to_main + to_child = 1 /\ posted = counter_main_received + 1
  /\ TYPE = 2 /\ echo_main = "count" =>
       counter_main_sent = counter_main_received /\ counter_main_sent <= L
  /\ TYPE = 2 /\ echo_main = "suspended" =>
       /\ 1 <= counter_main_sent
       /\ counter_main_sent <= counter_main_received + 1
       /\ counter_main_received <= counter_main_sent + L - 1
       /\ counter_main_sent <= L \/ (counter_main_sent = L + 1 /\ counter_main_received <= L)

EchoInv == EchoTypeOK /\ EchoStart /\ EchoTermination /\ NothingLost /\ OneUnderWay /\ SendsEnough

-----------------------------------------------------------------------------
(* SignalEcho: the invariant is preserved.                                 *)

LEMMA EchoInitially == EchoInit => EchoInv
<1> USE DEF EchoInit, MainRuns
<1>1. ASSUME EchoInit PROVE EchoTypeOK
  BY <1>1 DEF EchoTypeOK
<1>2. ASSUME EchoInit PROVE EchoStart /\ EchoTermination /\ OneUnderWay /\ SendsEnough
  BY <1>2 DEF EchoStart, EchoTermination, OneUnderWay, SendsEnough
<1>3. ASSUME EchoInit PROVE NothingLost
  BY <1>3 DEF NothingLost
<1> QED
  BY <1>1, <1>2, <1>3 DEF EchoInv

LEMMA EchoMainPreserves ==
  ASSUME EchoInv, MainStep
  PROVE  EchoInv'
<1> USE DEF EchoInv, EchoTypeOK, EchoStart, EchoTermination, NothingLost, OneUnderWay, SendsEnough,
            MainRuns, EchoWaiting, arguments, of_child, pending, MainGoes
<1>1. CASE SetHandlers
  BY <1>1 DEF SetHandlers
<1>2. CASE SendInARow
  BY <1>2 DEF SendInARow, PostMessage, OneMore
<1>3. CASE SendTermination
  BY <1>3 DEF SendTermination
<1>4. CASE TestCounter
  BY <1>4 DEF TestCounter
<1>5. CASE Suspend
  BY <1>5 DEF Suspend
<1>6. CASE SendFirst
  BY <1>6 DEF SendFirst, PostMessage, OneMore
<1>7. CASE CountFirst
  BY <1>7 DEF CountFirst
<1> QED
  BY <1>1, <1>2, <1>3, <1>4, <1>5, <1>6, <1>7 DEF MainStep

LEMMA EchoHandlersPreserve ==
  ASSUME EchoInv, Echo
  PROVE  EchoInv'
<1> USE DEF EchoInv, EchoTypeOK, EchoStart, EchoTermination, NothingLost, OneUnderWay, SendsEnough,
            MainRuns, EchoWaiting, arguments, of_child
<1>1. CASE handle_type1
  BY <1>1 DEF handle_type1
<1>2. CASE HandleEcho2(counter_main_sent >= L, EndProgram)
  BY <1>2 DEF HandleEcho2, EndProgram
<1>3. CASE HandleEcho2(counter_main_sent < L, SendNext)
  BY <1>3 DEF HandleEcho2, SendNext, PostMessage, OneMore
<1> QED
  BY <1>1, <1>2, <1>3 DEF Echo, handle_type2

LEMMA EchoInterruptPreserves ==
  ASSUME EchoInv, echo_handle_SIGINT \/ InterruptedEarly
  PROVE  EchoInv'
<1> USE DEF EchoInv, EchoTypeOK, EchoStart, EchoTermination, NothingLost, OneUnderWay, SendsEnough,
            MainRuns, arguments, pending
<1>1. CASE echo_handle_SIGINT
  BY <1>1 DEF echo_handle_SIGINT
<1>2. CASE InterruptedEarly
  BY <1>2 DEF InterruptedEarly
<1> QED
  BY <1>1, <1>2

LEMMA EchoChildPreserves ==
  ASSUME EchoInv, EchoChild
  PROVE  EchoInv'
<1>0. ASSUME handle_TER_SIGNAL PROVE EchoTypeOK'
  <2>1. terminate' \in BOOLEAN
    BY <1>0 DEF handle_TER_SIGNAL
  <2>2. counter_child_received' \in Nat /\ echo_child' \in {"start", "half", "ready", "leave", "dead"}
    BY <1>0 DEF handle_TER_SIGNAL, EchoInv, EchoTypeOK
  <2>3. UNCHANGED <<arguments, of_main, to_child, to_main, counter_child_sent, interrupted>>
    BY <1>0 DEF handle_TER_SIGNAL
  <2> QED
    BY <2>1, <2>2, <2>3 DEF EchoInv, EchoTypeOK, arguments, of_main
<1> USE DEF EchoInv, EchoTypeOK, EchoStart, EchoTermination, NothingLost, OneUnderWay, SendsEnough,
            MainRuns, EchoWaiting, arguments, of_main, pending
<1>1. CASE SetChildHandler
  BY <1>1 DEF SetChildHandler
<1>2. CASE SignalTooEarly
  BY <1>2 DEF SignalTooEarly
<1>3. CASE handle_MSG_SIGNAL
  BY <1>3 DEF handle_MSG_SIGNAL, OneMore
<1>4. CASE handle_TER_SIGNAL
  <2> USE <1>4 DEF handle_TER_SIGNAL
  <2>1. EchoStart' /\ EchoTermination'
    OBVIOUS
  <2>2. NothingLost' /\ OneUnderWay' /\ SendsEnough'
    OBVIOUS
  <2> QED
    BY <1>0, <2>1, <2>2
<1>5. CASE ChildExits
  BY <1>5 DEF ChildExits
<1> QED
  BY <1>1, <1>2, <1>3, <1>4, <1>5 DEF EchoChild

LEMMA EchoPreserved == EchoInv /\ [EchoNext]_echoVars => EchoInv'
<1>1. ASSUME EchoInv, UNCHANGED echoVars PROVE EchoInv'
  BY <1>1 DEF EchoInv, EchoTypeOK, EchoStart, EchoTermination, NothingLost, OneUnderWay, SendsEnough,
              MainRuns, EchoWaiting, echoVars, arguments, of_main, of_child, pending
<1> QED
  BY <1>1, EchoMainPreserves, EchoHandlersPreserve, EchoInterruptPreserves, EchoChildPreserves DEF EchoNext

\* IInv holds in every state of the two processes.
THEOREM EchoInvariance == EchoSpec => []EchoInv
  BY EchoInitially, EchoPreserved, PTL DEF EchoSpec

\* Whatever L is and however the handlers interrupt the code: with TYPE 2 and 3 every
\* message sent is counted back or under way, with TYPE 1 none is counted twice.
THEOREM AlwaysAccounted == EchoSpec => []Accounted
<1>1. EchoInv => Accounted
  BY DEF EchoInv, Accounted
<1> QED
  BY <1>1, EchoInvariance, PTL

\* At its end TYPE 2 has sent at least L messages, and at most 2 * L, however many
\* increments of its counter are lost.
THEOREM AlwaysSendsEnough == EchoSpec => []SendsEnough
<1>1. EchoInv => SendsEnough
  BY DEF EchoInv
<1> QED
  BY <1>1, EchoInvariance, PTL

HIDE MaxLAssumption

-----------------------------------------------------------------------------
(* PermitServer: permits follow the requests, and nobody is left behind.   *)

USE ArgumentsAssumption

\* The loop that creates the children, and what it has not got to yet.
PermitCreation ==
  /\ Running <=> ended = "no"
  /\ main \in {"store_pid", "store_status"} => i < N
  /\ Running => \A c \in Children : c > i \/ (c = i /\ main = "fork") => child[c] = "none"
  /\ timely /\ Running => \A c \in Children : c >= i => child[c] \in {"none", "asleep"}
  /\ Running => \A c \in Children :
       c < i \/ (c = i /\ main = "store_status") => c \in processes_ids

\* What the tables of a running parent say of a child is right, though it may be late.
PermitTables ==
  Running =>
    /\ \A c \in Children :
         /\ child[c] \in {"none", "asleep"} => processes_statuses[c] = 0
         /\ processes_statuses[c] = 1 => child[c] = "waiting" /\ c \in asked
         /\ processes_statuses[c] = -1 => child[c] = "ended"
    /\ main_status = 0 => \A c \in Children : child[c] = "ended"

\* A pending request is the only one of a child that waits and has not been noted.
Requests ==
  /\ NoRepeats(requests)
  /\ Running => \A c \in Children : c \in Held(requests) =>
                  child[c] = "waiting" /\ processes_statuses[c] = 0

Zombies == \A c \in Children : c \in zombies => child[c] = "ended"

\* Requests are accepted after the K-th only.
Accepting == main_status = 2 => Cardinality(asked) >= K

\* RequestsRemembered, in terms of the set of pending requests.
Remembered ==
  timely /\ Running => \A c \in Children :
    child[c] = "waiting" =>
      \/ c \in Held(requests)
      \/ processes_statuses[c] = 1 /\ main_status = 1 /\ count_processes(1) < K

PermitInv ==
  /\ TypeOK /\ PermitCreation /\ PermitTables /\ Requests /\ Zombies
  /\ Accepting /\ PermitsAfterK /\ Remembered /\ NobodyLeftBehind

-----------------------------------------------------------------------------
(* PermitServer: the operators of the model.                               *)

LEMMA FiniteChildren == IsFiniteSet(Children) /\ N - 1 \in Children
<1>1. N - 1 \in Children
  BY DEF Children
<1>2. IsFiniteSet(0 .. N - 1)
  BY FS_Interval
<1> QED
  BY <1>1, <1>2 DEF Children

LEMMA ChildrenAreNumbers ==
  /\ \A c \in Children : c \in Nat /\ c < N
  /\ \A n \in Nat : n < N => n \in Children
  BY DEF Children

\* A larger set of children has as many elements or more.
LEMMA MoreChildren ==
  ASSUME NEW S \in SUBSET Children, NEW T \in SUBSET Children, S \subseteq T
  PROVE  /\ Cardinality(S) \in Nat /\ Cardinality(T) \in Nat
         /\ Cardinality(S) <= Cardinality(T)
<1>1. IsFiniteSet(T) /\ IsFiniteSet(S)
  BY FiniteChildren, FS_Subset
<1> QED
  BY <1>1, FS_Subset, FS_CardinalityType

LEMMA RequestsMeaning ==
  ASSUME TypeOK, PermitTables, Remembered
  PROVE  RequestsRemembered
  BY DEF TypeOK, PermitTables, Remembered, RequestsRemembered, Held

-----------------------------------------------------------------------------
(* PermitServer: the invariant.                                            *)

LEMMA PermitInitially == Init => PermitInv
<1> SUFFICES ASSUME Init PROVE PermitInv
  OBVIOUS
<1> USE DEF Init
<1>1. TypeOK
  <2>1. << >> \in Seq(Children)
    BY EmptySeq
  <2>2. i \in 0 .. N /\ processes_statuses \in [Children -> -1 .. 2]
    OBVIOUS
  <2>3. child \in [Children -> {"none", "asleep", "waiting", "granted", "exiting", "ended"}]
    OBVIOUS
  <2>4. requests \in Seq(Children)
    BY <2>1
  <2>5. /\ processes_ids \subseteq Children /\ zombies \subseteq Children
        /\ runtime \subseteq Children /\ asked \subseteq Children
    OBVIOUS
  <2>6. main_status \in 0 .. 2 /\ main = "fork" /\ ended = "no"
    OBVIOUS
  <2>7. timely \in BOOLEAN /\ sigchld \in BOOLEAN
    OBVIOUS
  <2> HIDE DEF Init
  <2> QED
    BY <2>2, <2>3, <2>4, <2>5, <2>6, <2>7 DEF TypeOK
<1>2. PermitCreation /\ PermitTables /\ Zombies /\ Accepting /\ Remembered
  BY DEF PermitCreation, PermitTables, Zombies, Accepting, Remembered, Running
<1>3. Requests
  <2>1. DOMAIN requests = {}
    BY EmptySeq, LenProperties
  <2> QED
    BY <2>1 DEF Requests, NoRepeats, Held
<1>4. PermitsAfterK /\ NobodyLeftBehind
  BY DEF PermitsAfterK, NobodyLeftBehind
<1> QED
  BY <1>1, <1>2, <1>3, <1>4 DEF PermitInv

\* The loop, which disturbs neither the signals nor the children it has created.
LEMMA PermitLoopPreserves ==
  ASSUME PermitInv, Fork \/ StorePid \/ StoreStatus \/ Return
  PROVE  PermitInv'
<1> USE DEF PermitInv, own, signals, Running
<1>0. /\ i \in Nat
      /\ main \in {"store_pid", "store_status"} \/ (main = "fork" /\ i < N) =>
           i \in Children /\ i + 1 \in 0 .. N
  <2>1. i \in Nat
    BY DEF TypeOK
  <2>2. main \in {"store_pid", "store_status"} \/ (main = "fork" /\ i < N) => i < N
    BY DEF PermitCreation
  <2> QED
    BY <2>1, <2>2, ChildrenAreNumbers
<1>1. CASE Fork
  <2> USE <1>0, <1>1 DEF Fork
  <2>1. TypeOK'
    BY DEF TypeOK
  <2>2. PermitCreation'
    BY ChildrenAreNumbers DEF TypeOK, PermitCreation
  <2>3. PermitTables' /\ Requests' /\ Zombies'
    BY DEF TypeOK, PermitCreation, PermitTables, Requests, Zombies
  <2>4. Accepting' /\ PermitsAfterK' /\ Remembered' /\ NobodyLeftBehind'
    BY DEF TypeOK, PermitCreation, Accepting, PermitsAfterK, Remembered, NobodyLeftBehind,
           count_processes
  <2> QED
    BY <2>1, <2>2, <2>3, <2>4
<1>2. CASE StorePid
  <2> USE <1>0, <1>2 DEF StorePid
  <2>1. TypeOK'
    BY DEF TypeOK
  <2>2. PermitCreation'
    BY DEF TypeOK, PermitCreation
  <2>3. PermitTables' /\ Requests' /\ Zombies'
    BY DEF TypeOK, PermitTables, Requests, Zombies
  <2>4. Accepting' /\ PermitsAfterK' /\ Remembered' /\ NobodyLeftBehind'
    BY DEF TypeOK, Accepting, PermitsAfterK, Remembered, NobodyLeftBehind, count_processes,
           PermitCreation
  <2> QED
    BY <2>1, <2>2, <2>3, <2>4
<1>3. CASE StoreStatus
  <2> USE <1>0, <1>3 DEF StoreStatus
  <2>1. TypeOK'
    BY DEF TypeOK
  <2>2. PermitCreation'
    <3>1. i \in Nat /\ \A c \in Children : c \in Nat /\ (c >= i + 1 => c > i)
      BY ChildrenAreNumbers
    <3> QED
      BY <3>1 DEF PermitCreation
  <2>3. PermitTables' /\ Requests' /\ Zombies'
    BY DEF TypeOK, PermitTables, Requests, Zombies
  <2>4. Remembered'
    <3>1. timely => processes_statuses[i] = 0
      BY DEF PermitCreation, PermitTables
    <3>2. timely => processes_statuses' = processes_statuses
      BY <3>1 DEF TypeOK
    <3> QED
      BY <3>2 DEF Remembered, count_processes
  <2>5. Accepting' /\ PermitsAfterK' /\ NobodyLeftBehind'
    BY DEF TypeOK, Accepting, PermitsAfterK, NobodyLeftBehind, PermitCreation
  <2> QED
    BY <2>1, <2>2, <2>3, <2>4, <2>5
<1>4. CASE Return
  <2> USE <1>4 DEF Return, Ends
  <2>1. TypeOK'
    BY DEF TypeOK
  <2>2. PermitCreation' /\ PermitTables' /\ Requests' /\ Zombies' /\ Accepting' /\ PermitsAfterK'
    BY DEF PermitCreation, PermitTables, Requests, Zombies, Accepting, PermitsAfterK
  <2>3. Remembered' /\ NobodyLeftBehind'
    BY DEF Remembered, NobodyLeftBehind, PermitTables
  <2> QED
    BY <2>1, <2>2, <2>3
<1> QED
  BY <1>1, <1>2, <1>3, <1>4

\* Children whose request is pending or noted have not ended, and the dead are not noted.
LEMMA DeathsPreserve ==
  ASSUME PermitInv, handle_SIGCHLD
  PROVE  PermitInv'
<1> USE DEF PermitInv, handle_SIGCHLD, Running
<1>1. TypeOK'
  <2>1. processes_statuses' \in [Children -> -1 .. 2]
    BY DEF TypeOK
  <2>2. main_status' \in 0 .. 2
    BY DEF TypeOK
  <2> QED
    BY <2>1, <2>2 DEF TypeOK
<1>2. PermitCreation' /\ Requests' /\ Zombies'
  BY DEF TypeOK, PermitCreation, Requests, Zombies
<1>3. PermitTables'
  BY DEF TypeOK, PermitTables, Zombies
<1>4. Accepting' /\ PermitsAfterK' /\ NobodyLeftBehind'
  BY DEF TypeOK, PermitCreation, Accepting, PermitsAfterK, NobodyLeftBehind
<1>5. Remembered'
  <2>1. \A c \in Children : processes_statuses'[c] = 1 <=> processes_statuses[c] = 1
    BY DEF TypeOK, PermitTables, Zombies
  <2>2. count_processes(1)' = count_processes(1)
    BY <2>1 DEF count_processes
  <2>3. ASSUME NEW c \in Children, processes_statuses[c] = 1 PROVE main_status' = main_status
    BY <2>1, <2>3 DEF TypeOK
  <2> QED
    BY <2>1, <2>2, <2>3 DEF Remembered
<1> QED
  BY <1>1, <1>2, <1>3, <1>4, <1>5

LEMMA PermitsPreserve ==
  ASSUME PermitInv, handle_SIGRT
  PROVE  PermitInv'
<1> USE DEF PermitInv, handle_SIGRT, own, Running
<1>1. TypeOK'
  BY DEF TypeOK
<1> QED
  BY <1>1 DEF PermitCreation, PermitTables, Requests, Zombies, Accepting, PermitsAfterK, Remembered,
              NobodyLeftBehind, count_processes

LEMMA PermitInterruptPreserves ==
  ASSUME PermitInv, handle_SIGINT
  PROVE  PermitInv'
<1> USE DEF PermitInv, handle_SIGINT, Ends, signals, Running
<1>1. TypeOK'
  BY DEF TypeOK
<1>2. PermitCreation' /\ PermitTables' /\ Requests' /\ Remembered' /\ Accepting'
  BY DEF PermitCreation, PermitTables, Requests, Remembered, Accepting
<1>3. Zombies' /\ PermitsAfterK'
  BY DEF TypeOK, Zombies, PermitsAfterK
<1>4. NobodyLeftBehind'
  BY DEF TypeOK, NobodyLeftBehind, Killed, PermitTables
<1> QED
  BY <1>1, <1>2, <1>3, <1>4

\* A request is noted, and granted with all the others if enough have been noted.
LEMMA RequestPreserves ==
  ASSUME PermitInv, handle_SIGUSR1
  PROVE  PermitInv'
<1> DEFINE c       == Head(requests)
           marked  == [processes_statuses EXCEPT ![c] = 1]
           accept  == main_status = 2 \/ EnoughRequests(marked)
           granted == IF accept THEN Granted(marked, c) ELSE {}
           others  == Tail(requests)
<1>1. /\ c \in Children /\ others \in Seq(Children) /\ requests' = others
      /\ Held(requests) = Held(others) \cup {c}
      /\ NoRepeats(others) /\ c \notin Held(others)
  <2>1. requests \in Seq(Children) /\ requests # << >> /\ NoRepeats(requests)
    BY DEF PermitInv, TypeOK, Requests, handle_SIGUSR1
  <2>2. requests' = others
    BY DEF handle_SIGUSR1
  <2> QED
    BY <2>1, <2>2, HeldBeforeHead
<1>2. /\ Running /\ asked' = asked \cup {c}
      /\ UNCHANGED <<timely, sigchld, zombies, runtime>>
      /\ \/ c \notin processes_ids /\ Ends("unknown") /\ UNCHANGED <<own, child>>
         \/ /\ main_status' = IF accept THEN 2 ELSE main_status
            /\ processes_statuses' = [d \in Children |-> IF d \in granted THEN 2 ELSE marked[d]]
            /\ child' = [d \in Children |-> IF d \in granted THEN "granted" ELSE child[d]]
            /\ UNCHANGED <<main, ended, i, processes_ids>>
  BY DEF handle_SIGUSR1
<1>3. marked \in [Children -> -1 .. 2] /\ marked[c] = 1
      /\ \A d \in Children : d # c => marked[d] = processes_statuses[d]
  BY <1>1 DEF PermitInv, TypeOK
<1>4. granted = IF accept THEN {d \in Children : marked[d] = 1} ELSE {}
  BY DEF Granted
<1>5. child[c] = "waiting" /\ processes_statuses[c] = 0
  BY <1>1, <1>2 DEF PermitInv, Requests
<1>6. \A d \in Children : marked[d] = 1 => child[d] = "waiting" /\ d \in asked'
  BY <1>1, <1>2, <1>3, <1>5 DEF PermitInv, PermitTables
<1>7. /\ Cardinality(asked) \in Nat /\ Cardinality(asked') \in Nat
      /\ Cardinality(asked) <= Cardinality(asked')
  BY <1>1, <1>2, MoreChildren DEF PermitInv, TypeOK
<1>8. accept => Cardinality(asked') >= K
  <2>1. CASE main_status = 2
    BY <1>7, <2>1 DEF PermitInv, Accepting
  <2>2. CASE EnoughRequests(marked)
    <3> DEFINE noted == {d \in Children : marked[d] = 1}
    <3>1. noted \subseteq asked' /\ Cardinality(noted) >= K
      BY <1>6, <2>2 DEF EnoughRequests
    <3>2. noted \in SUBSET Children /\ asked' \in SUBSET Children
      BY <1>1, <1>2 DEF PermitInv, TypeOK
    <3> HIDE DEF noted
    <3>3. /\ Cardinality(noted) \in Nat /\ Cardinality(asked') \in Nat
          /\ Cardinality(noted) <= Cardinality(asked')
      BY <3>1, <3>2, MoreChildren
    <3> QED
      BY <3>1, <3>3
  <2> QED
    BY <2>1, <2>2
<1>9. main_status # 0
  BY <1>1, <1>2, <1>5 DEF PermitInv, PermitTables
<1>10. ~accept => Cardinality({d \in Children : marked[d] = 1}) < K
  <2>1. Cardinality({d \in Children : marked[d] = 1}) \in Nat
    BY MoreChildren
  <2> QED
    BY <2>1 DEF EnoughRequests
<1> HIDE DEF c, marked, accept, granted, others
<1>11. CASE c \notin processes_ids /\ Ends("unknown") /\ UNCHANGED <<own, child>>
  <2>0. ~timely
    <3>1. timely => ~(c >= i)
      BY <1>1, <1>2, <1>5 DEF PermitInv, PermitCreation
    <3>2. ~(c < i)
      BY <1>1, <1>2, <1>11 DEF PermitInv, PermitCreation
    <3>3. c \in Int /\ i \in Int
      BY <1>1, ChildrenAreNumbers DEF PermitInv, TypeOK
    <3> QED
      BY <3>1, <3>2, <3>3
  <2> USE <1>11 DEF Ends, own, PermitInv, Running
  <2>1. TypeOK'
    BY <1>1, <1>2 DEF TypeOK
  <2>2. PermitCreation' /\ PermitTables' /\ Requests' /\ Zombies' /\ Remembered' /\ NobodyLeftBehind'
    BY <1>1, <1>2, <2>0 DEF PermitCreation, PermitTables, Requests, Zombies, Remembered,
                            NobodyLeftBehind
  <2>3. Accepting' /\ PermitsAfterK'
    BY <1>7, ArgumentsAssumption DEF Accepting, PermitsAfterK
  <2> QED
    BY <2>1, <2>2, <2>3
<1>12. CASE /\ main_status' = IF accept THEN 2 ELSE main_status
            /\ processes_statuses' = [d \in Children |-> IF d \in granted THEN 2 ELSE marked[d]]
            /\ child' = [d \in Children |-> IF d \in granted THEN "granted" ELSE child[d]]
            /\ UNCHANGED <<main, ended, i, processes_ids>>
  <2> USE <1>12 DEF PermitInv, Running
  <2>1. TypeOK'
    BY <1>1, <1>2, <1>3 DEF TypeOK
  <2>2. \A d \in Children : d \in granted => child[d] = "waiting"
    BY <1>4, <1>6
  <2>3. PermitCreation' /\ Zombies' /\ NobodyLeftBehind'
    BY <1>2, <2>2 DEF TypeOK, PermitCreation, Zombies, NobodyLeftBehind
  <2>4. PermitTables'
    BY <1>2, <1>3, <1>4, <1>5, <1>6, <1>9, <2>2 DEF TypeOK, PermitTables
  <2>5. Requests'
    BY <1>1, <1>2, <1>3, <1>4 DEF TypeOK, Requests
  <2>6. Accepting' /\ PermitsAfterK'
    BY <1>4, <1>7, <1>8, <1>9, ArgumentsAssumption DEF TypeOK, Accepting, PermitsAfterK
  <2>7. Remembered'
    <3>1. CASE accept
      BY <1>1, <1>2, <1>3, <1>4, <3>1 DEF TypeOK, Remembered
    <3>2. CASE ~accept
      <4>1. processes_statuses' = marked /\ main_status' = main_status /\ child' = child
        BY <1>3, <1>4, <3>2 DEF TypeOK
      <4>2. count_processes(1)' < K
        BY <1>10, <3>2, <4>1 DEF count_processes
      <4>3. main_status \in {1, 2} /\ main_status # 2
        BY <1>9, <3>2 DEF TypeOK, accept
      <4> QED
        BY <1>1, <1>2, <1>3, <4>1, <4>2, <4>3 DEF Remembered
    <3> QED
      BY <3>1, <3>2
  <2> QED
    BY <2>1, <2>3, <2>4, <2>5, <2>6, <2>7
<1> QED
  BY <1>2, <1>11, <1>12

\* The steps of the children.
LEMMA PermitChildPreserves ==
  ASSUME PermitInv, NEW p \in Children, Child(p)
  PROVE  PermitInv'
<1> USE DEF PermitInv, own, Running
<1>1. ASSUME NEW c \in Children, Request(c) PROVE PermitInv'
  <2> USE <1>1 DEF Request
  <2>1. /\ Append(requests, c) \in Seq(Children)
        /\ Held(Append(requests, c)) = Held(requests) \cup {c}
        /\ NoRepeats(requests) /\ c \notin Held(requests) => NoRepeats(Append(requests, c))
    <3>1. requests \in Seq(Children)
      BY DEF TypeOK
    <3> QED
      BY <3>1, HeldAfterAppend
  <2>2. TypeOK'
    BY <2>1 DEF TypeOK
  <2>3. PermitCreation'
    BY ChildrenAreNumbers DEF TypeOK, PermitCreation
  <2>4. PermitTables' /\ Zombies' /\ Accepting' /\ PermitsAfterK' /\ NobodyLeftBehind'
    BY DEF TypeOK, PermitCreation, PermitTables, Zombies, Accepting, PermitsAfterK, NobodyLeftBehind
  <2>5. Requests'
    BY <2>1 DEF TypeOK, PermitTables, Requests
  <2>6. Remembered'
    BY <2>1 DEF TypeOK, Remembered, count_processes
  <2> QED
    BY <2>2, <2>3, <2>4, <2>5, <2>6
<1>2. ASSUME NEW c \in Children, handle_SIGUSR2(c) PROVE PermitInv'
  <2> USE <1>2 DEF handle_SIGUSR2
  <2>1. TypeOK'
    BY DEF TypeOK
  <2>2. PermitCreation' /\ PermitTables' /\ Zombies'
    BY DEF TypeOK, PermitCreation, PermitTables, Zombies
  <2>3. Requests' /\ Accepting' /\ PermitsAfterK'
    BY DEF TypeOK, Requests, Accepting, PermitsAfterK
  <2>4. Remembered' /\ NobodyLeftBehind'
    BY DEF TypeOK, PermitCreation, Remembered, NobodyLeftBehind, count_processes
  <2> QED
    BY <2>1, <2>2, <2>3, <2>4
<1>3. ASSUME NEW c \in Children, Exit(c) PROVE PermitInv'
  <2> USE <1>3 DEF Exit
  <2>1. TypeOK'
    BY DEF TypeOK
  <2>2. PermitCreation' /\ PermitTables' /\ Zombies'
    BY DEF TypeOK, PermitCreation, PermitTables, Zombies
  <2>3. Requests' /\ Accepting' /\ PermitsAfterK'
    BY DEF TypeOK, Requests, Accepting, PermitsAfterK
  <2>4. Remembered' /\ NobodyLeftBehind'
    BY DEF TypeOK, PermitCreation, Remembered, NobodyLeftBehind, count_processes
  <2> QED
    BY <2>1, <2>2, <2>3, <2>4
<1> QED
  BY <1>1, <1>2, <1>3 DEF Child

LEMMA PermitPreserved == PermitInv /\ [Next]_vars => PermitInv'
<1>1. ASSUME PermitInv, UNCHANGED vars PROVE PermitInv'
  BY <1>1 DEF vars, own, signals, PermitInv, TypeOK, PermitCreation, PermitTables, Requests, Zombies,
              Accepting, PermitsAfterK, Remembered, NobodyLeftBehind, count_processes, Running
<1> QED
  BY <1>1, PermitLoopPreserves, DeathsPreserve, PermitsPreserve, RequestPreserves,
     PermitInterruptPreserves, PermitChildPreserves DEF Next, Handler

\* PermitInv holds in every state of the server and its children.
THEOREM PermitInvariance == Spec => []PermitInv
  BY PermitInitially, PermitPreserved, PTL DEF Spec

\* For any N and K: no permit before the K-th request, and none of a child that sleeps
\* until its entry is complete is forgotten, wherever the handlers come in.
THEOREM PermitsAlwaysFollowRequests == Spec => []PermitsFollowRequests
<1>1. PermitInv => PermitsFollowRequests
  BY RequestsMeaning DEF PermitInv, PermitsFollowRequests
<1> QED
  BY <1>1, PermitInvariance, PTL

\* No child of the parent is left when it returns or is interrupted, for any N and K; and
\* it ends in no other way if the children sleep until their entries are complete.
THEOREM NeverLeavesAChild == Spec => []NobodyLeftBehind
<1>1. PermitInv => NobodyLeftBehind
  BY DEF PermitInv
<1> QED
  BY <1>1, PermitInvariance, PTL

-----------------------------------------------------------------------------
(* Pipeline: the invariant.                                                *)

PipeTypes ==
  /\ cmdc \in Nat \ {0}
  /\ wants \in [Commands -> Nat]
  /\ parent \in {"pipe", "fork", "close", "wait", "failed", "ended"}
  /\ cmd_i \in Commands
  /\ state \in [Commands -> {"none", "runs", "exited"}]
  /\ pipes \in [Commands -> Nat]
  /\ DOMAIN held = Commands \cup {Parent}
  /\ taken \in [Commands -> Nat]
  /\ inHand \in [Commands -> BOOLEAN]

\* Has the command been started?
Started(c) ==
  parent \in {"wait", "ended"} \/ c < cmd_i \/ (parent = "close" /\ c = cmd_i)

\* What the parent has done, and what it has waited for.
InTurn ==
  /\ \A c \in Commands : state[c] = "none" <=> ~Started(c)
  /\ parent = "wait" => \A c \in Commands : c < cmd_i => state[c] = "exited"
  /\ parent = "ended" => \A c \in Commands : state[c] = "exited"

\* Who has a write end open: the command it is the output of, as long as it runs, and
\* the parent while it starts that command.  Later commands never get to see it.
WritersOnly ==
  /\ \A p \in DOMAIN held, c \in Commands : WriteEnd(c) \in held[p] =>
       \/ p = c /\ state[c] = "runs"
       \/ p = Parent /\ c = cmd_i /\ parent \in {"fork", "close"}
  /\ \A c \in Commands : state[c] = "runs" => {ReadEnd(c), WriteEnd(c)} \subseteq held[c]
  /\ parent = "fork" => {ReadEnd(cmd_i), WriteEnd(cmd_i)} \subseteq held[Parent]

\* What a command took is in the pipe behind it, in its hand, or was taken further.
Flow ==
  /\ \A c \in Commands : c > 0 =>
       taken[c - 1] = taken[c] + pipes[c - 1] + Count(inHand[c - 1])
  /\ \A c \in Commands : taken[c] <= wants[c]
  /\ \A c \in Commands : inHand[c] => state[c] = "runs" /\ ~IsLast(c)

AtEnd(c) == c > 0 /\ pipes[c - 1] = 0 /\ state[c - 1] = "exited"

\* Nobody exits but with what it wanted, or at the end of its input.
NoFalseEnd == \A c \in Commands : state[c] = "exited" => taken[c] = wants[c] \/ AtEnd(c)

PipeInvariant == PipeTypes /\ InTurn /\ WritersOnly /\ Flow /\ NoFalseEnd

LEMMA TwoEnds ==
  \A c, d : WriteEnd(c) # ReadEnd(d) /\ (WriteEnd(c) = WriteEnd(d) => c = d)
BY DEF WriteEnd, ReadEnd

LEMMA CommandNumbers ==
  ASSUME PipeTypes
  PROVE  /\ Commands \subseteq Nat /\ Parent \notin Commands /\ 0 \in Commands
         /\ \A c \in Commands : c < cmdc /\ (c > 0 => c - 1 \in Commands)
         /\ \A c \in Commands : IsLast(c) \/ c + 1 \in Commands
BY DEF PipeTypes, Commands, Parent, IsLast

LEMMA PipeStarts == PipeInit => PipeInvariant
<1> SUFFICES ASSUME PipeInit PROVE PipeInvariant
  OBVIOUS
<1>1. cmdc \in Nat \ {0} /\ Commands \subseteq Nat /\ 0 \in Commands
  BY PipelineAssumption DEF PipeInit, Commands
<1>2. wants \in [Commands -> Nat]
  BY <1>1, PipelineAssumption DEF PipeInit
<1>3. /\ \A c \in Commands : state[c] = "none" /\ pipes[c] = 0 /\ taken[c] = 0 /\ inHand[c] = FALSE
      /\ \A p \in DOMAIN held : held[p] = {}
  BY DEF PipeInit
<1>4. PipeTypes
  BY <1>1, <1>2 DEF PipeInit, PipeTypes
<1>5. InTurn /\ WritersOnly /\ NoFalseEnd
  BY <1>1, <1>3 DEF PipeInit, InTurn, WritersOnly, NoFalseEnd, Started
<1>6. Flow
  BY <1>2, <1>3, <1>4, CommandNumbers DEF Flow, Count
<1> QED
  BY <1>4, <1>5, <1>6 DEF PipeInvariant

\* The parent opens and closes ends.
LEMMA ParentChangesEnds ==
  ASSUME PipeInvariant, CreatePipe \/ ForkFails \/ GoOn
  PROVE  PipeInvariant'
<1> USE DEF PipeInvariant
<1>1. /\ UNCHANGED <<cmdc, wants, state, pipes, taken, inHand>>
      /\ \E ends : held' = [held EXCEPT ![Parent] = ends]
  BY DEF CreatePipe, ForkFails, GoOn, ParentGoes, commands, CloseWriteEnd
<1>2. Commands' = Commands
  BY <1>1 DEF Commands
<1>3. /\ Parent \in DOMAIN held /\ Parent \notin Commands
      /\ DOMAIN held' = DOMAIN held
      /\ \A c \in Commands : held'[c] = held[c]
      /\ \A p \in DOMAIN held : p # Parent => p \in Commands /\ held'[p] = held[p]
  BY <1>1, CommandNumbers DEF PipeTypes
<1>4. Flow' /\ NoFalseEnd'
  BY <1>1, <1>2 DEF Flow, NoFalseEnd, AtEnd, IsLast
<1>5. CASE CreatePipe
  <2>1. /\ parent = "pipe" /\ parent' = "fork" /\ cmd_i' = cmd_i
        /\ held'[Parent] = held[Parent] \cup {ReadEnd(cmd_i), WriteEnd(cmd_i)}
    BY <1>3, <1>5 DEF CreatePipe, ParentGoes
  <2>2. PipeTypes' /\ InTurn'
    BY <1>1, <1>2, <1>3, <2>1 DEF PipeTypes, InTurn, Started
  <2>3. WritersOnly'
    BY <1>1, <1>2, <1>3, <2>1, TwoEnds DEF PipeTypes, WritersOnly
  <2> QED
    BY <1>4, <2>2, <2>3
<1>6. CASE ForkFails
  <2>1. /\ parent = "fork" /\ parent' = "failed" /\ cmd_i' = cmd_i
        /\ held'[Parent] = {}
    BY <1>3, <1>6 DEF ForkFails, ParentGoes
  <2>2. PipeTypes' /\ InTurn'
    BY <1>1, <1>2, <1>3, <2>1 DEF PipeTypes, InTurn, Started
  <2>3. WritersOnly'
    BY <1>1, <1>2, <1>3, <2>1 DEF WritersOnly
  <2> QED
    BY <1>4, <2>2, <2>3
<1>7. CASE GoOn
  <2>1. /\ parent = "close"
        /\ held'[Parent] = held[Parent] \ {WriteEnd(cmd_i)}
        /\ \/ cmd_i = cmdc - 1 /\ parent' = "wait" /\ cmd_i' = 0
           \/ cmd_i # cmdc - 1 /\ parent' = "pipe" /\ cmd_i' = cmd_i + 1
    BY <1>3, <1>7 DEF GoOn, ParentGoes, CloseWriteEnd
  <2>2. cmd_i \in Commands /\ cmd_i' \in Commands
    BY <2>1, CommandNumbers DEF PipeTypes, IsLast
  <2>3. PipeTypes'
    BY <1>1, <1>2, <1>3, <2>1, <2>2 DEF PipeTypes
  <2>4. InTurn'
    <3>1. cmdc \in Nat /\ \A c \in Commands : c \in Nat /\ c < cmdc
      BY CommandNumbers DEF PipeTypes
    <3>2. ASSUME NEW c \in Commands PROVE Started(c) <=> Started(c)'
      <4>1. c \in Nat /\ cmd_i \in Nat /\ (cmd_i = cmdc - 1 => c <= cmd_i)
        BY <2>2, <3>1
      <4> QED
        BY <2>1, <4>1 DEF Started
    <3> QED
      BY <1>1, <1>2, <2>1, <2>2, <3>1, <3>2 DEF InTurn
  <2>5. WritersOnly'
    BY <1>1, <1>2, <1>3, <2>1, TwoEnds DEF WritersOnly
  <2> QED
    BY <1>4, <2>3, <2>4, <2>5
<1> QED
  BY <1>5, <1>6, <1>7

\* The child has what the parent has: no write end but its own.
LEMMA ForkInherits ==
  ASSUME PipeInvariant, ForkCommand
  PROVE  PipeInvariant'
<1> USE DEF PipeInvariant
<1>1. /\ UNCHANGED <<cmdc, wants, cmd_i, pipes, taken, inHand>>
      /\ parent = "fork" /\ parent' = "close"
      /\ held' = [held EXCEPT ![cmd_i] = held[Parent]]
      /\ state' = [state EXCEPT ![cmd_i] = "runs"]
  BY DEF ForkCommand, ParentGoes
<1>2. Commands' = Commands /\ cmd_i \in Commands /\ Parent \notin Commands
  BY <1>1, CommandNumbers DEF Commands, PipeTypes
<1>3. /\ DOMAIN held' = DOMAIN held
      /\ \A p \in DOMAIN held : held'[p] = IF p = cmd_i THEN held[Parent] ELSE held[p]
      /\ \A c \in Commands : state'[c] = IF c = cmd_i THEN "runs" ELSE state[c]
      /\ cmd_i \in DOMAIN held /\ Parent \in DOMAIN held
  BY <1>1, <1>2 DEF PipeTypes
<1>4. PipeTypes'
  BY <1>1, <1>2, <1>3 DEF PipeTypes
<1>5. state[cmd_i] = "none" /\ \A c \in Commands : c # cmd_i => (Started(c)' <=> Started(c))
  BY <1>1, <1>2, CommandNumbers DEF InTurn, Started
<1>6. InTurn'
  <2>1. cmd_i \in Nat /\ Started(cmd_i)'
    BY <1>1, <1>2, CommandNumbers DEF Started
  <2> QED
    BY <1>1, <1>2, <1>3, <1>5, <2>1 DEF InTurn
<1>7. WritersOnly'
  <2>1. /\ \A c \in Commands : WriteEnd(c) \in held[Parent] => c = cmd_i
        /\ {ReadEnd(cmd_i), WriteEnd(cmd_i)} \subseteq held[Parent]
    BY <1>1, <1>2, <1>3 DEF WritersOnly
  <2>2. ASSUME NEW p \in DOMAIN held, NEW c \in Commands, WriteEnd(c) \in held'[p]
        PROVE  \/ p = c /\ state'[c] = "runs"
               \/ p = Parent /\ c = cmd_i
    <3>1. CASE p = cmd_i
      <4>1. WriteEnd(c) \in held[Parent]
        BY <1>3, <2>2, <3>1
      <4> QED
        BY <1>2, <1>3, <2>1, <3>1, <4>1
    <3>2. CASE p # cmd_i
      <4>1. WriteEnd(c) \in held[p]
        BY <1>3, <2>2, <3>2
      <4>2. (p = c /\ state[c] = "runs") \/ (p = Parent /\ c = cmd_i)
        BY <4>1 DEF WritersOnly
      <4> QED
        BY <1>3, <3>2, <4>2
    <3> QED
      BY <3>1, <3>2
  <2>3. ASSUME NEW c \in Commands, state'[c] = "runs"
        PROVE  {ReadEnd(c), WriteEnd(c)} \subseteq held'[c]
    <3>1. c \in DOMAIN held
      BY DEF PipeTypes
    <3>2. CASE c = cmd_i
      BY <1>3, <2>1, <3>2
    <3>3. CASE c # cmd_i
      BY <1>3, <2>3, <3>1, <3>3 DEF WritersOnly
    <3> QED
      BY <3>2, <3>3
  <2> QED
    BY <1>1, <1>2, <1>3, <2>2, <2>3 DEF WritersOnly, WriteEnd, ReadEnd
<1>8. Flow' /\ NoFalseEnd'
  <2>1. \A c \in Commands : state'[c] = "exited" <=> state[c] = "exited"
    BY <1>3, <1>5
  <2>2. \A c \in Commands : state[c] = "runs" => state'[c] = "runs"
    BY <1>3
  <2> QED
    BY <1>1, <1>2, <2>1, <2>2, CommandNumbers DEF Flow, NoFalseEnd, AtEnd, IsLast
<1> QED
  BY <1>4, <1>6, <1>7, <1>8

LEMMA ParentWaits ==
  ASSUME PipeInvariant, WaitForCommand
  PROVE  PipeInvariant'
<1> USE DEF PipeInvariant
<1>1. /\ UNCHANGED <<cmdc, wants, state, pipes, taken, inHand, held>>
      /\ parent = "wait" /\ state[cmd_i] = "exited"
      /\ \/ cmd_i = cmdc - 1 /\ parent' = "ended" /\ cmd_i' = cmd_i
         \/ cmd_i # cmdc - 1 /\ parent' = "wait" /\ cmd_i' = cmd_i + 1
  BY DEF WaitForCommand, ParentGoes, commands
<1>2. Commands' = Commands /\ cmd_i' \in Commands
  BY <1>1, CommandNumbers DEF Commands, PipeTypes, IsLast
<1>3. PipeTypes'
  BY <1>1, <1>2 DEF PipeTypes
<1>4. \A c \in Commands : (c < cmd_i \/ c = cmd_i \/ (c > cmd_i /\ cmd_i # cmdc - 1))
                          /\ (c < cmd_i + 1 => c < cmd_i \/ c = cmd_i)
  BY CommandNumbers DEF PipeTypes
<1>5. InTurn'
  BY <1>1, <1>2, <1>4 DEF InTurn, Started
<1>6. WritersOnly' /\ Flow' /\ NoFalseEnd'
  BY <1>1, <1>2 DEF WritersOnly, Flow, NoFalseEnd, AtEnd, IsLast
<1> QED
  BY <1>3, <1>5, <1>6

\* Reading and writing change the pipes on both sides of a command.
LEMMA CommandTakes ==
  ASSUME PipeInvariant, NEW c \in Commands, Take(c)
  PROVE  PipeInvariant'
<1> USE DEF PipeInvariant
<1>1. /\ UNCHANGED <<cmdc, wants, parent, cmd_i, state, held>>
      /\ state[c] = "runs" /\ ~inHand[c] /\ taken[c] < wants[c]
      /\ c > 0 => pipes[c - 1] > 0
      /\ pipes' = [d \in Commands |-> IF d = c - 1 THEN pipes[d] - 1 ELSE pipes[d]]
      /\ taken' = [taken EXCEPT ![c] = @ + 1]
      /\ inHand' = [inHand EXCEPT ![c] = ~IsLast(c)]
  BY DEF Take
<1>2. Commands' = Commands /\ Commands \subseteq Nat
  BY <1>1, CommandNumbers DEF Commands
<1>3. \A d \in Commands :
        /\ pipes'[d] = IF d = c - 1 THEN pipes[d] - 1 ELSE pipes[d]
        /\ taken'[d] = IF d = c THEN taken[d] + 1 ELSE taken[d]
        /\ d # c => inHand'[d] = inHand[d]
        /\ pipes'[d] \in Nat
  BY <1>1, <1>2 DEF PipeTypes
<1>4. inHand'[c] <=> ~IsLast(c)
  BY <1>1 DEF PipeTypes
<1>5. PipeTypes' /\ InTurn' /\ WritersOnly'
  <2>1. PipeTypes'
    BY <1>1, <1>2, <1>3 DEF PipeTypes
  <2> QED
    BY <1>1, <1>2, <2>1 DEF InTurn, Started, WritersOnly
<1>6. Flow'
  <2>1. ASSUME NEW d \in Commands, d > 0
        PROVE  taken'[d - 1] = taken'[d] + pipes'[d - 1] + Count(inHand'[d - 1])
    <3>1. /\ d - 1 \in Commands /\ d - 1 # d /\ (d - 1 = c => ~IsLast(c))
          /\ taken[d - 1] = taken[d] + pipes[d - 1] + Count(inHand[d - 1])
      <4>1. d - 1 \in Commands /\ d \in Nat /\ cmdc \in Nat /\ d < cmdc
        BY <1>2, <2>1, CommandNumbers DEF PipeTypes
      <4> QED
        BY <2>1, <4>1 DEF Flow, IsLast
    <3>2. taken[d] \in Nat /\ taken[d - 1] \in Nat /\ pipes[d - 1] \in Nat
          /\ Count(inHand[d - 1]) \in Nat
      BY <3>1 DEF PipeTypes, Count
    <3>3. CASE d = c
      <4>1. pipes'[d - 1] = pipes[d - 1] - 1 /\ taken'[d - 1] = taken[d - 1]
            /\ taken'[d] = taken[d] + 1 /\ inHand'[d - 1] = inHand[d - 1]
        BY <1>3, <3>1, <3>3
      <4> QED
        BY <3>1, <3>2, <4>1
    <3>4. CASE d - 1 = c
      <4>1. pipes'[d - 1] = pipes[d - 1] /\ taken'[d - 1] = taken[d - 1] + 1
            /\ taken'[d] = taken[d] /\ inHand'[d - 1] /\ ~inHand[d - 1]
        BY <1>1, <1>2, <1>3, <1>4, <3>1, <3>4
      <4> QED
        BY <3>1, <3>2, <4>1 DEF Count
    <3>5. CASE d # c /\ d - 1 # c
      <4>1. pipes'[d - 1] = pipes[d - 1] /\ taken'[d - 1] = taken[d - 1]
            /\ taken'[d] = taken[d] /\ inHand'[d - 1] = inHand[d - 1]
        <5>1. d - 1 # c - 1
          BY <1>2, <3>5
        <5> QED
          BY <1>3, <3>1, <3>5, <5>1
      <4> QED
        BY <3>1, <4>1
    <3> QED
      BY <3>3, <3>4, <3>5
  <2>2. \A d \in Commands : taken'[d] <= wants[d]
    BY <1>1, <1>3 DEF Flow, PipeTypes
  <2>3. \A d \in Commands : inHand'[d] => state[d] = "runs" /\ ~IsLast(d)
    BY <1>1, <1>3, <1>4 DEF Flow
  <2> QED
    BY <1>1, <1>2, <2>1, <2>2, <2>3 DEF Flow, IsLast
<1>7. ASSUME NEW d \in Commands, state[d] = "exited" PROVE taken'[d] = wants[d] \/ AtEnd(d)'
  <2>1. d # c /\ taken'[d] = taken[d]
    BY <1>1, <1>3, <1>7
  <2>2. ASSUME AtEnd(d) PROVE AtEnd(d)'
    <3>1. d > 0 /\ pipes[d - 1] = 0 /\ d - 1 \in Commands /\ d - 1 # c - 1
      BY <1>2, <2>1, <2>2, CommandNumbers DEF AtEnd
    <3> QED
      BY <1>1, <1>3, <2>2, <3>1 DEF AtEnd
  <2> QED
    BY <1>7, <2>1, <2>2 DEF NoFalseEnd
<1> QED
  BY <1>1, <1>2, <1>5, <1>6, <1>7 DEF NoFalseEnd

LEMMA CommandHandsOn ==
  ASSUME PipeInvariant, NEW c \in Commands, HandOn(c)
  PROVE  PipeInvariant'
<1> USE DEF PipeInvariant
<1>1. /\ UNCHANGED <<cmdc, wants, parent, cmd_i, state, held, taken>>
      /\ state[c] = "runs" /\ inHand[c]
      /\ pipes' = [pipes EXCEPT ![c] = @ + 1]
      /\ inHand' = [inHand EXCEPT ![c] = FALSE]
  BY DEF HandOn
<1>2. Commands' = Commands /\ Commands \subseteq Nat
  BY <1>1, CommandNumbers DEF Commands
<1>3. \A d \in Commands :
        /\ pipes'[d] = IF d = c THEN pipes[d] + 1 ELSE pipes[d]
        /\ inHand'[d] = IF d = c THEN FALSE ELSE inHand[d]
  BY <1>1 DEF PipeTypes
<1>4. PipeTypes'
  BY <1>1, <1>2, <1>3 DEF PipeTypes
<1>5. InTurn' /\ WritersOnly'
  BY <1>1, <1>2 DEF InTurn, Started, WritersOnly
<1>6. \A d \in Commands : d > 0 =>
        taken[d - 1] = taken[d] + pipes'[d - 1] + Count(inHand'[d - 1])
  <2> SUFFICES ASSUME NEW d \in Commands, d > 0
               PROVE  taken[d - 1] = taken[d] + pipes'[d - 1] + Count(inHand'[d - 1])
    OBVIOUS
  <2>1. /\ d - 1 \in Commands
        /\ taken[d - 1] = taken[d] + pipes[d - 1] + Count(inHand[d - 1])
    BY CommandNumbers DEF Flow
  <2>2. taken[d] \in Nat /\ pipes[d - 1] \in Nat
    BY <2>1 DEF PipeTypes
  <2>3. CASE d - 1 = c
    <3>1. pipes'[d - 1] = pipes[d - 1] + 1 /\ inHand[d - 1] /\ ~inHand'[d - 1]
      BY <1>1, <1>3, <2>1, <2>3
    <3> QED
      BY <2>1, <2>2, <3>1 DEF Count
  <2>4. CASE d - 1 # c
    BY <1>3, <2>1, <2>4
  <2> QED
    BY <2>3, <2>4
<1>7. Flow'
  BY <1>1, <1>2, <1>3, <1>6 DEF Flow, IsLast
<1>8. NoFalseEnd'
  <2>1. ASSUME NEW d \in Commands, AtEnd(d) PROVE AtEnd(d)'
    <3>1. d > 0 /\ d - 1 \in Commands /\ d - 1 # c
      BY <1>1, <2>1, CommandNumbers DEF AtEnd
    <3> QED
      BY <1>1, <1>3, <2>1, <3>1 DEF AtEnd
  <2> QED
    BY <1>1, <1>2, <2>1 DEF NoFalseEnd
<1> QED
  BY <1>4, <1>5, <1>7, <1>8

\* At the end of its input: nobody has the write end, so the one before has exited.
LEMMA EndIsReal ==
  ASSUME PipeInvariant, NEW c \in Commands, c > 0, state[c] = "runs",
         ~OpenSomewhere(WriteEnd(c - 1))
  PROVE  state[c - 1] = "exited"
<1> USE DEF PipeInvariant
<1>1. c \in Nat /\ c - 1 \in Commands /\ cmd_i \in Nat
  BY CommandNumbers DEF PipeTypes
<1>2. state[c - 1] # "runs"
  BY <1>1 DEF WritersOnly, OpenSomewhere, PipeTypes
<1>3. state[c - 1] # "none"
  BY <1>1 DEF InTurn, Started
<1> QED
  BY <1>1, <1>2, <1>3 DEF PipeTypes

LEMMA CommandLeaves ==
  ASSUME PipeInvariant, NEW c \in Commands, CommandExits(c)
  PROVE  PipeInvariant'
<1> USE DEF PipeInvariant
<1>1. /\ UNCHANGED <<cmdc, wants, parent, cmd_i, pipes, taken, inHand>>
      /\ state[c] = "runs" /\ ~inHand[c]
      /\ state' = [state EXCEPT ![c] = "exited"]
      /\ held' = [held EXCEPT ![c] = {}]
  BY DEF CommandExits
<1>2. Commands' = Commands /\ Commands \subseteq Nat /\ Parent # c /\ c \in DOMAIN held
  BY <1>1, CommandNumbers DEF Commands, PipeTypes
<1>3. /\ \A d \in Commands : state'[d] = IF d = c THEN "exited" ELSE state[d]
      /\ DOMAIN held' = DOMAIN held
      /\ \A p \in DOMAIN held : held'[p] = IF p = c THEN {} ELSE held[p]
  BY <1>1, <1>2 DEF PipeTypes
<1>4. PipeTypes'
  BY <1>1, <1>2, <1>3 DEF PipeTypes
<1>5. InTurn'
  BY <1>1, <1>2, <1>3 DEF InTurn, Started
<1>6. WritersOnly'
  BY <1>1, <1>2, <1>3 DEF WritersOnly, PipeTypes
<1>7. Flow'
  BY <1>1, <1>2, <1>3 DEF Flow, IsLast
<1>8. taken[c] = wants[c] \/ AtEnd(c)
  BY <1>1, EndIsReal DEF CommandExits, AtEnd
<1>9. \A d \in Commands : AtEnd(d) => AtEnd(d)'
  BY <1>1, <1>3, CommandNumbers DEF AtEnd
<1>10. NoFalseEnd'
  BY <1>1, <1>2, <1>3, <1>8, <1>9 DEF NoFalseEnd
<1> QED
  BY <1>4, <1>5, <1>6, <1>7, <1>10

\* The invariant of a line of commands.
THEOREM PipeInvariance == PipeSpec => []PipeInvariant
<1>1. PipeInvariant /\ [PipeNext]_pipeVars => PipeInvariant'
  <2> SUFFICES ASSUME PipeInvariant, [PipeNext]_pipeVars PROVE PipeInvariant'
    OBVIOUS
  <2>1. CASE ParentStep
    BY <2>1, ParentChangesEnds, ForkInherits, ParentWaits DEF ParentStep
  <2>2. ASSUME NEW c \in Commands, Take(c) \/ HandOn(c) \/ CommandExits(c)
        PROVE  PipeInvariant'
    BY <2>2, CommandTakes, CommandHandsOn, CommandLeaves
  <2>3. CASE UNCHANGED pipeVars
    BY <2>3 DEF pipeVars, commands, PipeInvariant, PipeTypes, InTurn, Started, WritersOnly,
                Flow, NoFalseEnd, AtEnd, IsLast, Commands
  <2> QED
    BY <2>1, <2>2, <2>3 DEF PipeNext
<1> QED
  BY PipeStarts, <1>1, PTL DEF PipeSpec

\* Every command of a line that has ended took what it wanted, or all there was, and
\* its output always has a reader.
THEOREM EndAlwaysReachesAll == PipeSpec => []EndReachesAll
<1>1. PipeInvariant => EndReachesAll
  <2> SUFFICES ASSUME PipeInvariant PROVE EndReachesAll
    OBVIOUS
  <2> USE DEF PipeInvariant
  <2>1. ASSUME parent = "ended", NEW c \in Commands, c # 0
        PROVE  taken[c] = IF wants[c] < taken[c - 1] THEN wants[c] ELSE taken[c - 1]
    <3>1. c > 0 /\ c - 1 \in Commands
      BY <2>1, CommandNumbers
    <3>2. state[c] = "exited" /\ state[c - 1] = "exited"
      BY <2>1, <3>1 DEF InTurn
    <3>3. /\ taken[c - 1] = taken[c] + pipes[c - 1] /\ taken[c] <= wants[c]
          /\ taken[c] = wants[c] \/ pipes[c - 1] = 0
      BY <3>1, <3>2 DEF Flow, NoFalseEnd, AtEnd, Count, PipeTypes
    <3> QED
      BY <3>1, <3>3 DEF PipeTypes
  <2>2. ASSUME NEW c \in Commands, state[c] = "runs" PROVE OpenSomewhere(ReadEnd(c))
    BY <2>2 DEF WritersOnly, OpenSomewhere, PipeTypes
  <2> QED
    BY <2>1, <2>2 DEF EndReachesAll
<1> QED
  BY <1>1, PipeInvariance, PTL

\* A line in which nobody can go on has come to its end, or some command blocks on a
\* pipe that a command which left early will never empty: OnlyLeftFullPipesBlock
\* without ENABLED.
THEOREM OnlyLeftFullPipesEverBlock ==
  PipeSpec =>
    [](PipeStopped => parent \in {"ended", "failed"} \/ \E c \in Commands : Abandoned(c))
<1>1. PipeInvariant => (PipeStopped =>
        parent \in {"ended", "failed"} \/ \E c \in Commands : Abandoned(c))
  <2> SUFFICES ASSUME PipeInvariant, PipeStopped, parent = "wait", state[cmd_i] = "runs"
               PROVE  \E c \in Commands : Abandoned(c)
    BY DEF PipeStopped
  <2> USE DEF PipeInvariant
  <2> DEFINE Blocked == {c \in Commands : state[c] = "runs" /\ inHand[c]}
             After == {n \in Nat : \E c \in Blocked : n = cmdc - c}
  <2>1. cmd_i \in Commands /\ Commands \subseteq Nat /\ cmdc \in Nat
    BY CommandNumbers DEF PipeTypes
  \* The command the parent waits for: those before it have exited, so its input has ended.
  <2>2. cmd_i \in Blocked
    <3>1. SUFFICES ASSUME ~inHand[cmd_i] PROVE FALSE
      BY <2>1
    <3>2. cmd_i > 0 /\ OpenSomewhere(WriteEnd(cmd_i - 1))
      BY <2>1, <3>1 DEF PipeStopped
    <3>3. cmd_i - 1 \in Commands /\ cmd_i - 1 < cmd_i
      BY <2>1, <3>2, CommandNumbers
    <3>4. state[cmd_i - 1] = "exited"
      BY <3>3 DEF InTurn
    <3> QED
      BY <3>2, <3>3, <3>4 DEF OpenSomewhere, WritersOnly
  \* The last one that is blocked.
  <2>3. PICK c \in Blocked : c + 1 \notin Blocked
    <3>1. After \subseteq Nat /\ After # {}
      <4>1. cmdc - cmd_i \in Nat
        BY <2>1, CommandNumbers
      <4> QED
        BY <2>2, <4>1
    <3>2. PICK n \in After : \A m \in After : n <= m
      BY <3>1, Least
    <3>3. PICK c \in Blocked : n = cmdc - c
      BY <3>2
    <3>4. ASSUME c + 1 \in Blocked PROVE FALSE
      <4>1. c + 1 \in Commands /\ c \in Nat /\ cmdc - (c + 1) \in Nat
        BY <2>1, <3>3, <3>4, CommandNumbers
      <4>2. cmdc - (c + 1) \in After
        BY <3>4, <4>1
      <4> QED
        BY <2>1, <3>2, <3>3, <4>1, <4>2
    <3> QED
      BY <3>3, <3>4
  <2>4. /\ state[c] = "runs" /\ inHand[c] /\ pipes[c] = Capacity /\ Capacity > 0
        /\ ~IsLast(c) /\ c + 1 \in Commands /\ c \in Nat
    BY <2>1, <2>3, CommandNumbers, PipelineAssumption DEF PipeStopped, Flow
  <2>5. state[c + 1] = "exited"
    <3>1. state[c + 1] # "none"
      BY <2>4 DEF InTurn, Started
    <3>2. state[c + 1] # "runs"
      <4>1. SUFFICES ASSUME state[c + 1] = "runs" PROVE FALSE
        OBVIOUS
      <4>2. ~inHand[c + 1]
        BY <2>3, <2>4, <4>1
      <4>3. pipes[(c + 1) - 1] = 0 /\ (c + 1) - 1 = c
        BY <2>4, <4>1, <4>2 DEF PipeStopped
      <4> QED
        BY <2>4, <4>3
    <3> QED
      BY <2>4, <3>1, <3>2 DEF PipeTypes
  <2>6. taken[c + 1] = wants[c + 1]
    <3>1. (c + 1) - 1 = c
      BY <2>4
    <3>2. ~AtEnd(c + 1)
      BY <2>4, <3>1 DEF AtEnd
    <3> QED
      BY <2>4, <2>5, <3>2 DEF NoFalseEnd
  <2> QED
    BY <2>3, <2>4, <2>5, <2>6 DEF Abandoned
<1> QED
  BY <1>1, PipeInvariance, PTL

-----------------------------------------------------------------------------
(* NamedPipe: the invariant.                                               *)

FifoTypes ==
  /\ slave_N \in [Slaves -> Nat]
  /\ master \in {"start", "made", "opening", "reading", "eof", "closed", "ended"}
  /\ fifo \in BOOLEAN
  /\ slave \in [Slaves -> {"start", "opening", "writing", "failed", "killed", "done"}]
  /\ lines \in Seq(Slaves)
  /\ written \in [Slaves -> Nat]
  /\ printed \in Seq(Slaves)
  /\ late \in SUBSET Slaves
  /\ stranded \in SUBSET Slaves

\* Where the slaves may be while the master is where it is: nobody writes before
\* the pipe is open on both sides, and who waits came before the master or too late.
FifoPlaces ==
  /\ fifo <=> master \in {"made", "opening", "reading", "eof", "closed"}
  /\ master \in {"start", "opening"} => \A s \in Slaves : slave[s] \in {"start", "failed"}
  /\ master = "made" => \A s \in Slaves : slave[s] \in {"start", "failed", "opening"}
  /\ \A s \in Slaves : slave[s] = "opening" => master = "made" \/ s \in stranded
  /\ \A s \in stranded : slave[s] = "opening" /\ master \in {"closed", "ended"}
  /\ \A s \in Slaves : slave[s] = "done" => written[s] = slave_N[s]

MetEnd == master \in {"eof", "closed", "ended"}

\* Behind the end of the file there is nobody but the late, and no line but theirs.
LateOnly ==
  /\ \A s \in Slaves : slave[s] = "killed" => s \in late
  /\ MetEnd => \A s \in Slaves : slave[s] = "writing" => s \in late
  /\ MetEnd => \A n \in DOMAIN lines : lines[n] \in late

\* What is in the pipe, and what has come out of it.
InPipe(s) == Number(lines, {s})
OutOfPipe(s) == Number(printed, {s})

EachLineSomewhere == \A s \in Slaves : written[s] = OutOfPipe(s) + InPipe(s)

FifoInvariant == FifoTypes /\ FifoPlaces /\ LateOnly /\ EachLineSomewhere

LEMMA FifoStarts == FifoInit => FifoInvariant
<1> SUFFICES ASSUME FifoInit PROVE FifoInvariant
  OBVIOUS
<1>1. FifoTypes
  <2>1. slave_N \in [Slaves -> Nat]
    BY NamedPipeAssumption DEF FifoInit
  <2>2. slave \in [Slaves -> {"start"}] /\ written \in [Slaves -> {0}]
    BY DEF FifoInit
  <2>3. lines \in Seq(Slaves) /\ printed \in Seq(Slaves)
    BY DEF FifoInit
  <2> QED
    BY <2>1, <2>2, <2>3 DEF FifoInit, FifoTypes
<1>2. FifoPlaces
  BY DEF FifoInit, FifoPlaces
<1>3. LateOnly
  BY DEF FifoInit, LateOnly, MetEnd
<1>4. ASSUME NEW s \in Slaves PROVE written[s] = OutOfPipe(s) + InPipe(s)
  <2>1. << >> \in Seq(Slaves) /\ DOMAIN << >> = {}
    OBVIOUS
  <2>2. Number(<< >>, {s}) = 0
    BY <2>1, NumberType
  <2> QED
    BY <2>2 DEF FifoInit, OutOfPipe, InPipe
<1> QED
  BY <1>1, <1>2, <1>3, <1>4 DEF FifoInvariant, EachLineSomewhere

\* The master moves without touching the lines.
LEMMA MasterMoves ==
  ASSUME FifoInvariant,
         MakeFifo \/ OpenFifo \/ EndOfLines \/ CloseFifo \/ RemoveFifo
  PROVE  FifoInvariant'
<1> USE DEF FifoInvariant
<1>1. UNCHANGED <<slave_N, lines, written, printed, late, stranded>>
  BY DEF MakeFifo, OpenFifo, EndOfLines, CloseFifo, RemoveFifo, MasterGoes
<1>2. FifoTypes'
  BY <1>1 DEF FifoTypes, MakeFifo, OpenFifo, EndOfLines, CloseFifo, RemoveFifo, MasterGoes
<1>3. FifoPlaces' /\ LateOnly'
  <2>1. CASE MakeFifo
    BY <1>1, <2>1 DEF FifoTypes, FifoPlaces, LateOnly, MetEnd, MakeFifo, MasterGoes
  <2>2. CASE OpenFifo
    <3>1. /\ master = "made" /\ master' \in {"opening", "reading"} /\ fifo' = fifo
          /\ (\E s \in Slaves : slave[s] = "opening") <=> master' = "reading"
          /\ slave' = [s \in Slaves |-> IF slave[s] = "opening" THEN "writing" ELSE slave[s]]
      BY <2>2 DEF OpenFifo, MasterGoes
    <3>2. \A s \in Slaves : slave'[s] = IF slave[s] = "opening" THEN "writing" ELSE slave[s]
      BY <3>1
    <3> QED
      BY <1>1, <3>1, <3>2 DEF FifoTypes, FifoPlaces, LateOnly, MetEnd
  <2>3. CASE EndOfLines
    <3>1. DOMAIN lines = {}
      BY <2>3 DEF EndOfLines, NothingToCome
    <3> QED
      BY <1>1, <2>3, <3>1 DEF FifoTypes, FifoPlaces, LateOnly, MetEnd, EndOfLines,
                              NothingToCome, Writers, MasterGoes
  <2>4. CASE CloseFifo
    BY <1>1, <2>4 DEF FifoTypes, FifoPlaces, LateOnly, MetEnd, CloseFifo, MasterGoes
  <2>5. CASE RemoveFifo
    BY <1>1, <2>5 DEF FifoTypes, FifoPlaces, LateOnly, MetEnd, RemoveFifo, MasterGoes
  <2> QED
    BY <2>1, <2>2, <2>3, <2>4, <2>5
<1>4. EachLineSomewhere'
  BY <1>1 DEF EachLineSomewhere, InPipe, OutOfPipe
<1> QED
  BY <1>2, <1>3, <1>4

LEMMA MasterPrints ==
  ASSUME FifoInvariant, PrintLine
  PROVE  FifoInvariant'
<1> USE DEF FifoInvariant
<1>1. /\ master = "reading" /\ UNCHANGED <<slave_N, master, fifo, slave, written, late, stranded>>
      /\ lines # << >> /\ lines' = Tail(lines) /\ printed' = Append(printed, Head(lines))
  BY DEF PrintLine, MasterGoes
<1>2. lines \in Seq(Slaves) /\ printed \in Seq(Slaves)
  BY DEF FifoTypes
<1>3. Head(lines) \in Slaves /\ Tail(lines) \in Seq(Slaves)
  BY <1>1, <1>2, HeadTailProperties
<1>4. FifoTypes'
  BY <1>1, <1>2, <1>3, AppendProperties DEF FifoTypes
<1>5. FifoPlaces' /\ LateOnly'
  BY <1>1 DEF FifoPlaces, LateOnly, MetEnd
<1>6. ASSUME NEW s \in Slaves PROVE written'[s] = (OutOfPipe(s) + InPipe(s))'
  <2>1. InPipe(s) = InPipe(s)' + Count(Head(lines) \in {s})
    BY <1>1, <1>2, NumberBeforeHead DEF InPipe
  <2>2. OutOfPipe(s)' = OutOfPipe(s) + Count(Head(lines) \in {s})
    BY <1>1, <1>2, <1>3, NumberAfterAppend DEF OutOfPipe
  <2>3. InPipe(s)' \in Nat /\ OutOfPipe(s) \in Nat /\ Count(Head(lines) \in {s}) \in Nat
    BY <1>1, <1>2, <1>3, NumberType DEF InPipe, OutOfPipe, Count
  <2>4. written'[s] = OutOfPipe(s) + InPipe(s)
    BY <1>1 DEF EachLineSomewhere
  <2> QED
    BY <2>1, <2>2, <2>3, <2>4
<1> QED
  BY <1>4, <1>5, <1>6 DEF EachLineSomewhere

LEMMA SlaveMoves ==
  ASSUME FifoInvariant, NEW s \in Slaves,
         OpenFails(s) \/ OpenForWriting(s) \/ BrokenPipe(s) \/ CloseForWriting(s)
  PROVE  FifoInvariant'
<1> USE DEF FifoInvariant
<1>1. /\ UNCHANGED <<slave_N, fifo, lines, written, printed>>
      /\ \E next : slave' = [slave EXCEPT ![s] = next]
  BY DEF OpenFails, OpenForWriting, BrokenPipe, CloseForWriting, SlaveGoes
<1>2. /\ slave[s] \in {"start", "opening", "writing", "failed", "killed", "done"}
      /\ slave' = [slave EXCEPT ![s] = slave'[s]]
  BY <1>1 DEF FifoTypes
<1>3. \A t \in Slaves \ {s} : slave'[t] = slave[t]
  BY <1>2 DEF FifoTypes
<1>4. EachLineSomewhere'
  BY <1>1 DEF EachLineSomewhere, InPipe, OutOfPipe
<1>5. CASE OpenFails(s)
  <2>1. /\ slave[s] = "start" /\ slave'[s] = "failed"
        /\ UNCHANGED <<master, late, stranded>>
    BY <1>5 DEF OpenFails, SlaveGoes, FifoTypes
  <2>2. FifoTypes'
    BY <1>1, <1>2, <2>1 DEF FifoTypes
  <2>3. FifoPlaces' /\ LateOnly'
    BY <1>1, <1>3, <2>1 DEF FifoTypes, FifoPlaces, LateOnly, MetEnd
  <2> QED
    BY <1>4, <2>2, <2>3
<1>6. CASE OpenForWriting(s)
  <2>1. /\ fifo /\ slave[s] = "start"
        /\ slave'[s] = IF HasReader THEN "writing" ELSE "opening"
        /\ master' = IF master = "opening" THEN "reading" ELSE master
        /\ late' = IF master = "eof" THEN late \cup {s} ELSE late
        /\ stranded' = IF master = "closed" THEN stranded \cup {s} ELSE stranded
    BY <1>6 DEF OpenForWriting, SlaveGoes, FifoTypes
  <2>2. FifoTypes'
    BY <1>1, <1>2, <2>1 DEF FifoTypes
  <2>3. FifoPlaces'
    BY <1>1, <1>3, <2>1 DEF FifoTypes, FifoPlaces, HasReader
  <2>4. LateOnly'
    BY <1>1, <1>3, <2>1 DEF FifoTypes, FifoPlaces, LateOnly, MetEnd, HasReader
  <2> QED
    BY <1>4, <2>2, <2>3, <2>4
<1>7. CASE BrokenPipe(s)
  <2>1. /\ slave[s] = "writing" /\ slave'[s] = "killed" /\ ~HasReader
        /\ UNCHANGED <<master, late, stranded>>
    BY <1>7 DEF BrokenPipe, SlaveGoes, FifoTypes
  <2>2. FifoTypes'
    BY <1>1, <1>2, <2>1 DEF FifoTypes
  <2>3. FifoPlaces' /\ LateOnly'
    BY <1>1, <1>3, <2>1 DEF FifoTypes, FifoPlaces, LateOnly, MetEnd, HasReader
  <2> QED
    BY <1>4, <2>2, <2>3
<1>8. CASE CloseForWriting(s)
  <2>1. /\ slave[s] = "writing" /\ slave'[s] = "done" /\ written[s] = slave_N[s]
        /\ UNCHANGED <<master, late, stranded>>
    BY <1>8 DEF CloseForWriting, SlaveGoes, FifoTypes
  <2>2. FifoTypes'
    BY <1>1, <1>2, <2>1 DEF FifoTypes
  <2>3. FifoPlaces' /\ LateOnly'
    BY <1>1, <1>3, <2>1 DEF FifoTypes, FifoPlaces, LateOnly, MetEnd
  <2> QED
    BY <1>4, <2>2, <2>3
<1> QED
  BY <1>5, <1>6, <1>7, <1>8

LEMMA SlaveWrites ==
  ASSUME FifoInvariant, NEW s \in Slaves, WriteLine(s)
  PROVE  FifoInvariant'
<1> USE DEF FifoInvariant
<1>1. /\ slave[s] = "writing" /\ slave' = [slave EXCEPT ![s] = "writing"]
      /\ HasReader /\ written[s] < slave_N[s]
      /\ UNCHANGED <<slave_N, master, fifo, printed, late, stranded>>
      /\ lines' = Append(lines, s) /\ written' = [written EXCEPT ![s] = @ + 1]
  BY DEF WriteLine, SlaveGoes
<1>2. lines \in Seq(Slaves) /\ printed \in Seq(Slaves)
  BY DEF FifoTypes
<1>3. slave' = slave /\ \A t \in Slaves : written'[t] = written[t] + Count(s \in {t})
  BY <1>1 DEF FifoTypes, Count
<1>4. FifoTypes'
  BY <1>1, <1>2, <1>3, AppendProperties DEF FifoTypes
<1>5. FifoPlaces'
  BY <1>1, <1>3 DEF FifoTypes, FifoPlaces
<1>6. LateOnly'
  <2>1. ASSUME MetEnd, NEW n \in DOMAIN lines' PROVE lines'[n] \in late
    <3>1. /\ Held(lines') = Held(lines) \cup {s}
          /\ \A m \in DOMAIN lines : lines[m] \in late
          /\ s \in late
      BY <1>1, <1>2, <2>1, HeldAfterAppend DEF LateOnly
    <3> QED
      BY <3>1 DEF Held
  <2> QED
    BY <1>1, <1>3, <2>1 DEF LateOnly, MetEnd
<1>7. ASSUME NEW t \in Slaves PROVE written'[t] = (OutOfPipe(t) + InPipe(t))'
  <2>1. InPipe(t)' = InPipe(t) + Count(s \in {t}) /\ OutOfPipe(t)' = OutOfPipe(t)
    BY <1>1, <1>2, NumberAfterAppend DEF InPipe, OutOfPipe
  <2>2. InPipe(t) \in Nat /\ OutOfPipe(t) \in Nat /\ Count(s \in {t}) \in Nat
    BY <1>2, NumberType DEF InPipe, OutOfPipe, Count
  <2>3. written[t] = OutOfPipe(t) + InPipe(t)
    BY DEF EachLineSomewhere
  <2> QED
    BY <1>3, <2>1, <2>2, <2>3
<1> QED
  BY <1>4, <1>5, <1>6, <1>7 DEF EachLineSomewhere

\* The invariant of master and slaves.
THEOREM FifoInvariance == FifoSpec => []FifoInvariant
<1>1. FifoInvariant /\ [FifoNext]_fifoVars => FifoInvariant'
  <2> SUFFICES ASSUME FifoInvariant, [FifoNext]_fifoVars PROVE FifoInvariant'
    OBVIOUS
  <2>1. CASE Master
    BY <2>1, MasterMoves, MasterPrints DEF Master
  <2>2. ASSUME NEW s \in Slaves, Slave(s) PROVE FifoInvariant'
    BY <2>2, SlaveMoves, SlaveWrites DEF Slave
  <2>3. CASE UNCHANGED fifoVars
    BY <2>3 DEF fifoVars, FifoInvariant, FifoTypes, FifoPlaces, LateOnly, MetEnd, EachLineSomewhere,
                InPipe, OutOfPipe
  <2> QED
    BY <2>1, <2>2, <2>3 DEF FifoNext
<1> QED
  BY FifoStarts, <1>1, PTL DEF FifoSpec

\* Every line of a slave that opened the pipe in time is printed, and the slave ends.
THEOREM AlwaysOnlyLatecomersLose == FifoSpec => []OnlyLatecomersLose
<1>1. FifoInvariant => OnlyLatecomersLose
  <2> SUFFICES ASSUME FifoInvariant, NEW s \in Slaves \ late
               PROVE  /\ Printed(s) <= written[s]
                      /\ slave[s] # "killed"
                      /\ MetEnd /\ slave[s] = "done" => Printed(s) = slave_N[s]
    BY DEF OnlyLatecomersLose, MetEnd
  <2> USE DEF FifoInvariant
  <2>1. Printed(s) = OutOfPipe(s)
    BY DEF Printed, OutOfPipe, Number, Hits
  <2>2. OutOfPipe(s) \in Nat /\ InPipe(s) \in Nat /\ written[s] = OutOfPipe(s) + InPipe(s)
    BY NumberType DEF FifoTypes, EachLineSomewhere, InPipe, OutOfPipe
  <2>3. ASSUME MetEnd PROVE InPipe(s) = 0
    <3>1. \A n \in DOMAIN lines : lines[n] \notin {s}
      BY <2>3 DEF LateOnly
    <3> QED
      BY <3>1, NumberType DEF FifoTypes, InPipe
  <2> QED
    BY <2>1, <2>2, <2>3 DEF FifoPlaces, LateOnly
<1> QED
  BY <1>1, FifoInvariance, PTL

\* When nobody has anything to do any more, only slaves that came when the pipe was
\* closed and not yet removed still wait, or else the master, for slaves that had
\* all come before it: OnlyStrandedWait without ENABLED.
THEOREM OnlyStrandedEverWait == FifoSpec => [](FifoStopped => OnlyStrandedLeft)
<1>1. FifoInvariant => (FifoStopped => OnlyStrandedLeft)
  <2> SUFFICES ASSUME FifoInvariant, FifoStopped PROVE OnlyStrandedLeft
    OBVIOUS
  <2> USE DEF FifoInvariant
  <2>1. master \in {"opening", "ended"}
    <3>1. SUFFICES ASSUME lines = << >>, NEW s \in Slaves, slave[s] = "writing" PROVE FALSE
      BY DEF FifoStopped, NothingToCome, Writers
    <3>2. Len(lines) = 0 /\ ~(Len(lines) >= Room)
      BY <3>1, NamedPipeAssumption
    <3> QED
      BY <3>1, <3>2 DEF FifoStopped
  <2> QED
    BY <2>1 DEF FifoPlaces, FifoStopped, OnlyStrandedLeft
<1> QED
  BY <1>1, FifoInvariance, PTL

-----------------------------------------------------------------------------
(* RecordFiles: one write after the other.                                 *)

\* FoldLeft as its definition has it: a function that is applied to sets of positions,
\* the last of which is written last.
IteratesPut(iter, file, writes) ==
  iter = [s \in SUBSET DOMAIN writes |->
            IF s = {} THEN file
            ELSE Put(iter[s \ {Max(s)}], writes[Max(s)])]

Written(file, writes) == FoldLeft(Put, file, writes)

LEMMA FoldLeftPut ==
  ASSUME NEW file, NEW writes
  PROVE  Written(file, writes) =
           (CHOOSE iter : IteratesPut(iter, file, writes))[DOMAIN writes]
BY DEF Written, FoldLeft, MapThenFoldSet, IteratesPut

LEMMA LastPosition ==
  ASSUME NEW n \in Nat, NEW s \in SUBSET (1 .. n + 1), n + 1 \in s
  PROVE  Max(s) = n + 1
<1>1. \A y \in s : n + 1 >= y
  OBVIOUS
<1>2. Max(s) \in s /\ \A y \in s : Max(s) >= y
  BY <1>1 DEF Max
<1>3. Max(s) >= n + 1 /\ n + 1 >= Max(s)
  BY <1>1, <1>2
<1>4. Max(s) \in Nat
  <2>1. \A y \in s : y \in Nat
    OBVIOUS
  <2> QED
    BY <1>2, <2>1
<1> QED
  BY <1>3, <1>4

\* Such a function exists.
LEMMA PutIsIterated ==
  ASSUME NEW file, NEW writes, NEW n \in Nat, DOMAIN writes = 1 .. n
  PROVE  \E iter : IteratesPut(iter, file, writes)
<1> DEFINE Next1(g, s) == IF s = {} THEN file ELSE Put(g[s \ {Max(s)}], writes[Max(s)])
           Upto(m) == \E g : /\ g = [s \in SUBSET (1 .. m) |-> g[s]]
                             /\ \A s \in SUBSET (1 .. m) : g[s] = Next1(g, s)
           Never == {m \in Nat : ~Upto(m)}
<1>1. Upto(0)
  <2>1. \A s \in SUBSET (1 .. 0) : s = {}
    OBVIOUS
  <2>2. WITNESS [s \in SUBSET (1 .. 0) |-> file]
  <2> QED
    BY <2>1
<1>2. ASSUME NEW m \in Nat, Upto(m) PROVE Upto(m + 1)
  <2>1. PICK g : /\ g = [s \in SUBSET (1 .. m) |-> g[s]]
                 /\ \A s \in SUBSET (1 .. m) : g[s] = Next1(g, s)
    BY <1>2
  <2> DEFINE h == [s \in SUBSET (1 .. m + 1) |->
                     IF m + 1 \in s THEN Put(g[s \ {m + 1}], writes[m + 1]) ELSE g[s]]
  <2>2. \A s \in SUBSET (1 .. m + 1) : s \ {m + 1} \in SUBSET (1 .. m)
    OBVIOUS
  <2>3. ASSUME NEW s \in SUBSET (1 .. m + 1) PROVE h[s] = Next1(h, s)
    <3>1. CASE m + 1 \in s
      <4>1. Max(s) = m + 1 /\ s # {}
        BY <3>1, LastPosition
      <4>2. s \ {m + 1} \in SUBSET (1 .. m + 1) /\ m + 1 \notin s \ {m + 1}
        OBVIOUS
      <4>3. h[s \ {m + 1}] = g[s \ {m + 1}]
        BY <4>2
      <4>4. h[s] = Put(g[s \ {m + 1}], writes[m + 1])
        BY <3>1
      <4> HIDE DEF h
      <4> QED
        BY <4>1, <4>3, <4>4
    <3>2. CASE m + 1 \notin s
      <4>1. s \in SUBSET (1 .. m) /\ h[s] = g[s] /\ g[s] = Next1(g, s)
        BY <2>1, <2>2, <3>2
      <4>2. /\ s \ {Max(s)} \in SUBSET (1 .. m + 1) /\ m + 1 \notin s \ {Max(s)}
        BY <3>2
      <4>3. h[s \ {Max(s)}] = g[s \ {Max(s)}]
        BY <4>2
      <4> HIDE DEF h
      <4> QED
        BY <4>1, <4>3
    <3> QED
      BY <3>1, <3>2
  <2>4. h = [s \in SUBSET (1 .. m + 1) |-> h[s]]
    OBVIOUS
  <2> HIDE DEF h, Next1
  <2> QED
    BY <2>3, <2>4
<1>3. Upto(n)
  <2>1. SUFFICES ASSUME Never # {} PROVE FALSE
    OBVIOUS
  <2>2. PICK m \in Never : \A k \in Never : m <= k
    <3> HIDE DEF Upto
    <3>1. Never \subseteq Nat
      OBVIOUS
    <3> HIDE DEF Never
    <3> QED
      BY <2>1, <3>1, Least
  <2> HIDE DEF Upto
  <2>3. m \in Nat /\ m # 0 /\ ~Upto(m)
    BY <1>1, <2>2
  <2>4. m - 1 \in Nat /\ (m - 1) + 1 = m /\ ~(m <= m - 1)
    BY <2>3
  <2>5. Upto(m - 1)
    BY <2>2, <2>4
  <2> QED
    BY <1>2, <2>3, <2>4, <2>5
<1>4. PICK g : /\ g = [s \in SUBSET (1 .. n) |-> g[s]]
               /\ \A s \in SUBSET (1 .. n) : g[s] = Next1(g, s)
  BY <1>3
<1>5. [s \in SUBSET (1 .. n) |-> g[s]] = [s \in SUBSET (1 .. n) |-> Next1(g, s)]
  BY <1>4
<1>6. IteratesPut(g, file, writes)
  BY <1>4, <1>5 DEF IteratesPut
<1> QED
  BY <1>6

\* The file after the first k of n writes, for every k.
Grows(after, file, writes, n) ==
  /\ after[{}] = file
  /\ \A k \in 0 .. n - 1 : after[1 .. k + 1] = Put(after[1 .. k], writes[k + 1])

\* What FoldLeft computes.
LEMMA OneAfterTheOther ==
  ASSUME NEW file, NEW writes, NEW n \in Nat, DOMAIN writes = 1 .. n
  PROVE  \E after : Grows(after, file, writes, n) /\ Written(file, writes) = after[1 .. n]
<1> DEFINE iter == CHOOSE iter : IteratesPut(iter, file, writes)
<1>1. IteratesPut(iter, file, writes) /\ Written(file, writes) = iter[1 .. n]
  BY PutIsIterated, FoldLeftPut
<1> HIDE DEF iter
<1>2. \A s \in SUBSET (1 .. n) :
        iter[s] = IF s = {} THEN file ELSE Put(iter[s \ {Max(s)}], writes[Max(s)])
  BY <1>1 DEF IteratesPut
<1>3. iter[{}] = file
  BY <1>2
<1>4. ASSUME NEW k \in 0 .. n - 1 PROVE iter[1 .. k + 1] = Put(iter[1 .. k], writes[k + 1])
  <2>1. 1 .. k + 1 \in SUBSET (1 .. n) /\ k \in Nat /\ k + 1 \in 1 .. k + 1
    OBVIOUS
  <2>2. Max(1 .. k + 1) = k + 1
    BY <2>1, LastPosition
  <2>3. (1 .. k + 1) \ {k + 1} = 1 .. k
    OBVIOUS
  <2>4. 1 .. k + 1 # {}
    BY <2>1
  <2> QED
    BY <1>2, <2>1, <2>2, <2>3, <2>4
<1> QED
  BY <1>1, <1>3, <1>4 DEF Grows

LEMMA NothingToStore ==
  ASSUME NEW file
  PROVE  Written(file, << >>) = file
<1>1. PICK n \in Nat : n = 0
  OBVIOUS
<1>2. ASSUME NEW writes, DOMAIN writes = 1 .. n PROVE Written(file, writes) = file
  <2>1. 1 .. n = {}
    BY <1>1
  <2> QED
    BY <1>2, <2>1, OneAfterTheOther DEF Grows
<1>3. DOMAIN << >> = 1 .. n
  BY <1>1
<1> QED
  BY <1>2, <1>3, Zenon

LEMMA OneToStore ==
  ASSUME NEW file, NEW write
  PROVE  Written(file, << write >>) = Put(file, write)
<1>1. PICK n \in Nat : n = 1
  OBVIOUS
<1>2. ASSUME NEW writes, DOMAIN writes = 1 .. n
      PROVE  Written(file, writes) = Put(file, writes[n])
  <2>1. PICK after : Grows(after, file, writes, n) /\ Written(file, writes) = after[1 .. n]
    BY <1>2, OneAfterTheOther
  <2>2. PICK k \in 0 .. n - 1 : k = 0
    BY <1>1
  <2>3. k + 1 = n /\ 1 .. k = {}
    BY <1>1, <2>2
  <2> QED
    BY <2>1, <2>2, <2>3 DEF Grows
<1>3. DOMAIN << write >> = 1 .. n /\ << write >>[n] = write
  BY <1>1
<1> QED
  BY <1>2, <1>3, Zenon

\* A write inside a file changes one record of it.
LEMMA PutInside ==
  ASSUME NEW S, NEW file \in Seq(S), NEW write, write.record \in S,
         write.index \in 0 .. Len(file) - 1
  PROVE  /\ Put(file, write) \in Seq(S) /\ Len(Put(file, write)) = Len(file)
         /\ Put(file, write)[write.index + 1] = write.record
         /\ \A p \in 1 .. Len(file) : p # write.index + 1 => Put(file, write)[p] = file[p]
<1>1. Len(file) \in Nat /\ DOMAIN file = 1 .. Len(file)
      /\ write.index + 1 \in 1 .. Len(file) /\ write.index < Len(file)
  BY LenProperties
<1>2. Put(file, write) = [file EXCEPT ![write.index + 1] = write.record]
  BY <1>1 DEF Put
<1>3. file \in [1 .. Len(file) -> S]
  BY <1>1
<1>4. Put(file, write) \in [1 .. Len(file) -> S]
  BY <1>1, <1>2, <1>3
<1>5. Put(file, write) \in Seq(S) /\ Len(Put(file, write)) = Len(file)
  BY <1>1, <1>4, FunctionIsSequence
<1> QED
  BY <1>1, <1>2, <1>5

\* A write behind its last record makes it longer.
LEMMA PutBehind ==
  ASSUME NEW S, NEW file \in Seq(S), NEW write, write.record \in S,
         write.index = Len(file)
  PROVE  /\ Put(file, write) \in Seq(S) /\ Len(Put(file, write)) = Len(file) + 1
         /\ Put(file, write)[Len(file) + 1] = write.record
         /\ \A p \in 1 .. Len(file) : Put(file, write)[p] = file[p]
<1>1. Put(file, write) = Append(file, write.record)
  BY LenProperties DEF Put
<1> QED
  BY <1>1, AppendProperties

LEMMA Slice ==
  ASSUME NEW S, NEW file \in Seq(S), NEW m \in Nat \ {0}, NEW n \in 0 .. Len(file)
  PROVE  /\ SubSeq(file, m, n) \in Seq(S)
         /\ Len(SubSeq(file, m, n)) = IF m <= n THEN n - m + 1 ELSE 0
         /\ \A p \in 1 .. n - m + 1 : SubSeq(file, m, n)[p] = file[m + p - 1]
<1>1. Len(file) \in Nat /\ m \in Int /\ n \in Int
  BY LenProperties
<1>2. \A p \in m .. n : p \in 1 .. Len(file)
  BY <1>1
<1>3. \A p \in m .. n : file[p] \in S
  BY <1>2, LenProperties
<1> QED
  BY <1>1, <1>3, SubSeqProperties

\* The first n records of file, and behind them what is behind them in old.
Spliced(file, n, old) == SubSeq(file, 1, n) \o SubSeq(old, n + 1, Len(old))

LEMMA SplicedProperties ==
  ASSUME NEW S, NEW file \in Seq(S), NEW old \in Seq(S), NEW n \in 0 .. Len(file)
  PROVE  /\ Spliced(file, n, old) \in Seq(S)
         /\ Len(Spliced(file, n, old)) = IF n < Len(old) THEN Len(old) ELSE n
         /\ \A p \in 1 .. n : Spliced(file, n, old)[p] = file[p]
         /\ \A p \in n + 1 .. Len(old) : Spliced(file, n, old)[p] = old[p]
<1> DEFINE front == SubSeq(file, 1, n)  rest == SubSeq(old, n + 1, Len(old))
<1>1. Len(file) \in Nat /\ Len(old) \in Nat /\ n \in Nat /\ n + 1 \in Nat \ {0}
      /\ Len(old) \in 0 .. Len(old)
  BY LenProperties
<1>2. /\ front \in Seq(S) /\ Len(front) = n
      /\ \A p \in 1 .. n : front[p] = file[p]
  BY <1>1, Slice
<1>3. /\ rest \in Seq(S) /\ Len(rest) = IF n < Len(old) THEN Len(old) - n ELSE 0
      /\ \A p \in 1 .. Len(old) - n : rest[p] = old[n + p]
  <2>1. /\ rest \in Seq(S)
        /\ Len(rest) = IF n + 1 <= Len(old) THEN Len(old) - (n + 1) + 1 ELSE 0
        /\ \A p \in 1 .. Len(old) - (n + 1) + 1 : rest[p] = old[(n + 1) + p - 1]
    BY <1>1, Slice
  <2> HIDE DEF rest
  <2>2. Len(old) - (n + 1) + 1 = Len(old) - n /\ (n + 1 <= Len(old) <=> n < Len(old))
    BY <1>1
  <2>3. \A p \in 1 .. Len(old) - n : (n + 1) + p - 1 = n + p
    BY <1>1
  <2> QED
    BY <2>1, <2>2, <2>3
<1> HIDE DEF front, rest
<1>4. /\ front \o rest \in Seq(S) /\ Len(front \o rest) = n + Len(rest)
      /\ \A p \in 1 .. n + Len(rest) :
           (front \o rest)[p] = IF p <= n THEN front[p] ELSE rest[p - n]
  BY <1>2, <1>3, ConcatProperties
<1>5. Len(front \o rest) = IF n < Len(old) THEN Len(old) ELSE n
  BY <1>1, <1>3, <1>4
<1>6. ASSUME NEW p \in 1 .. n PROVE (front \o rest)[p] = file[p]
  BY <1>1, <1>2, <1>3, <1>4
<1>7. ASSUME NEW p \in n + 1 .. Len(old) PROVE (front \o rest)[p] = old[p]
  <2>1. n < Len(old) /\ p \in 1 .. n + Len(rest) /\ ~(p <= n)
        /\ p - n \in 1 .. Len(old) - n /\ n + (p - n) = p
    BY <1>1, <1>3
  <2> QED
    BY <1>3, <1>4, <2>1
<1> QED
  BY <1>4, <1>5, <1>6, <1>7 DEF Spliced, front, rest

\* A sequence is determined by its length and its elements.
LEMMA IsSpliced ==
  ASSUME NEW S, NEW file \in Seq(S), NEW old \in Seq(S), NEW n \in 0 .. Len(file),
         NEW f \in Seq(S), Len(f) = IF n < Len(old) THEN Len(old) ELSE n,
         \A p \in 1 .. n : f[p] = file[p],
         \A p \in n + 1 .. Len(old) : f[p] = old[p]
  PROVE  f = Spliced(file, n, old)
<1> DEFINE t == Spliced(file, n, old)
<1>1. n \in Nat /\ Len(old) \in Nat /\ Len(f) \in Nat
  BY LenProperties
<1>2. /\ t \in Seq(S) /\ Len(t) = Len(f)
      /\ \A p \in 1 .. n : t[p] = file[p]
      /\ \A p \in n + 1 .. Len(old) : t[p] = old[p]
  BY SplicedProperties
<1> HIDE DEF t
<1>3. ASSUME NEW p \in 1 .. Len(f) PROVE f[p] = t[p]
  <2>1. p \in 1 .. n \/ p \in n + 1 .. Len(old)
    BY <1>1
  <2> QED
    BY <1>2, <2>1
<1>4. f = t
  BY <1>2, <1>3, SeqEqual
<1> QED
  BY <1>4 DEF t

\* Writing record i + 1 of the file over n of them, for i <= n.
LEMMA SplicedByOne ==
  ASSUME NEW S, NEW file \in Seq(S), NEW old \in Seq(S), NEW n \in 0 .. Len(file),
         NEW write, write.index \in 0 .. n, write.index < Len(file),
         write.record = file[write.index + 1]
  PROVE  Put(Spliced(file, n, old), write) =
           Spliced(file, IF write.index < n THEN n ELSE n + 1, old)
<1> DEFINE f == Spliced(file, n, old)
           index == write.index
           m == IF index < n THEN n ELSE n + 1
<1>1. /\ Len(file) \in Nat /\ Len(old) \in Nat /\ n \in Nat
      /\ index \in Nat /\ index <= n /\ index + 1 \in 1 .. Len(file) /\ m \in 0 .. Len(file)
      /\ write.record \in S
  BY LenProperties
<1>2. /\ f \in Seq(S) /\ Len(f) = IF n < Len(old) THEN Len(old) ELSE n
      /\ \A p \in 1 .. n : f[p] = file[p]
      /\ \A p \in n + 1 .. Len(old) : f[p] = old[p]
  BY SplicedProperties
<1> HIDE DEF f
<1>3. /\ Put(f, write) \in Seq(S)
      /\ Len(Put(f, write)) = IF index < Len(f) THEN Len(f) ELSE Len(f) + 1
      /\ Put(f, write)[index + 1] = file[index + 1]
      /\ \A p \in 1 .. Len(f) : p # index + 1 => Put(f, write)[p] = f[p]
  <2>1. CASE index < Len(f)
    <3>1. index \in 0 .. Len(f) - 1
      BY <1>1, <1>2, <2>1
    <3> QED
      BY <1>1, <1>2, <2>1, <3>1, PutInside
  <2>2. CASE ~(index < Len(f))
    <3>1. index = Len(f)
      BY <1>1, <1>2, <2>2
    <3> QED
      BY <1>1, <1>2, <2>2, <3>1, PutBehind
  <2> QED
    BY <2>1, <2>2
<1>4. Len(Put(f, write)) = IF m < Len(old) THEN Len(old) ELSE m
  BY <1>1, <1>2, <1>3
<1>5. ASSUME NEW p \in 1 .. m PROVE Put(f, write)[p] = file[p]
  <2>1. p = index + 1 \/ (p # index + 1 /\ p \in 1 .. n /\ p \in 1 .. Len(f))
    BY <1>1, <1>2
  <2> QED
    BY <1>2, <1>3, <2>1
<1>6. ASSUME NEW p \in m + 1 .. Len(old) PROVE Put(f, write)[p] = old[p]
  <2>1. p # index + 1 /\ p \in n + 1 .. Len(old) /\ p \in 1 .. Len(f)
    BY <1>1, <1>2
  <2> QED
    BY <1>2, <1>3, <2>1
<1>7. Put(f, write) = Spliced(file, m, old)
  <2> HIDE DEF m
  <2> QED
    BY <1>1, <1>3, <1>4, <1>5, <1>6, IsSpliced
<1> QED
  BY <1>7 DEF f

\* Writes of the records behind the first n, one after the other.
Consecutive(writes, file, n) ==
  \A k \in DOMAIN writes :
    writes[k].index = n + k - 1 /\ writes[k].record = file[n + k]

LEMMA SplicedByMany ==
  ASSUME NEW S, NEW file \in Seq(S), NEW old \in Seq(S), NEW n \in Nat,
         NEW writes, NEW m \in Nat, DOMAIN writes = 1 .. m, n + m <= Len(file),
         Consecutive(writes, file, n)
  PROVE  Written(Spliced(file, n, old), writes) = Spliced(file, n + m, old)
<1>1. PICK after : /\ Grows(after, Spliced(file, n, old), writes, m)
                   /\ Written(Spliced(file, n, old), writes) = after[1 .. m]
  BY OneAfterTheOther
<1> DEFINE Right(k) == after[1 .. k] = Spliced(file, n + k, old)
           Wrong == {k \in 0 .. m : ~Right(k)}
<1>2. Right(0)
  <2>1. PICK z \in Nat : z = 0
    OBVIOUS
  <2>2. 1 .. z = {} /\ n + z = n
    BY <2>1
  <2> QED
    BY <1>1, <2>1, <2>2 DEF Grows
<1>3. ASSUME NEW k \in 0 .. m - 1, Right(k) PROVE Right(k + 1)
  <2>1. /\ n + k \in 0 .. Len(file) /\ n + k < Len(file) /\ k + 1 \in 1 .. m
        /\ n + (k + 1) - 1 = n + k /\ n + (k + 1) = (n + k) + 1
        /\ n + k \in 0 .. n + k /\ ~(n + k < n + k)
    BY LenProperties
  <2>2. writes[k + 1].index = n + k /\ writes[k + 1].record = file[(n + k) + 1]
    BY <2>1 DEF Consecutive
  <2>3. Put(Spliced(file, n + k, old), writes[k + 1]) = Spliced(file, (n + k) + 1, old)
    BY <2>1, <2>2, SplicedByOne
  <2> QED
    BY <1>1, <1>3, <2>1, <2>3 DEF Grows
<1> HIDE DEF Right
<1>4. Wrong = {}
  <2>1. SUFFICES ASSUME Wrong # {} PROVE FALSE
    OBVIOUS
  <2>2. Wrong \subseteq Nat
    OBVIOUS
  <2>3. PICK k \in Wrong : \A l \in Wrong : k <= l
    BY <2>1, <2>2, Least
  <2>4. k \in 0 .. m /\ k # 0 /\ ~Right(k)
    BY <1>2, <2>3
  <2>5. k - 1 \in 0 .. m - 1 /\ k - 1 \in 0 .. m /\ (k - 1) + 1 = k /\ ~(k <= k - 1)
    BY <2>4
  <2>6. Right(k - 1)
    BY <2>3, <2>5
  <2> QED
    BY <1>3, <2>4, <2>5, <2>6
<1>5. Right(m)
  <2>1. m \in 0 .. m
    OBVIOUS
  <2> QED
    BY <1>4, <2>1
<1> QED
  BY <1>1, <1>5 DEF Right

-----------------------------------------------------------------------------
(* RecordFiles: the invariant of the copy.                                 *)

Record == [key : 0 .. 255, from : {"a", "b"}, at : Nat]
Write == [index : Nat, record : Record]

ArgumentTypes ==
  /\ command \in {"sort", "copy"} /\ method \in {"sys", "lib"}
  /\ records \in Nat
  /\ output \in {"a", "b"} /\ (command = "sort" => output = "a")
  /\ original \in [{"a", "b"} -> Seq(Record)]

FileTypes ==
  /\ files \in [{"a", "b"} -> Seq(Record)]
  /\ unstored \in Seq(Write)
  /\ crashes \in Nat

\* How much is there to copy?
CopySize == IF records < Len(original["a"]) THEN records ELSE Len(original["a"])

CopyPlaces ==
  /\ place \in {"open", "copy", "done", "error", "dead"}
  /\ place = "copy" => file_i \in 0 .. CopySize
  /\ place # "copy" \/ method = "sys" \/ output = "a" => unstored = << >>

\* With system calls the output begins with the input, as far as any run has come.
SysCopies ==
  method = "sys" /\ output = "b" =>
    \E n \in 0 .. CopySize :
      /\ files["b"] = Spliced(original["a"], n, original["b"])
      /\ place = "copy" => file_i <= n
      /\ place \in {"done", "error"} => n = CopySize

\* With stdio the output is what this run has stored, and the rest is to come.
LibCopies ==
  method = "lib" /\ output = "b" =>
    /\ place = "copy" =>
         \E n \in 0 .. file_i :
           /\ files["b"] = Spliced(original["a"], n, << >>)
           /\ Len(unstored) = file_i - n /\ Consecutive(unstored, original["a"], n)
    /\ place \in {"open", "dead"} =>
         \E n \in 0 .. CopySize, old \in {<< >>, original["b"]} :
           files["b"] = Spliced(original["a"], n, old)
    /\ place \in {"done", "error"} => files["b"] = Spliced(original["a"], CopySize, << >>)

\* Only stdio destroys a file that is to be copied to itself.
InputStays ==
  \/ /\ files["a"] = original["a"]
     /\ method = "lib" /\ output = "a" => place # "copy" /\ place # "done"
  \/ /\ method = "lib" /\ output = "a" /\ files["a"] = << >>
     /\ place = "copy" => file_i = 0
     /\ place = "done" => records = 0

CopyInvariant == FileTypes /\ CopyPlaces /\ SysCopies /\ LibCopies /\ InputStays

LEMMA WhatIsStored ==
  ASSUME ArgumentTypes, FileTypes, NEW writes
  PROVE  /\ Stored(writes) = [files EXCEPT ![output] = Written(files[output], writes)]
         /\ Stored(writes)[output] = Written(files[output], writes)
         /\ \A name \in {"a", "b"} : name # output => Stored(writes)[name] = files[name]
<1>1. Stored(writes) = [files EXCEPT ![output] = Written(files[output], writes)]
  BY DEF Stored, Written
<1> QED
  BY <1>1 DEF ArgumentTypes, FileTypes

LEMMA NothingStored ==
  ASSUME ArgumentTypes, FileTypes
  PROVE  Stored(<< >>) = files
<1>1. Stored(<< >>) = [files EXCEPT ![output] = files[output]]
  BY WhatIsStored, NothingToStore
<1> QED
  BY <1>1 DEF FileTypes

LEMMA ArgumentsAtStart == FilesInit => ArgumentTypes /\ FileTypes
<1> SUFFICES ASSUME FilesInit PROVE ArgumentTypes /\ FileTypes
  OBVIOUS
<1>1. PICK n \in 0 .. MaxLength, m \in 0 .. MaxLength :
        \E keys \in [1 .. n -> Keys] :
          files = [a |-> Named("a", keys), b |-> Named("b", [p \in 1 .. m |-> 0])]
  BY DEF FilesInit
<1>2. PICK keys \in [1 .. n -> Keys] :
        files = [a |-> Named("a", keys), b |-> Named("b", [p \in 1 .. m |-> 0])]
  BY <1>1
<1>3. n \in Nat /\ m \in Nat
  BY BoundsAssumption
<1>4. Named("a", keys) \in Seq(Record)
  <2>1. \A p \in 1 .. n : keys[p] \in 0 .. 255 /\ p \in Nat
    <3>1. \A p \in 1 .. n : keys[p] \in Keys /\ p \in Nat
      BY <1>3
    <3>2. \A key \in Keys : key \in 0 .. 255
      BY KeysAssumption, Zenon
    <3> QED
      BY <3>1, <3>2
  <2>2. \A p \in 1 .. n : [key |-> keys[p], from |-> "a", at |-> p] \in Record
    BY <2>1 DEF Record
  <2> QED
    BY <1>3, <2>2 DEF Named
<1>5. Named("b", [p \in 1 .. m |-> 0]) \in Seq(Record)
  BY <1>3 DEF Named, Record
<1>6. files \in [{"a", "b"} -> Seq(Record)]
  BY <1>2, <1>4, <1>5
<1> QED
  BY <1>6, BoundsAssumption DEF FilesInit, ArgumentTypes, FileTypes

\* The size is a number of records of the input.
LEMMA SizeOfCopy ==
  ASSUME ArgumentTypes
  PROVE  /\ original["a"] \in Seq(Record) /\ original["b"] \in Seq(Record)
         /\ << >> \in Seq(Record) /\ Len(original["a"]) \in Nat
         /\ CopySize \in 0 .. Len(original["a"])
         /\ CopySize <= records
         /\ CopySize = records \/ CopySize = Len(original["a"])
<1>1. original["a"] \in Seq(Record) /\ original["b"] \in Seq(Record) /\ records \in Nat
  BY DEF ArgumentTypes
<1>2. Len(original["a"]) \in Nat
  BY <1>1, LenProperties
<1> QED
  BY <1>1, <1>2 DEF CopySize

LEMMA NothingSpliced ==
  ASSUME NEW S, NEW file \in Seq(S), NEW old \in Seq(S)
  PROVE  old = Spliced(file, 0, old)
<1>1. Len(file) \in Nat /\ Len(old) \in Nat
  BY LenProperties
<1>2. PICK n \in 0 .. Len(file) : n = 0
  BY <1>1
<1>3. /\ Len(old) = IF n < Len(old) THEN Len(old) ELSE n
      /\ \A p \in 1 .. n : old[p] = file[p]
  BY <1>1, <1>2
<1>4. old = Spliced(file, n, old)
  BY <1>3, IsSpliced
<1> QED
  BY <1>2, <1>4

LEMMA CopyStarts ==
  ASSUME FilesInit, command = "copy"
  PROVE  CopyInvariant
<1>1. ArgumentTypes /\ FileTypes
  BY ArgumentsAtStart
<1>2. place = "open" /\ files = original /\ unstored = << >>
  BY DEF FilesInit
<1>3. original["b"] = Spliced(original["a"], 0, original["b"])
  BY <1>1, SizeOfCopy, NothingSpliced
<1>4. 0 \in 0 .. CopySize
  BY <1>1, SizeOfCopy
<1>5. CopyPlaces /\ InputStays
  BY <1>2 DEF CopyPlaces, InputStays
<1>6. SysCopies /\ LibCopies
  BY <1>2, <1>3, <1>4 DEF SysCopies, LibCopies
<1> QED
  BY <1>1, <1>5, <1>6 DEF CopyInvariant

\* Opening, ending, being killed and being started again.
LEMMA CopyPhases ==
  ASSUME ArgumentTypes, CopyInvariant, OpenToCopy \/ Crash \/ Repeat,
         ArgumentTypes', UNCHANGED fileArguments
  PROVE  CopyInvariant'
<1> USE DEF CopyInvariant
<1>1. /\ UNCHANGED <<command, method, records, output, original>> /\ CopySize' = CopySize
  BY DEF fileArguments, CopySize
<1>2. /\ original["a"] \in Seq(Record) /\ original["b"] \in Seq(Record)
      /\ << >> \in Seq(Record) /\ CopySize \in 0 .. Len(original["a"])
      /\ 0 \in 0 .. CopySize /\ CopySize \in Nat
  BY SizeOfCopy
<1>3. CASE OpenToCopy /\ method = "lib"
  <2>1. /\ place = "open" /\ place' = "copy" /\ file_i' = 0
        /\ files' = [files EXCEPT ![output] = << >>]
        /\ unstored' = unstored /\ unstored = << >> /\ crashes' = crashes
    BY <1>3 DEF OpenToCopy, CopyPlaces
  <2>2. FileTypes' /\ files'[output] = << >>
        /\ (output = "b" => files'["a"] = files["a"])
    BY <1>2, <2>1 DEF FileTypes, ArgumentTypes
  <2>3. << >> = Spliced(original["a"], 0, << >>)
    BY <1>2, NothingSpliced
  <2>4. Len(unstored) = 0 - 0 /\ Consecutive(unstored, original["a"], 0)
    BY <2>1, EmptySeq DEF Consecutive
  <2>5. CopyPlaces' /\ InputStays'
    BY <1>1, <1>2, <1>3, <2>1, <2>2 DEF ArgumentTypes, CopyPlaces, InputStays
  <2>6. SysCopies' /\ LibCopies'
    <3>1. 0 \in 0 .. 0
      OBVIOUS
    <3> QED
      BY <1>1, <1>3, <2>1, <2>2, <2>3, <2>4, <3>1 DEF SysCopies, LibCopies
  <2> QED
    BY <2>2, <2>5, <2>6
<1>4. CASE OpenToCopy /\ method = "sys"
  <2>1. /\ place = "open" /\ place' = "copy" /\ file_i' = 0
        /\ UNCHANGED <<files, unstored, crashes>>
    BY <1>4 DEF OpenToCopy
  <2>2. FileTypes' /\ CopyPlaces' /\ InputStays'
    BY <1>1, <1>2, <1>4, <2>1 DEF FileTypes, CopyPlaces, InputStays
  <2>3. SysCopies' /\ LibCopies'
    BY <1>1, <1>2, <1>4, <2>1 DEF SysCopies, LibCopies
  <2> QED
    BY <2>2, <2>3
<1>5. CASE Crash \/ Repeat
  <2>1. /\ place \in {"open", "copy", "dead"} /\ place' \in {"open", "dead"}
        /\ files' = files /\ unstored' = << >> /\ crashes' \in Nat
    BY <1>5 DEF Crash, Repeat, CopyPlaces, FileTypes
  <2>2. FileTypes' /\ CopyPlaces' /\ InputStays'
    BY <1>1, <2>1, EmptySeq DEF FileTypes, CopyPlaces, InputStays
  <2>3. SysCopies'
    BY <1>1, <2>1 DEF SysCopies
  <2>4. LibCopies'
    <3>1. SUFFICES ASSUME method = "lib", output = "b"
                   PROVE  \E n \in 0 .. CopySize, old \in {<< >>, original["b"]} :
                            files["b"] = Spliced(original["a"], n, old)
      BY <1>1, <2>1 DEF LibCopies
    <3>2. CASE place = "copy"
      <4>1. PICK n \in 0 .. file_i : files["b"] = Spliced(original["a"], n, << >>)
        BY <3>1, <3>2 DEF LibCopies
      <4>2. n \in 0 .. CopySize
        BY <1>2, <3>2, <4>1 DEF CopyPlaces
      <4> QED
        BY <4>1, <4>2
    <3>3. CASE place # "copy"
      BY <2>1, <3>1, <3>3 DEF LibCopies
    <3> QED
      BY <3>2, <3>3
  <2> QED
    BY <2>2, <2>3, <2>4
<1> QED
  BY <1>3, <1>4, <1>5 DEF ArgumentTypes

\* Everything is stored, and the run ends.
LEMMA CopyEnds ==
  ASSUME ArgumentTypes, CopyInvariant, command = "copy", InputEnds \/ Close,
         ArgumentTypes', UNCHANGED fileArguments
  PROVE  CopyInvariant'
<1> USE DEF CopyInvariant
<1>1. /\ UNCHANGED <<command, method, records, output, original>> /\ CopySize' = CopySize
  BY DEF fileArguments, CopySize
<1>2. /\ original["a"] \in Seq(Record) /\ original["b"] \in Seq(Record)
      /\ << >> \in Seq(Record) /\ CopySize \in 0 .. Len(original["a"])
      /\ CopySize <= records /\ (CopySize = records \/ CopySize = Len(original["a"]))
      /\ CopySize \in Nat /\ records \in Nat /\ Len(original["a"]) \in Nat
  BY SizeOfCopy DEF ArgumentTypes
<1>3. /\ place = "copy" /\ place' \in {"done", "error"}
      /\ files' = Stored(unstored) /\ unstored' = << >> /\ UNCHANGED <<file_i, crashes>>
      /\ file_i >= records \/ file_i >= Len(files["a"])
      /\ place' = "done" => file_i >= records
  BY DEF InputEnds, Close, StoreAll, Current, CopyPlaces
<1>4. file_i \in 0 .. CopySize
  BY <1>3 DEF CopyPlaces
<1>5. CASE method = "sys" \/ output = "a"
  <2>1. files' = files
    BY <1>3, <1>5, NothingStored DEF CopyPlaces
  <2>2. FileTypes' /\ CopyPlaces'
    BY <1>1, <1>3, <2>1, EmptySeq DEF FileTypes, CopyPlaces
  <2>3. InputStays' /\ LibCopies'
    BY <1>1, <1>2, <1>3, <1>4, <1>5, <2>1 DEF ArgumentTypes, InputStays, LibCopies
  <2>4. SysCopies'
    <3>1. SUFFICES ASSUME method = "sys", output = "b"
                   PROVE  files["b"] = Spliced(original["a"], CopySize, original["b"])
      <4>1. CopySize \in 0 .. CopySize
        BY <1>2
      <4> QED
        BY <1>1, <1>3, <2>1, <4>1 DEF SysCopies
    <3>2. PICK n \in 0 .. CopySize :
            files["b"] = Spliced(original["a"], n, original["b"]) /\ file_i <= n
      BY <1>3, <3>1 DEF SysCopies
    <3>3. files["a"] = original["a"]
      BY <3>1 DEF InputStays
    <3>4. n = CopySize
      BY <1>2, <1>3, <1>4, <3>2, <3>3
    <3> QED
      BY <3>2, <3>4
  <2> QED
    BY <2>2, <2>3, <2>4
<1>6. CASE method = "lib" /\ output = "b"
  <2>1. files["a"] = original["a"]
    BY <1>6 DEF InputStays
  <2>2. file_i = CopySize
    BY <1>2, <1>3, <1>4, <2>1
  <2>3. PICK n \in 0 .. file_i :
           /\ files["b"] = Spliced(original["a"], n, << >>)
           /\ Len(unstored) = file_i - n /\ Consecutive(unstored, original["a"], n)
    BY <1>3, <1>6 DEF LibCopies
  <2>4. PICK m \in Nat : m = file_i - n
    BY <1>2, <1>4, <2>3
  <2>5. Written(files["b"], unstored) = Spliced(original["a"], CopySize, << >>)
    <3>1. n \in Nat /\ n \in 0 .. Len(original["a"]) /\ n + m = CopySize
          /\ n + m <= Len(original["a"])
      BY <1>2, <1>4, <2>2, <2>3, <2>4
    <3>2. DOMAIN unstored = 1 .. m
      BY <2>3, <2>4, LenProperties DEF FileTypes
    <3>3. PICK old \in Seq(Record) : old = << >>
      BY <1>2
    <3>4. original["a"] \in Seq(Record) /\ Consecutive(unstored, original["a"], n)
      BY <1>2, <2>3
    <3>5. Written(Spliced(original["a"], n, old), unstored) = Spliced(original["a"], n + m, old)
      BY <3>1, <3>2, <3>4, SplicedByMany
    <3> QED
      BY <2>3, <3>1, <3>3, <3>5
  <2>6. /\ files' = [files EXCEPT !["b"] = Spliced(original["a"], CopySize, << >>)]
        /\ Spliced(original["a"], CopySize, << >>) \in Seq(Record)
    BY <1>2, <1>3, <1>6, <2>5, WhatIsStored, SplicedProperties
  <2>7. FileTypes' /\ CopyPlaces' /\ files'["a"] = files["a"]
        /\ files'["b"] = Spliced(original["a"], CopySize, << >>)
    BY <1>1, <1>3, <2>6, EmptySeq DEF FileTypes, CopyPlaces
  <2>8. InputStays' /\ SysCopies' /\ LibCopies'
    BY <1>1, <1>3, <1>6, <2>1, <2>7 DEF InputStays, SysCopies, LibCopies
  <2> QED
    BY <2>7, <2>8
<1> QED
  BY <1>5, <1>6 DEF ArgumentTypes

\* One record more is copied.
LEMMA CopyGoesOn ==
  ASSUME ArgumentTypes, CopyInvariant, CopyRecord,
         ArgumentTypes', UNCHANGED fileArguments
  PROVE  CopyInvariant'
<1> USE DEF CopyInvariant
<1> DEFINE what == files["a"][file_i + 1]
           write == [index |-> file_i, record |-> what]
<1>1. /\ UNCHANGED <<command, method, records, output, original>> /\ CopySize' = CopySize
  BY DEF fileArguments, CopySize
<1>2. /\ original["a"] \in Seq(Record) /\ original["b"] \in Seq(Record)
      /\ CopySize \in 0 .. Len(original["a"]) /\ CopySize \in Nat
      /\ CopySize <= records /\ (CopySize = records \/ CopySize = Len(original["a"]))
      /\ Len(original["a"]) \in Nat /\ records \in Nat
  BY SizeOfCopy DEF ArgumentTypes
<1>3. /\ place = "copy" /\ place' = "copy" /\ file_i < records /\ file_i < Len(files["a"])
      /\ file_i' = file_i + 1 /\ crashes' = crashes
      /\ IF method = "sys" THEN files' = Stored(<< write >>) /\ unstored' = unstored
         ELSE unstored' = Append(unstored, write) /\ files' = files
  BY DEF CopyRecord, WriteNext
<1>4. files["a"] = original["a"] /\ ~(method = "lib" /\ output = "a")
  BY <1>3, EmptySeq DEF InputStays, CopyPlaces
<1>5. /\ file_i \in Nat /\ file_i < CopySize /\ file_i + 1 \in 0 .. CopySize
      /\ file_i + 1 \in 1 .. Len(original["a"]) /\ file_i < Len(original["a"])
  BY <1>2, <1>3, <1>4 DEF CopyPlaces
<1>6. what \in Record /\ write \in Write /\ write.index = file_i
      /\ write.record = original["a"][file_i + 1]
  <2>1. what \in Record
    BY <1>2, <1>4, <1>5
  <2> HIDE DEF what
  <2>2. write \in Write /\ write.index = file_i /\ write.record = what
    BY <1>5, <2>1 DEF Write
  <2> QED
    BY <1>4, <2>1, <2>2 DEF what
<1> HIDE DEF write
<1>7. CopyPlaces'
  BY <1>1, <1>3, <1>4, <1>5 DEF CopyPlaces, ArgumentTypes
<1>8. CASE method = "sys" /\ output = "a"
  <2>1. files["a"] \in Seq(Record) /\ file_i \in 0 .. Len(files["a"]) - 1
    BY <1>2, <1>4, <1>5
  <2>2. Put(files["a"], write) = files["a"]
    <3>1. /\ Put(files["a"], write) \in Seq(Record)
          /\ Len(Put(files["a"], write)) = Len(files["a"])
          /\ \A p \in 1 .. Len(files["a"]) : Put(files["a"], write)[p] = files["a"][p]
      BY <1>4, <1>6, <2>1, PutInside
    <3> QED
      BY <2>1, <3>1, SeqEqual
  <2>3. files' = files /\ unstored' = unstored
    BY <1>3, <1>8, <2>2, WhatIsStored, OneToStore DEF FileTypes
  <2>4. FileTypes' /\ InputStays' /\ SysCopies' /\ LibCopies'
    BY <1>1, <1>3, <1>4, <1>8, <2>3 DEF FileTypes, InputStays, SysCopies, LibCopies
  <2> QED
    BY <1>7, <2>4
<1>9. CASE method = "sys" /\ output = "b"
  <2>1. PICK n \in 0 .. CopySize :
          files["b"] = Spliced(original["a"], n, original["b"]) /\ file_i <= n
    BY <1>3, <1>9 DEF SysCopies
  <2>2. PICK m \in 0 .. CopySize : m = IF file_i < n THEN n ELSE n + 1
    BY <1>2, <1>5, <2>1
  <2>3. n \in 0 .. Len(original["a"]) /\ file_i \in 0 .. n /\ file_i + 1 <= m
        /\ m \in 0 .. Len(original["a"])
    BY <1>2, <1>5, <2>1, <2>2
  <2>4. Put(files["b"], write) = Spliced(original["a"], m, original["b"])
    BY <1>2, <1>5, <1>6, <2>1, <2>2, <2>3, SplicedByOne
  <2>5. /\ files' = [files EXCEPT !["b"] = Spliced(original["a"], m, original["b"])]
        /\ Spliced(original["a"], m, original["b"]) \in Seq(Record)
        /\ unstored' = unstored
    <3>1. /\ files' = Stored(<< write >>) /\ unstored' = unstored /\ output = "b"
          /\ Stored(<< write >>) = [files EXCEPT ![output] = Written(files[output], << write >>)]
      BY <1>3, <1>9, WhatIsStored
    <3>2. Written(files["b"], << write >>) = Spliced(original["a"], m, original["b"])
      BY <2>4, OneToStore
    <3>3. Spliced(original["a"], m, original["b"]) \in Seq(Record)
      BY <1>2, <2>3, SplicedProperties
    <3> QED
      BY <3>1, <3>2, <3>3
  <2>6. FileTypes' /\ files'["a"] = files["a"]
        /\ files'["b"] = Spliced(original["a"], m, original["b"])
    BY <1>3, <2>5 DEF FileTypes
  <2>7. InputStays' /\ SysCopies' /\ LibCopies'
    BY <1>1, <1>3, <1>4, <1>9, <2>3, <2>6 DEF InputStays, SysCopies, LibCopies
  <2> QED
    BY <1>7, <2>6, <2>7
<1>10. CASE method = "lib" /\ output = "b"
  <2>1. PICK n \in 0 .. file_i :
          /\ files["b"] = Spliced(original["a"], n, << >>)
          /\ Len(unstored) = file_i - n /\ Consecutive(unstored, original["a"], n)
    BY <1>3, <1>10 DEF LibCopies
  <2>2. files' = files /\ unstored' = Append(unstored, write)
    BY <1>3, <1>10
  <2>3. /\ unstored \in Seq(Write) /\ Len(unstored) \in Nat /\ DOMAIN unstored = 1 .. Len(unstored)
        /\ n + (Len(unstored) + 1) - 1 = file_i /\ n + (Len(unstored) + 1) = file_i + 1
    BY <1>5, <2>1, LenProperties DEF FileTypes
  <2>4. /\ unstored' \in Seq(Write) /\ Len(unstored') = Len(unstored) + 1
        /\ DOMAIN unstored' = 1 .. Len(unstored) + 1
        /\ unstored'[Len(unstored) + 1] = write
        /\ \A k \in 1 .. Len(unstored) : unstored'[k] = unstored[k]
    BY <1>6, <2>2, <2>3, AppendProperties, LenProperties
  <2>5. Consecutive(unstored', original["a"], n)
    <3>1. ASSUME NEW k \in 1 .. Len(unstored) + 1
          PROVE  unstored'[k].index = n + k - 1 /\ unstored'[k].record = original["a"][n + k]
      <4>1. k \in 1 .. Len(unstored) \/ k = Len(unstored) + 1
        BY <2>3
      <4> QED
        BY <1>6, <2>1, <2>3, <2>4, <4>1 DEF Consecutive
    <3> QED
      BY <2>4, <3>1 DEF Consecutive
  <2>6. Len(unstored') = (file_i + 1) - n /\ n \in 0 .. file_i + 1
    BY <1>5, <2>1, <2>4
  <2>7. FileTypes' /\ InputStays' /\ SysCopies' /\ LibCopies'
    BY <1>1, <1>3, <1>4, <1>10, <2>1, <2>2, <2>4, <2>5, <2>6
       DEF FileTypes, InputStays, SysCopies, LibCopies
  <2> QED
    BY <1>7, <2>7
<1> QED
  BY <1>4, <1>8, <1>9, <1>10 DEF ArgumentTypes

\* stdio stores the first of the writes it has.
LEMMA CopyIsStored ==
  ASSUME ArgumentTypes, CopyInvariant, StdioStores,
         ArgumentTypes', UNCHANGED fileArguments
  PROVE  CopyInvariant'
<1> USE DEF CopyInvariant
<1>1. /\ UNCHANGED <<command, method, records, output, original>> /\ CopySize' = CopySize
      /\ UNCHANGED <<place, file_i, crashes>>
  BY DEF StdioStores, fileArguments, CopySize
<1>2. /\ original["a"] \in Seq(Record) /\ CopySize \in 0 .. Len(original["a"])
      /\ Len(original["a"]) \in Nat /\ CopySize \in Nat
      /\ unstored \in Seq(Write) /\ Len(unstored) \in Nat
  BY SizeOfCopy, LenProperties DEF FileTypes
<1>3. PICK m \in 1 .. Len(unstored) :
        /\ files' = Stored(SubSeq(unstored, 1, m))
        /\ unstored' = SubSeq(unstored, m + 1, Len(unstored))
  BY DEF StdioStores
<1>4. unstored # << >> /\ method = "lib" /\ output = "b" /\ place = "copy"
  BY <1>2, <1>3, EmptySeq DEF CopyPlaces, ArgumentTypes
<1>5. /\ file_i \in 0 .. CopySize
      /\ \E n \in 0 .. file_i :
           /\ files["b"] = Spliced(original["a"], n, << >>)
           /\ Len(unstored) = file_i - n /\ Consecutive(unstored, original["a"], n)
  BY <1>4 DEF LibCopies, CopyPlaces
<1>6. PICK n \in 0 .. file_i :
           /\ files["b"] = Spliced(original["a"], n, << >>)
           /\ Len(unstored) = file_i - n /\ Consecutive(unstored, original["a"], n)
  BY <1>5
<1>7. /\ m \in Nat /\ n \in Nat /\ n + m \in 0 .. file_i /\ n + m <= Len(original["a"])
      /\ m \in 0 .. Len(unstored) /\ m + 1 \in Nat \ {0} /\ 1 \in Nat \ {0}
      /\ Len(unstored) \in 0 .. Len(unstored)
      /\ m - 1 + 1 = m /\ n \in 0 .. Len(original["a"]) /\ n + m \in 0 .. Len(original["a"])
  BY <1>2, <1>3, <1>5, <1>6
<1> DEFINE first == SubSeq(unstored, 1, m)  rest == SubSeq(unstored, m + 1, Len(unstored))
<1>8. /\ first \in Seq(Write) /\ Len(first) = m /\ DOMAIN first = 1 .. m
      /\ \A k \in 1 .. m : first[k] = unstored[k]
  <2>1. /\ first \in Seq(Write) /\ Len(first) = m
        /\ \A k \in 1 .. m : first[k] = unstored[k]
    BY <1>2, <1>3, <1>7, Slice
  <2> QED
    BY <2>1, LenProperties
<1>9. /\ rest \in Seq(Write) /\ Len(rest) = Len(unstored) - m
      /\ DOMAIN rest = 1 .. Len(unstored) - m
      /\ \A k \in 1 .. Len(unstored) - m : rest[k] = unstored[m + k]
  <2>1. /\ rest \in Seq(Write)
        /\ Len(rest) = IF m + 1 <= Len(unstored) THEN Len(unstored) - (m + 1) + 1 ELSE 0
        /\ \A k \in 1 .. Len(unstored) - (m + 1) + 1 : rest[k] = unstored[(m + 1) + k - 1]
    BY <1>2, <1>7, Slice
  <2> HIDE DEF rest
  <2>2. Len(rest) = Len(unstored) - m /\ Len(unstored) - (m + 1) + 1 = Len(unstored) - m
    BY <1>2, <1>3, <2>1
  <2>3. \A k \in 1 .. Len(unstored) - m : (m + 1) + k - 1 = m + k
    BY <1>2, <1>7
  <2> QED
    BY <2>1, <2>2, <2>3, LenProperties
<1> HIDE DEF first, rest
<1>10. Consecutive(first, original["a"], n)
  <2>1. \A k \in 1 .. m : k \in DOMAIN unstored
    BY <1>2, <1>7, LenProperties
  <2> QED
    BY <1>6, <1>8, <2>1 DEF Consecutive
<1>11. Consecutive(rest, original["a"], n + m)
  <2>1. ASSUME NEW k \in 1 .. Len(unstored) - m
        PROVE  rest[k].index = (n + m) + k - 1 /\ rest[k].record = original["a"][(n + m) + k]
    <3>1. PICK l \in DOMAIN unstored : l = m + k
      BY <1>2, <1>7, LenProperties
    <3>2. l \in Int /\ n + l = (n + m) + k /\ n + l - 1 = (n + m) + k - 1
      BY <1>7, <3>1
    <3>3. rest[k] = unstored[l]
      BY <1>9, <3>1
    <3>4. unstored[l].index = n + l - 1 /\ unstored[l].record = original["a"][n + l]
      BY <1>6 DEF Consecutive
    <3> QED
      BY <3>2, <3>3, <3>4
  <2> QED
    BY <1>9, <2>1 DEF Consecutive
<1>12. Written(files["b"], first) = Spliced(original["a"], n + m, << >>)
  <2>1. PICK old \in Seq(Record) : old = << >>
    BY EmptySeq
  <2>2. Written(Spliced(original["a"], n, old), first) = Spliced(original["a"], n + m, old)
    BY <1>2, <1>7, <1>8, <1>10, SplicedByMany
  <2> QED
    BY <1>6, <2>1, <2>2
<1>13. /\ files' = [files EXCEPT !["b"] = Spliced(original["a"], n + m, << >>)]
       /\ Spliced(original["a"], n + m, << >>) \in Seq(Record)
       /\ unstored' = rest
  BY <1>2, <1>3, <1>4, <1>7, <1>12, WhatIsStored, SplicedProperties, EmptySeq DEF first, rest
<1>14. FileTypes' /\ files'["a"] = files["a"]
       /\ files'["b"] = Spliced(original["a"], n + m, << >>)
  BY <1>1, <1>9, <1>13 DEF FileTypes
<1>15. Len(unstored') = file_i - (n + m) /\ Consecutive(unstored', original["a"], n + m)
  <2>1. Len(rest) = file_i - (n + m)
    BY <1>2, <1>5, <1>6, <1>7, <1>9
  <2> QED
    BY <1>11, <1>13, <2>1
<1>16. LibCopies'
  BY <1>1, <1>4, <1>7, <1>14, <1>15 DEF LibCopies
<1>17. CopyPlaces' /\ SysCopies' /\ InputStays'
  BY <1>1, <1>4, <1>14 DEF CopyPlaces, SysCopies, InputStays
<1> QED
  BY <1>14, <1>16, <1>17

LEMMA CopyPreserved ==
  ASSUME ArgumentTypes, command = "copy", CopyInvariant, FilesNext, ArgumentTypes',
         UNCHANGED fileArguments
  PROVE  CopyInvariant'
<1>1. ~(OpenToSort \/ LoadRecord \/ MoveSwap \/ FindPlace \/ InsertRecord)
  BY DEF CopyInvariant, CopyPlaces, OpenToSort, LoadRecord, MoveSwap, FindPlace, InsertRecord
<1> QED
  BY <1>1, CopyPhases, CopyEnds, CopyGoesOn, CopyIsStored DEF FilesNext

LEMMA CopyMeaning ==
  ASSUME ArgumentTypes, CopyInvariant
  PROVE  CopyFaithful
<1> USE DEF CopyInvariant
<1>1. /\ CopySize \in 0 .. CopySize
      /\ CopySize = IF records < Len(original["a"]) THEN records ELSE Len(original["a"])
  BY SizeOfCopy DEF CopySize
<1>2. \A n, old : Copied(n, old) = Spliced(original["a"], n, old)
  BY DEF Copied, Spliced
<1>3. CASE output = "b"
  <2>1. files["a"] = original["a"]
    BY <1>3 DEF InputStays
  <2>2. CASE method = "sys"
    <3>1. PICK n \in 0 .. CopySize :
            /\ files["b"] = Spliced(original["a"], n, original["b"])
            /\ place \in {"done", "error"} => n = CopySize
      BY <1>3, <2>2 DEF SysCopies
    <3> QED
      BY <1>1, <1>2, <1>3, <2>1, <2>2, <3>1 DEF CopyFaithful
  <2>3. CASE method = "lib"
    <3>1. CASE place = "copy"
      <4>1. PICK n \in 0 .. file_i : files["b"] = Spliced(original["a"], n, << >>)
        BY <1>3, <2>3, <3>1 DEF LibCopies
      <4>2. n \in 0 .. CopySize
        BY <1>1, <3>1, <4>1, SizeOfCopy DEF CopyPlaces
      <4> QED
        BY <1>1, <1>2, <1>3, <2>1, <2>3, <3>1, <4>1, <4>2 DEF CopyFaithful
    <3>2. CASE place \in {"open", "dead"}
      <4>1. PICK n \in 0 .. CopySize, old \in {<< >>, original["b"]} :
              files["b"] = Spliced(original["a"], n, old)
        BY <1>3, <2>3, <3>2 DEF LibCopies
      <4> QED
        BY <1>1, <1>2, <1>3, <2>1, <2>3, <3>2, <4>1 DEF CopyFaithful
    <3>3. CASE place \in {"done", "error"}
      <4>1. files["b"] = Spliced(original["a"], CopySize, << >>)
        BY <1>3, <2>3, <3>3 DEF LibCopies
      <4> QED
        BY <1>1, <1>2, <1>3, <2>1, <2>3, <3>3, <4>1 DEF CopyFaithful
    <3> QED
      BY <3>1, <3>2, <3>3 DEF CopyPlaces
  <2> QED
    BY <2>2, <2>3 DEF ArgumentTypes
<1>4. CASE output = "a"
  BY <1>4 DEF InputStays, CopyFaithful
<1> QED
  BY <1>3, <1>4 DEF ArgumentTypes

-----------------------------------------------------------------------------
(* RecordFiles: the invariant of the sort.                                 *)

\* The file as the program sees it.
Visible == Written(files["a"], unstored)

\* A sort writes only where there are records, and stdio keeps one of its writes at most.
SortFiles ==
  /\ FileTypes
  /\ Len(files["a"]) = Len(original["a"])
  /\ \/ unstored = << >>
     \/ \E write \in Write : unstored = << write >> /\ write.index < Len(original["a"])
  /\ method = "sys" => unstored = << >>

Sorting == {"load", "search", "insert", "done", "error"}

SortPlaces ==
  /\ place \in Sorting \cup {"open", "dead"}
  /\ place \notin {"load", "search", "insert"} => unstored = << >>
  /\ before \in Seq(Record) /\ Len(before) = Len(original["a"])
  /\ place \in Sorting => file_i \in Nat \ {0}
  /\ place \in {"load", "done", "error"} =>
       file_i = 1 \/ (file_i <= records /\ file_i <= Len(before))
  /\ place \in {"search", "insert"} =>
       /\ file_i < records /\ file_i < Len(before) /\ file_j \in 0 .. file_i
       /\ record = before[file_i + 1]
  /\ place = "done" => file_i >= records
  /\ place = "error" => file_i < records /\ file_i >= Len(before)

InOrder(order, n) == \A p, q \in 1 .. n : p < q => Precedes(order[p], order[q])

\* The first n records of the file are those of the input in their order.
SortedTo(file, n) ==
  \E order \in Orders(n) :
    /\ InOrder(order, n)
    /\ \A p \in 1 .. n : file[p] = before[order[p]]
    /\ \A p \in n + 1 .. Len(before) : file[p] = before[p]

\* The same while a record is inserted: those behind the gap at j are a place further.
Gap(file, order, n, j) ==
  /\ InOrder(order, n)
  /\ \A p \in 1 .. j : file[p] = before[order[p]]
  /\ \A p \in j + 1 .. n : file[p + 1] = before[order[p]] /\ before[order[p]].key > record.key
  /\ \A p \in n + 2 .. Len(before) : file[p] = before[p]

SortedSoFar ==
  /\ place \in {"load", "done", "error"} =>
       SortedTo(Visible, IF Len(before) = 0 THEN 0 ELSE file_i)
  /\ place \in {"search", "insert"} =>
       \E order \in Orders(file_i) :
         /\ Gap(Visible, order, file_i, file_j)
         /\ place = "insert" /\ file_j > 0 => ~(before[order[file_j]].key > record.key)

\* What has been lost in all runs, or in those before this one, is counted; what this run
\* would lose is one record at most.
Lost(file) == Range(original["a"]) \ Range(file)
Keeps(file) == \E x : Range(before) \subseteq Range(file) \cup {x}

Losses ==
  /\ place \notin Sorting => Cardinality(Lost(files["a"])) <= crashes
  /\ place \in Sorting => Cardinality(Lost(before)) <= crashes /\ Keeps(files["a"])

SortInvariant == SortFiles /\ SortPlaces /\ SortedSoFar /\ Losses

LEMMA WhatIsAnOrder ==
  ASSUME NEW n \in Nat
  PROVE  /\ \A order \in Orders(n) :
              /\ order \in [1 .. n -> 1 .. n]
              /\ \A p, q \in 1 .. n : order[p] = order[q] => p = q
              /\ \A r \in 1 .. n : \E p \in 1 .. n : order[p] = r
         /\ \A order \in [1 .. n -> 1 .. n] :
              /\ \A p, q \in 1 .. n : order[p] = order[q] => p = q
              /\ \A r \in 1 .. n : \E p \in 1 .. n : order[p] = r
              => order \in Orders(n)
BY DEF Orders, Bijection, Injection, Surjection, IsInjective

\* A number more, at any place.
LEMMA LongerOrder ==
  ASSUME NEW n \in Nat, NEW order \in Orders(n), NEW j \in 0 .. n
  PROVE  [p \in 1 .. n + 1 |-> IF p <= j THEN order[p]
                               ELSE IF p = j + 1 THEN n + 1 ELSE order[p - 1]] \in Orders(n + 1)
<1> DEFINE new == [p \in 1 .. n + 1 |-> IF p <= j THEN order[p]
                                        ELSE IF p = j + 1 THEN n + 1 ELSE order[p - 1]]
<1>1. /\ order \in [1 .. n -> 1 .. n]
      /\ \A p, q \in 1 .. n : order[p] = order[q] => p = q
      /\ \A r \in 1 .. n : \E p \in 1 .. n : order[p] = r
  BY WhatIsAnOrder
<1>2. /\ \A p \in 1 .. j : p \in 1 .. n
      /\ \A p \in j + 2 .. n + 1 : p - 1 \in 1 .. n
      /\ \A p \in 1 .. n + 1 : p \in 1 .. j \/ p = j + 1 \/ p \in j + 2 .. n + 1
      /\ j + 1 \in 1 .. n + 1 /\ j \in Nat
  OBVIOUS
<1>3. /\ \A p \in 1 .. j : new[p] = order[p]
      /\ new[j + 1] = n + 1
      /\ \A p \in j + 2 .. n + 1 : new[p] = order[p - 1]
  OBVIOUS
<1>4. \A p \in 1 .. n : order[p] \in 1 .. n + 1 /\ order[p] # n + 1
  BY <1>1
<1>5. new \in [1 .. n + 1 -> 1 .. n + 1]
  BY <1>1, <1>2, <1>4
<1> HIDE DEF new
<1>6. ASSUME NEW p \in 1 .. n + 1, NEW q \in 1 .. n + 1, new[p] = new[q] PROVE p = q
  <2>1. CASE p = j + 1
    <3>1. q \notin 1 .. j /\ q \notin j + 2 .. n + 1
      BY <1>2, <1>3, <1>4, <1>6, <2>1
    <3> QED
      BY <1>2, <2>1, <3>1
  <2>2. CASE q = j + 1
    <3>1. p \notin 1 .. j /\ p \notin j + 2 .. n + 1
      BY <1>2, <1>3, <1>4, <1>6, <2>2
    <3> QED
      BY <1>2, <2>2, <3>1
  <2>3. CASE p # j + 1 /\ q # j + 1
    <3>1. PICK a \in 1 .. n : new[p] = order[a] /\ a = IF p <= j THEN p ELSE p - 1
      BY <1>2, <1>3, <2>3
    <3>2. PICK b \in 1 .. n : new[q] = order[b] /\ b = IF q <= j THEN q ELSE q - 1
      BY <1>2, <1>3, <2>3
    <3>3. a = b
      BY <1>1, <1>6, <3>1, <3>2
    <3> QED
      BY <1>2, <2>3, <3>1, <3>2, <3>3
  <2> QED
    BY <2>1, <2>2, <2>3
<1>7. ASSUME NEW r \in 1 .. n + 1 PROVE \E p \in 1 .. n + 1 : new[p] = r
  <2>1. CASE r = n + 1
    BY <1>2, <1>3, <2>1
  <2>2. CASE r # n + 1
    <3>1. r \in 1 .. n
      BY <2>2
    <3>2. PICK p \in 1 .. n : order[p] = r
      BY <1>1, <3>1
    <3>3. CASE p <= j
      <4>1. p \in 1 .. j /\ p \in 1 .. n + 1
        BY <1>2, <3>3
      <4> QED
        BY <1>3, <3>2, <4>1
    <3>4. CASE ~(p <= j)
      <4>1. PICK q \in j + 2 .. n + 1 : q = p + 1
        BY <1>2, <3>4
      <4>2. q - 1 = p /\ q \in 1 .. n + 1
        BY <1>2, <4>1
      <4> QED
        BY <1>3, <3>2, <4>2
    <3> QED
      BY <3>3, <3>4
  <2> QED
    BY <2>1, <2>2
<1>8. new \in Orders(n + 1)
  <2>1. n + 1 \in Nat
    OBVIOUS
  <2> QED
    BY <1>5, <1>6, <1>7, <2>1, WhatIsAnOrder
<1> QED
  BY <1>8 DEF new

LEMMA KeysAreNumbers ==
  ASSUME NEW r \in Record
  PROVE  r.key \in Int
BY DEF Record

\* The record at the gap is inserted.
LEMMA Insertion ==
  ASSUME before \in Seq(Record), NEW n \in Nat, n < Len(before), NEW j \in 0 .. n,
         NEW file \in Seq(Record), Len(file) = Len(before),
         NEW order \in Orders(n), record = before[n + 1], Gap(file, order, n, j),
         j > 0 => ~(before[order[j]].key > record.key),
         NEW write, write.index = j, write.record = record
  PROVE  SortedTo(Put(file, write), n + 1)
<1> DEFINE new == [p \in 1 .. n + 1 |-> IF p <= j THEN order[p]
                                        ELSE IF p = j + 1 THEN n + 1 ELSE order[p - 1]]
           f == Put(file, write)
<1>1. /\ Len(before) \in Nat /\ j \in Nat /\ j \in 0 .. Len(file) - 1
      /\ n + 1 \in 1 .. Len(before) /\ j + 1 \in 1 .. Len(file)
      /\ \A q \in 1 .. Len(before) : before[q] \in Record /\ before[q].key \in Int
  <2>1. Len(before) \in Nat
    BY LenProperties
  <2>2. \A q \in 1 .. Len(before) : before[q] \in Record
    OBVIOUS
  <2> QED
    BY <2>1, <2>2, KeysAreNumbers
<1>2. /\ \A p \in 1 .. n : order[p] \in 1 .. n /\ order[p] \in 1 .. Len(before)
                           /\ order[p] \in Nat /\ order[p] < n + 1
  <2>1. order \in [1 .. n -> 1 .. n]
    BY WhatIsAnOrder
  <2>2. \A p \in 1 .. n : order[p] \in 1 .. n
    BY <2>1
  <2>3. \A r \in 1 .. n : r \in 1 .. Len(before) /\ r \in Nat /\ r < n + 1
    BY <1>1
  <2> QED
    BY <2>2, <2>3
<1>3. /\ f[j + 1] = record
      /\ \A p \in 1 .. Len(before) : p # j + 1 => f[p] = file[p]
  <2>1. write.record \in Record /\ write.index \in 0 .. Len(file) - 1
    BY <1>1
  <2> QED
    BY <2>1, PutInside
<1> HIDE DEF f
<1>4. /\ \A p \in 1 .. j : new[p] = order[p] /\ p \in 1 .. n
      /\ new[j + 1] = n + 1
      /\ \A p \in j + 2 .. n + 1 : new[p] = order[p - 1] /\ p - 1 \in j + 1 .. n
                                   /\ p - 1 \in 1 .. n /\ (p - 1) + 1 = p
      /\ \A p \in 1 .. n + 1 : p \in 1 .. j \/ p = j + 1 \/ p \in j + 2 .. n + 1
  <2>1. \A p \in 1 .. j : new[p] = order[p] /\ p \in 1 .. n
    OBVIOUS
  <2>2. new[j + 1] = n + 1
    OBVIOUS
  <2>3. \A p \in j + 2 .. n + 1 : new[p] = order[p - 1] /\ p - 1 \in j + 1 .. n
                                   /\ p - 1 \in 1 .. n /\ (p - 1) + 1 = p
    OBVIOUS
  <2> QED
    BY <1>1, <2>1, <2>2, <2>3
<1>5. new \in Orders(n + 1)
  BY LongerOrder
<1> HIDE DEF new
<1>6. ASSUME NEW p \in 1 .. n + 1 PROVE f[p] = before[new[p]]
  <2>1. CASE p \in 1 .. j
    <3>1. p \in 1 .. Len(before) /\ p # j + 1
      BY <1>1, <2>1
    <3> QED
      BY <1>3, <1>4, <2>1, <3>1 DEF Gap
  <2>2. CASE p = j + 1
    BY <1>3, <1>4, <2>2
  <2>3. CASE p \in j + 2 .. n + 1
    <3>1. PICK q \in j + 1 .. n : q = p - 1 /\ q + 1 = p /\ new[p] = order[q]
      BY <1>4, <2>3
    <3>2. file[q + 1] = before[order[q]]
      BY DEF Gap
    <3>3. p # j + 1 /\ p \in 1 .. Len(before)
      BY <1>1, <2>3
    <3> QED
      BY <1>3, <3>1, <3>2, <3>3
  <2> QED
    BY <1>4, <2>1, <2>2, <2>3
<1>7. ASSUME NEW p \in (n + 1) + 1 .. Len(before) PROVE f[p] = before[p]
  <2>1. p \in n + 2 .. Len(before) /\ p \in 1 .. Len(before) /\ p # j + 1
    BY <1>1
  <2> QED
    BY <1>3, <2>1 DEF Gap
\* Behind the record comes what has a greater key, before it what has not.
<1>8. ASSUME NEW p \in 1 .. j PROVE ~(before[order[p]].key > record.key)
  <2>1. j > 0 /\ p \in 1 .. n /\ j \in 1 .. n /\ (p = j \/ p < j)
    BY <1>1
  <2>2. p < j => Precedes(order[p], order[j])
    BY <2>1 DEF Gap, InOrder
  <2>3. before[order[p]].key \in Int /\ before[order[j]].key \in Int /\ record.key \in Int
    BY <1>1, <1>2, <2>1
  <2> QED
    BY <2>1, <2>2, <2>3 DEF Precedes
<1>9. InOrder(new, n + 1)
  <2>1. SUFFICES ASSUME NEW p \in 1 .. n + 1, NEW q \in 1 .. n + 1, p < q
                 PROVE  Precedes(new[p], new[q])
    BY DEF InOrder
  <2>2. CASE p = j + 1
    <3>1. q \in j + 2 .. n + 1
      BY <1>1, <1>4, <2>1, <2>2
    <3>2. PICK r \in j + 1 .. n : new[q] = order[r]
      BY <1>4, <3>1
    <3>3. before[order[r]].key > record.key
      BY DEF Gap
    <3>4. r \in 1 .. n
      BY <1>1
    <3>5. before[order[r]].key \in Int /\ record.key \in Int
      BY <1>1, <1>2, <3>4
    <3> QED
      BY <1>4, <2>2, <3>2, <3>3, <3>5 DEF Precedes
  <2>3. CASE q = j + 1
    <3>1. p \in 1 .. j
      BY <1>1, <1>4, <2>1, <2>3
    <3>2. ~(before[order[p]].key > record.key) /\ p \in 1 .. n
      BY <1>4, <1>8, <3>1
    <3>3. before[order[p]].key \in Int /\ record.key \in Int /\ order[p] < n + 1
      BY <1>1, <1>2, <3>2
    <3> QED
      BY <1>4, <2>3, <3>1, <3>2, <3>3 DEF Precedes
  <2>4. CASE p # j + 1 /\ q # j + 1
    <3>1. PICK a \in 1 .. n : new[p] = order[a] /\ a = IF p <= j THEN p ELSE p - 1
      BY <1>1, <1>4, <2>4
    <3>2. PICK b \in 1 .. n : new[q] = order[b] /\ b = IF q <= j THEN q ELSE q - 1
      BY <1>1, <1>4, <2>4
    <3>3. a < b
      BY <1>1, <2>1, <2>4, <3>1, <3>2
    <3> QED
      BY <3>1, <3>2, <3>3 DEF Gap, InOrder
  <2> QED
    BY <2>2, <2>3, <2>4
<1> QED
  BY <1>5, <1>6, <1>7, <1>9 DEF SortedTo, f

\* A record that goes behind the one that is inserted moves into the gap.
LEMMA MoveUp ==
  ASSUME before \in Seq(Record), NEW n \in Nat, n < Len(before), NEW j \in 1 .. n,
         NEW file \in Seq(Record), Len(file) = Len(before),
         NEW order \in Orders(n), Gap(file, order, n, j),
         file[j].key > record.key,
         NEW write, write.index = j, write.record = file[j]
  PROVE  Gap(Put(file, write), order, n, j - 1)
<1> DEFINE f == Put(file, write)
<1>1. /\ Len(before) \in Nat /\ j \in Nat /\ j \in 0 .. Len(file) - 1
      /\ file[j] \in Record
      /\ \A p \in 1 .. n : p \in 1 .. Len(before)
  BY LenProperties
<1>2. /\ f[j + 1] = file[j]
      /\ \A p \in 1 .. Len(before) : p # j + 1 => f[p] = file[p]
  BY <1>1, PutInside
<1> HIDE DEF f
<1>3. ASSUME NEW p \in 1 .. j - 1 PROVE f[p] = before[order[p]]
  <2>1. p \in 1 .. j /\ p \in 1 .. Len(before) /\ p # j + 1
    BY <1>1
  <2> QED
    BY <1>2, <2>1 DEF Gap
<1>4. ASSUME NEW p \in (j - 1) + 1 .. n
      PROVE  f[p + 1] = before[order[p]] /\ before[order[p]].key > record.key
  <2>1. CASE p = j
    BY <1>2, <2>1 DEF Gap
  <2>2. CASE p # j
    <3>1. p \in j + 1 .. n /\ p + 1 \in 1 .. Len(before) /\ p + 1 # j + 1
      BY <1>1, <2>2
    <3> QED
      BY <1>2, <3>1 DEF Gap
  <2> QED
    BY <2>1, <2>2
<1>5. ASSUME NEW p \in n + 2 .. Len(before) PROVE f[p] = before[p]
  <2>1. p \in 1 .. Len(before) /\ p # j + 1
    BY <1>1
  <2> QED
    BY <1>2, <2>1 DEF Gap
<1> QED
  BY <1>3, <1>4, <1>5 DEF Gap, f

\* What has been lost is counted.
LEMMA LostIsFinite ==
  ASSUME ArgumentTypes
  PROVE  /\ IsFiniteSet(Range(original["a"]))
         /\ \A file : IsFiniteSet(Lost(file)) /\ Cardinality(Lost(file)) \in Nat
<1>1. PICK f \in Seq(Record) : f = original["a"]
  BY DEF ArgumentTypes
<1>2. IsFiniteSet(1 .. Len(f)) /\ DOMAIN f = 1 .. Len(f)
  BY LenProperties, FS_Interval
<1>3. IsFiniteSet(Range(original["a"]))
  <2>1. f \in Surjection(1 .. Len(f), Range(f))
    BY <1>2 DEF Surjection, Range
  <2> QED
    BY <1>1, <1>2, <2>1, FS_Surjection
<1> QED
  BY <1>3, FS_Difference, FS_CardinalityType DEF Lost

LEMMA LossesAreCounted ==
  ASSUME ArgumentTypes, NEW file, NEW x, Range(before) \subseteq Range(file) \cup {x}
  PROVE  Cardinality(Lost(file)) <= Cardinality(Lost(before)) + 1
<1> DEFINE more == Lost(before) \cup {x}
<1>1. /\ IsFiniteSet(more) /\ Cardinality(more) \in Nat
      /\ Cardinality(more) <= Cardinality(Lost(before)) + 1
  <2>1. IsFiniteSet(Lost(before)) /\ Cardinality(Lost(before)) \in Nat
    BY LostIsFinite
  <2>2. /\ IsFiniteSet(more)
        /\ Cardinality(more) = IF x \in Lost(before) THEN Cardinality(Lost(before))
                               ELSE Cardinality(Lost(before)) + 1
    BY <2>1, FS_AddElement
  <2> QED
    BY <2>1, <2>2, FS_CardinalityType
<1>2. Lost(file) \in SUBSET more
  BY DEF Lost
<1> HIDE DEF more
<1>3. Cardinality(Lost(file)) <= Cardinality(more)
  BY <1>1, <1>2, FS_Subset
<1> QED
  BY <1>1, <1>3, LostIsFinite

\* A file that is sorted as far as it goes, gap or not, has all the records.
LEMMA NothingMissing ==
  ASSUME before \in Seq(Record), NEW file \in Seq(Record), Len(file) = Len(before),
         NEW n \in 0 .. Len(before)
  PROVE  /\ SortedTo(file, n) => Range(before) \subseteq Range(file)
         /\ \A order \in Orders(n), j \in 0 .. n :
              n < Len(before) /\ record = before[n + 1] /\ Gap(file, order, n, j) =>
                Range(before) \subseteq Range(file) \cup {record}
<1>1. /\ Len(before) \in Nat /\ n \in Nat
      /\ DOMAIN before = 1 .. Len(before) /\ DOMAIN file = 1 .. Len(before)
  BY LenProperties
<1>2. ASSUME SortedTo(file, n), NEW q \in 1 .. Len(before) PROVE before[q] \in Range(file)
  <2>1. PICK order \in Orders(n) :
          /\ \A p \in 1 .. n : file[p] = before[order[p]]
          /\ \A p \in n + 1 .. Len(before) : file[p] = before[p]
    BY <1>2 DEF SortedTo
  <2>2. CASE q \in 1 .. n
    <3>1. PICK p \in 1 .. n : order[p] = q
      BY <1>1, <2>2, WhatIsAnOrder
    <3>2. file[p] = before[q] /\ p \in DOMAIN file
      BY <1>1, <2>1, <3>1
    <3> QED
      BY <3>2 DEF Range
  <2>3. CASE q \notin 1 .. n
    <3>1. q \in n + 1 .. Len(before) /\ q \in DOMAIN file
      BY <1>1, <2>3
    <3> QED
      BY <2>1, <3>1 DEF Range
  <2> QED
    BY <2>2, <2>3
<1>3. ASSUME NEW order \in Orders(n), NEW j \in 0 .. n, n < Len(before), record = before[n + 1],
             Gap(file, order, n, j), NEW q \in 1 .. Len(before)
      PROVE  before[q] \in Range(file) \cup {record}
  <2>1. CASE q \in 1 .. n
    <3>1. PICK p \in 1 .. n : order[p] = q
      BY <1>1, <2>1, WhatIsAnOrder
    <3>2. CASE p <= j
      <4>1. p \in 1 .. j /\ p \in DOMAIN file
        BY <1>1, <3>2
      <4>2. file[p] = before[q]
        BY <1>3, <3>1, <4>1 DEF Gap
      <4> QED
        BY <4>1, <4>2 DEF Range
    <3>3. CASE ~(p <= j)
      <4>1. p \in j + 1 .. n /\ p + 1 \in DOMAIN file
        BY <1>1, <1>3, <3>3
      <4>2. file[p + 1] = before[q]
        BY <1>3, <3>1, <4>1 DEF Gap
      <4> QED
        BY <4>1, <4>2 DEF Range
    <3> QED
      BY <3>2, <3>3
  <2>2. CASE q = n + 1
    BY <1>3, <2>2
  <2>3. CASE q \notin 1 .. n /\ q # n + 1
    <3>1. q \in n + 2 .. Len(before) /\ q \in DOMAIN file
      BY <1>1, <2>3
    <3> QED
      BY <1>3, <3>1 DEF Gap, Range
  <2> QED
    BY <2>1, <2>2, <2>3
<1>4. \A x \in Range(before) : \E q \in 1 .. Len(before) : x = before[q]
  BY <1>1 DEF Range
<1> QED
  BY <1>2, <1>3, <1>4

\* What the program sees, and what it changes of it.
LEMMA WhatIsVisible ==
  ASSUME ArgumentTypes, output = "a", SortFiles
  PROVE  /\ Current = [files EXCEPT !["a"] = Visible] /\ Current["a"] = Visible
         /\ Visible \in Seq(Record) /\ Len(Visible) = Len(original["a"])
         /\ unstored = << >> => Visible = files["a"]
<1>1. Current = [files EXCEPT !["a"] = Visible] /\ Current["a"] = Visible
  BY WhatIsStored DEF SortFiles, Current, Visible
<1>2. files["a"] \in Seq(Record)
  BY DEF SortFiles, FileTypes
<1>3. CASE unstored = << >>
  BY <1>1, <1>2, <1>3, NothingToStore DEF SortFiles, Visible
<1>4. CASE unstored # << >>
  <2>1. PICK write \in Write : unstored = << write >> /\ write.index < Len(original["a"])
    BY <1>4 DEF SortFiles
  <2>2. write.index \in Nat /\ write.record \in Record
    BY DEF Write
  <2>3. write.index \in 0 .. Len(files["a"]) - 1
    BY <1>2, <2>1, <2>2, LenProperties DEF SortFiles
  <2>4. Visible = Put(files["a"], write)
    BY <2>1, OneToStore DEF Visible
  <2> QED
    BY <1>1, <1>2, <1>4, <2>2, <2>3, <2>4, PutInside DEF SortFiles
<1> QED
  BY <1>3, <1>4

LEMMA AllIsStored ==
  ASSUME ArgumentTypes, output = "a", SortFiles, UNCHANGED <<fileArguments, crashes>>,
         files' = Current, unstored' = << >>
  PROVE  SortFiles' /\ files'["a"] = Visible /\ Visible' = Visible
<1>1. /\ files' = [files EXCEPT !["a"] = Visible]
      /\ Visible \in Seq(Record) /\ Len(Visible) = Len(original["a"])
      /\ original' = original
  BY WhatIsVisible DEF fileArguments
<1>2. FileTypes' /\ files'["a"] = Visible
  BY <1>1, EmptySeq DEF SortFiles, FileTypes
<1>3. SortFiles'
  BY <1>1, <1>2 DEF SortFiles
<1>4. Visible' = Visible
  BY <1>2, NothingToStore DEF Visible
<1> QED
  BY <1>2, <1>3, <1>4

LEMMA OneIsWritten ==
  ASSUME ArgumentTypes, output = "a", SortFiles, UNCHANGED <<fileArguments, crashes>>,
         NEW index, index \in Nat, index < Len(original["a"]), NEW what \in Record,
         WriteAt(index, what)
  PROVE  /\ SortFiles'
         /\ files'["a"] \in {Visible, Visible'}
         /\ \E write : /\ write.index = index /\ write.record = what
                       /\ Visible' = Put(Visible, write)
<1> DEFINE write == [index |-> index, record |-> what]
<1>1. write \in Write /\ write.index = index /\ write.record = what
  BY DEF Write
<1>2. IF method = "sys" THEN files' = Stored(<< write >>) /\ unstored' = unstored
      ELSE files' = Current /\ unstored' = << write >>
  BY DEF WriteAt
<1> HIDE DEF write
<1>3. /\ Visible \in Seq(Record) /\ Len(Visible) = Len(original["a"])
      /\ original' = original /\ method' = method /\ FileTypes
      /\ unstored = << >> => Visible = files["a"]
      /\ Current = [files EXCEPT !["a"] = Visible]
  BY WhatIsVisible DEF fileArguments, SortFiles
<1>4. Put(Visible, write) \in Seq(Record) /\ Len(Put(Visible, write)) = Len(Visible)
  <2>1. index \in 0 .. Len(Visible) - 1
    BY <1>3, LenProperties
  <2> QED
    BY <1>1, <1>3, <2>1, PutInside
<1>5. CASE method = "sys"
  <2>1. unstored = << >> /\ Visible = files["a"] /\ unstored' = << >>
    BY <1>2, <1>3, <1>5 DEF SortFiles
  <2>2. files' = [files EXCEPT !["a"] = Put(Visible, write)]
    <3>1. Stored(<< write >>) = [files EXCEPT !["a"] = Written(files["a"], << write >>)]
      BY <1>3, WhatIsStored
    <3> QED
      BY <1>2, <1>5, <2>1, <3>1, OneToStore
  <2>3. FileTypes' /\ files'["a"] = Put(Visible, write)
    BY <1>3, <1>4, <2>1, <2>2, EmptySeq DEF FileTypes
  <2>4. SortFiles'
    BY <1>3, <1>4, <2>1, <2>3 DEF SortFiles
  <2>5. Visible' = files'["a"]
    BY <2>1, NothingToStore DEF Visible
  <2> QED
    BY <1>1, <2>3, <2>4, <2>5
<1>6. CASE method # "sys"
  <2>1. files' = [files EXCEPT !["a"] = Visible] /\ unstored' = << write >>
    BY <1>2, <1>3, <1>6
  <2>2. << write >> \in Seq(Write)
    BY <1>1
  <2>3. FileTypes' /\ files'["a"] = Visible
    BY <1>3, <2>1, <2>2 DEF FileTypes
  <2>4. SortFiles'
    BY <1>1, <1>3, <1>6, <2>1, <2>3 DEF SortFiles
  <2>5. Visible' = Put(Visible, write)
    BY <2>1, <2>3, OneToStore DEF Visible
  <2> QED
    BY <1>1, <2>3, <2>4, <2>5
<1> QED
  BY <1>5, <1>6

LEMMA SortStarts ==
  ASSUME FilesInit, command = "sort"
  PROVE  SortInvariant
<1>1. ArgumentTypes /\ FileTypes /\ output = "a"
  BY ArgumentsAtStart DEF ArgumentTypes
<1>2. /\ place = "open" /\ files = original /\ unstored = << >> /\ before = files["a"]
      /\ crashes = 0
  BY DEF FilesInit
<1>3. SortFiles /\ SortPlaces
  BY <1>1, <1>2 DEF SortFiles, SortPlaces, Sorting, FileTypes
<1>4. Lost(files["a"]) = {}
  BY <1>2 DEF Lost
<1>5. SortedSoFar /\ Losses
  BY <1>2, <1>4, FS_EmptySet DEF SortedSoFar, Losses, Sorting
<1> QED
  BY <1>3, <1>5 DEF SortInvariant

LEMMA SortFrame ==
  ASSUME ArgumentTypes, command = "sort", SortInvariant
  PROVE  /\ output = "a" /\ SortFiles /\ SortPlaces
         /\ before \in Seq(Record) /\ Len(before) \in Nat /\ Len(before) = Len(original["a"])
         /\ Visible \in Seq(Record) /\ Len(Visible) = Len(before)
         /\ Current["a"] = Visible /\ files["a"] \in Seq(Record)
<1>1. output = "a" /\ SortFiles /\ SortPlaces
  BY DEF ArgumentTypes, SortInvariant
<1>2. before \in Seq(Record) /\ Len(before) = Len(original["a"]) /\ files["a"] \in Seq(Record)
  BY <1>1 DEF SortPlaces, SortFiles, FileTypes
<1> QED
  BY <1>1, <1>2, WhatIsVisible, LenProperties

\* As long as one run goes on, it is enough that the file is sorted as far as it goes.
LEMMA RunGoesOn ==
  ASSUME ArgumentTypes, command = "sort", SortInvariant,
         UNCHANGED <<fileArguments, before, crashes>>,
         place \in Sorting, place' \in Sorting, Keeps(files'["a"])
  PROVE  Losses'
BY DEF SortInvariant, Losses, Lost, Keeps, fileArguments

LEMMA VisibleKeeps ==
  ASSUME ArgumentTypes, command = "sort", SortInvariant, place \in Sorting
  PROVE  Range(before) \subseteq Range(Visible) \cup Inserted
<1>1. /\ before \in Seq(Record) /\ Len(before) \in Nat
      /\ Visible \in Seq(Record) /\ Len(Visible) = Len(before)
  BY SortFrame
<1>2. CASE place \in {"search", "insert"}
  <2>1. /\ file_i < Len(before) /\ file_j \in 0 .. file_i /\ record = before[file_i + 1]
        /\ file_i \in Nat
    BY <1>2 DEF SortInvariant, SortPlaces, Sorting
  <2>2. PICK order \in Orders(file_i) : Gap(Visible, order, file_i, file_j)
    BY <1>2 DEF SortInvariant, SortedSoFar
  <2>3. file_i \in 0 .. Len(before)
    BY <1>1, <2>1
  <2> QED
    BY <1>1, <1>2, <2>1, <2>2, <2>3, NothingMissing DEF Inserted
<1>3. CASE place \in {"load", "done", "error"}
  <2>1. PICK n \in 0 .. Len(before) : n = IF Len(before) = 0 THEN 0 ELSE file_i
    BY <1>1, <1>3 DEF SortInvariant, SortPlaces, Sorting
  <2>2. SortedTo(Visible, n)
    BY <1>3, <2>1 DEF SortInvariant, SortedSoFar
  <2> QED
    BY <1>1, <2>2, NothingMissing
<1> QED
  BY <1>2, <1>3 DEF Sorting

\* A run begins, with nothing sorted but the first record.
LEMMA SortOpens ==
  ASSUME ArgumentTypes, command = "sort", SortInvariant, OpenToSort, UNCHANGED fileArguments
  PROVE  SortInvariant'
<1>1. /\ place = "open" /\ place' = "load" /\ file_i' = 1 /\ before' = files["a"]
      /\ UNCHANGED <<files, unstored, crashes, record, file_j>>
  BY DEF OpenToSort
<1>2. /\ output = "a" /\ UNCHANGED <<command, method, records, output, original>>
      /\ Len(before) = Len(original["a"]) /\ files["a"] \in Seq(Record)
      /\ Visible' = Visible /\ Visible = files["a"]
      /\ Len(files["a"]) = Len(original["a"]) /\ Len(original["a"]) \in Nat
      /\ unstored = << >>
  <2>1. unstored = << >> /\ SortFiles
    BY <1>1 DEF SortInvariant, SortPlaces
  <2> QED
    BY <1>1, <2>1, SortFrame, WhatIsVisible DEF Visible, SortFiles, fileArguments
<1>3. SortFiles'
  BY <1>1, <1>2 DEF SortInvariant, SortFiles, FileTypes
<1>4. SortPlaces'
  BY <1>1, <1>2 DEF SortPlaces, Sorting
<1>5. SortedSoFar'
  <2>1. PICK n \in 0 .. 1 : n = IF Len(before') = 0 THEN 0 ELSE 1
    OBVIOUS
  <2> DEFINE order == [p \in 1 .. n |-> p]
  <2>2. n \in Nat
    OBVIOUS
  <2>3. \A p \in 1 .. n : order[p] = p
    OBVIOUS
  <2>4. order \in [1 .. n -> 1 .. n]
    OBVIOUS
  <2> HIDE DEF order
  <2>5. order \in Orders(n)
    BY <2>2, <2>3, <2>4, WhatIsAnOrder
  <2>6. InOrder(order, n)'
    BY <2>1 DEF InOrder
  <2>7. SortedTo(Visible, n)'
    BY <1>1, <1>2, <2>3, <2>5, <2>6 DEF SortedTo
  <2> QED
    BY <1>1, <2>1, <2>7 DEF SortedSoFar
<1>6. Losses'
  <2>1. Cardinality(Lost(files["a"])) <= crashes
    BY <1>1 DEF SortInvariant, Losses, Sorting
  <2>2. Keeps(files["a"])'
    BY <1>1 DEF Keeps
  <2> QED
    BY <1>1, <1>2, <2>1, <2>2 DEF Losses, Lost, Sorting
<1> QED
  BY <1>3, <1>4, <1>5, <1>6 DEF SortInvariant

\* A record is taken out, or there is none any more.
LEMMA SortLoads ==
  ASSUME ArgumentTypes, command = "sort", SortInvariant, LoadRecord, UNCHANGED fileArguments
  PROVE  SortInvariant'
<1>1. /\ place = "load" /\ file_i < records /\ StoreAll
      /\ UNCHANGED <<file_i, before, crashes>>
      /\ IF file_i < Len(Current["a"])
         THEN place' = "search" /\ record' = Current["a"][file_i + 1] /\ file_j' = file_i
         ELSE place' = "error" /\ UNCHANGED <<record, file_j>>
  BY DEF LoadRecord
<1>2. /\ output = "a" /\ UNCHANGED <<command, method, records, output, original>>
      /\ before \in Seq(Record) /\ Len(before) \in Nat /\ Len(before) = Len(original["a"])
      /\ Visible \in Seq(Record) /\ Len(Visible) = Len(before)
      /\ Current["a"] = Visible /\ records \in Nat
  BY SortFrame DEF fileArguments, ArgumentTypes
<1>3. SortFiles' /\ files'["a"] = Visible /\ Visible' = Visible /\ unstored' = << >>
  BY <1>1, SortFrame, AllIsStored DEF StoreAll
<1>4. /\ file_i \in Nat \ {0}
      /\ file_i = 1 \/ (file_i <= records /\ file_i <= Len(before))
      /\ SortedTo(Visible, IF Len(before) = 0 THEN 0 ELSE file_i)
  BY <1>1 DEF SortInvariant, SortPlaces, SortedSoFar, Sorting
<1>5. Keeps(Visible)
  <2>1. Range(before) \subseteq Range(Visible) \cup Inserted /\ Inserted = {}
    BY <1>1, VisibleKeeps DEF Sorting, Inserted
  <2> QED
    BY <2>1 DEF Keeps
<1>6. Losses'
  BY <1>1, <1>3, <1>5, RunGoesOn DEF Sorting, Keeps
<1>7. CASE file_i < Len(before)
  <2>1. /\ place' = "search" /\ record' = Visible[file_i + 1] /\ file_j' = file_i
        /\ SortedTo(Visible, file_i)
    BY <1>1, <1>2, <1>4, <1>7
  <2>2. PICK order \in Orders(file_i) :
          /\ InOrder(order, file_i)
          /\ \A p \in 1 .. file_i : Visible[p] = before[order[p]]
          /\ \A p \in file_i + 1 .. Len(before) : Visible[p] = before[p]
    BY <2>1 DEF SortedTo
  <2>3. /\ file_i + 1 \in file_i + 1 .. Len(before)
        /\ file_i + 2 .. Len(before) \subseteq file_i + 1 .. Len(before)
        /\ file_i + 1 .. file_i = {} /\ file_i \in 0 .. file_i
    BY <1>2, <1>4, <1>7
  <2>4. SortPlaces'
    BY <1>1, <1>2, <1>4, <1>7, <2>1, <2>2, <2>3 DEF SortPlaces, Sorting
  <2>5. Gap(Visible, order, file_i, file_j)'
    BY <1>1, <1>3, <2>1, <2>2, <2>3 DEF Gap, InOrder, Precedes
  <2>6. SortedSoFar'
    BY <1>1, <2>1, <2>5 DEF SortedSoFar
  <2> QED
    BY <1>3, <1>6, <2>4, <2>6 DEF SortInvariant
<1>8. CASE ~(file_i < Len(before))
  <2>1. place' = "error" /\ file_i >= Len(before)
    BY <1>1, <1>2, <1>4, <1>8
  <2>2. SortPlaces'
    BY <1>1, <1>2, <1>3, <1>4, <2>1 DEF SortPlaces, Sorting
  <2>3. SortedSoFar'
    BY <1>1, <1>3, <1>4, <2>1 DEF SortedSoFar, SortedTo, InOrder, Precedes
  <2> QED
    BY <1>3, <1>6, <2>2, <2>3 DEF SortInvariant
<1> QED
  BY <1>7, <1>8

LEMMA SortSearches ==
  ASSUME ArgumentTypes, command = "sort", SortInvariant, MoveSwap, UNCHANGED fileArguments
  PROVE  SortInvariant'
<1>1. /\ place = "search" /\ place' = "search" /\ file_j > 0
      /\ GoesAfter(Current["a"][file_j]) /\ WriteAt(file_j, Current["a"][file_j])
      /\ file_j' = file_j - 1
      /\ UNCHANGED <<file_i, record, before, crashes>>
  BY DEF MoveSwap
<1>2. /\ output = "a" /\ UNCHANGED <<command, method, records, output, original>>
      /\ before \in Seq(Record) /\ Len(before) \in Nat /\ Len(before) = Len(original["a"])
      /\ Visible \in Seq(Record) /\ Len(Visible) = Len(before) /\ Current["a"] = Visible
      /\ SortFiles /\ SortPlaces
  BY SortFrame DEF fileArguments
<1>3. /\ file_i \in Nat \ {0} /\ file_i < Len(before) /\ file_i < records
      /\ file_j \in 1 .. file_i /\ record = before[file_i + 1]
      /\ file_j \in Nat /\ file_j < Len(original["a"]) /\ file_j - 1 \in 0 .. file_i
      /\ file_j \in 1 .. Len(Visible)
  BY <1>1, <1>2 DEF SortPlaces, Sorting
<1>4. PICK order \in Orders(file_i) : Gap(Visible, order, file_i, file_j)
  BY <1>1 DEF SortInvariant, SortedSoFar
<1>5. Visible[file_j] \in Record /\ Visible[file_j].key > record.key
  BY <1>1, <1>2, <1>3 DEF GoesAfter
<1>6. /\ SortFiles' /\ files'["a"] \in {Visible, Visible'}
      /\ \E write : /\ write.index = file_j /\ write.record = Visible[file_j]
                    /\ Visible' = Put(Visible, write)
  BY <1>1, <1>2, <1>3, <1>5, OneIsWritten
<1>7. /\ Gap(Visible', order, file_i, file_j - 1)
      /\ Visible' \in Seq(Record) /\ Len(Visible') = Len(before)
  <2>1. PICK write : /\ write.index = file_j /\ write.record = Visible[file_j]
                     /\ Visible' = Put(Visible, write)
    BY <1>6
  <2>2. file_j \in 0 .. Len(Visible) - 1
    BY <1>2, <1>3
  <2>3. Visible' \in Seq(Record) /\ Len(Visible') = Len(before)
    BY <1>2, <1>5, <2>1, <2>2, PutInside
  <2> QED
    BY <1>2, <1>3, <1>4, <1>5, <2>1, <2>3, MoveUp
<1>8. SortPlaces'
  BY <1>1, <1>2, <1>3 DEF SortPlaces, Sorting
<1>9. SortedSoFar'
  BY <1>1, <1>4, <1>7 DEF SortedSoFar, Gap, InOrder, Precedes
<1>10. Losses'
  <2>1. /\ Range(before) \subseteq Range(Visible) \cup {record}
        /\ Range(before) \subseteq Range(Visible') \cup {record}
    <3>1. file_i \in 0 .. Len(before) /\ file_j \in 0 .. file_i
      BY <1>2, <1>3
    <3> QED
      BY <1>2, <1>3, <1>4, <1>7, <3>1, NothingMissing
  <2>2. Keeps(files'["a"])
    BY <1>6, <2>1 DEF Keeps
  <2> QED
    BY <1>1, <2>2, RunGoesOn DEF Sorting
<1> QED
  BY <1>6, <1>8, <1>9, <1>10 DEF SortInvariant

\* The place is found: nothing that goes behind the record is left in front of the gap.
LEMMA SortFinds ==
  ASSUME ArgumentTypes, command = "sort", SortInvariant, FindPlace, UNCHANGED fileArguments
  PROVE  SortInvariant'
<1>1. /\ place = "search" /\ place' = "insert"
      /\ file_j > 0 => ~GoesAfter(Current["a"][file_j])
      /\ (files' = Current /\ unstored' = << >>) \/ UNCHANGED <<files, unstored>>
      /\ UNCHANGED <<file_i, file_j, record, before, crashes>>
  BY DEF FindPlace, StoreAll
<1>2. /\ output = "a" /\ UNCHANGED <<command, method, records, output, original>>
      /\ Visible \in Seq(Record) /\ Len(Visible) = Len(before) /\ Current["a"] = Visible
      /\ SortFiles /\ SortPlaces
  BY SortFrame DEF fileArguments
<1>3. SortFiles' /\ Visible' = Visible /\ files'["a"] \in {Visible, files["a"]}
  <2>1. CASE files' = Current /\ unstored' = << >>
    BY <1>1, <1>2, <2>1, AllIsStored
  <2>2. CASE UNCHANGED <<files, unstored>>
    BY <1>1, <1>2, <2>2 DEF SortFiles, FileTypes, Visible
  <2> QED
    BY <1>1, <2>1, <2>2
<1>4. PICK order \in Orders(file_i) : Gap(Visible, order, file_i, file_j)
  BY <1>1 DEF SortInvariant, SortedSoFar
<1>5. file_j > 0 => ~(before[order[file_j]].key > record.key)
  <2>1. file_j > 0 => file_j \in 1 .. file_j
    BY <1>1, <1>2 DEF SortPlaces
  <2> QED
    BY <1>1, <1>2, <1>4, <2>1 DEF Gap, GoesAfter
<1>6. SortPlaces'
  BY <1>1, <1>2 DEF SortPlaces, Sorting
<1>7. SortedSoFar'
  BY <1>1, <1>3, <1>4, <1>5 DEF SortedSoFar, Gap, InOrder, Precedes
<1>8. Losses'
  <2>1. Keeps(Visible)
    BY <1>1, VisibleKeeps DEF Sorting, Inserted, Keeps
  <2>2. Keeps(files["a"])
    BY <1>1 DEF SortInvariant, Losses, Sorting
  <2>3. Keeps(files'["a"])
    BY <1>3, <2>1, <2>2
  <2> QED
    BY <1>1, <2>3, RunGoesOn DEF Sorting
<1> QED
  BY <1>3, <1>6, <1>7, <1>8 DEF SortInvariant

LEMMA SortInserts ==
  ASSUME ArgumentTypes, command = "sort", SortInvariant, InsertRecord, UNCHANGED fileArguments
  PROVE  SortInvariant'
<1>1. /\ place = "insert" /\ place' = "load" /\ WriteAt(file_j, record) /\ file_i' = file_i + 1
      /\ UNCHANGED <<file_j, record, before, crashes>>
  BY DEF InsertRecord
<1>2. /\ output = "a" /\ UNCHANGED <<command, method, records, output, original>>
      /\ before \in Seq(Record) /\ Len(before) \in Nat /\ Len(before) = Len(original["a"])
      /\ Visible \in Seq(Record) /\ Len(Visible) = Len(before)
      /\ SortFiles /\ SortPlaces /\ records \in Nat
  BY SortFrame DEF fileArguments, ArgumentTypes
<1>3. /\ file_i \in Nat \ {0} /\ file_i \in Nat /\ file_i < Len(before) /\ file_i < records
      /\ file_j \in 0 .. file_i /\ record = before[file_i + 1]
      /\ file_j \in Nat /\ file_j < Len(original["a"]) /\ file_j \in 0 .. Len(Visible) - 1
      /\ file_i + 1 \in 1 .. Len(before)
  BY <1>1, <1>2 DEF SortPlaces, Sorting
<1>4. record \in Record
  BY <1>2, <1>3
<1>5. PICK order \in Orders(file_i) :
        /\ Gap(Visible, order, file_i, file_j)
        /\ file_j > 0 => ~(before[order[file_j]].key > record.key)
  BY <1>1 DEF SortInvariant, SortedSoFar
<1>6. /\ SortFiles' /\ files'["a"] \in {Visible, Visible'}
      /\ \E write : /\ write.index = file_j /\ write.record = record
                    /\ Visible' = Put(Visible, write)
  BY <1>1, <1>2, <1>3, <1>4, OneIsWritten
<1>7. /\ SortedTo(Visible', file_i + 1)
      /\ Visible' \in Seq(Record) /\ Len(Visible') = Len(before)
  <2>1. PICK write : /\ write.index = file_j /\ write.record = record
                     /\ Visible' = Put(Visible, write)
    BY <1>6
  <2>2. Visible' \in Seq(Record) /\ Len(Visible') = Len(before)
    BY <1>2, <1>3, <1>4, <2>1, PutInside
  <2> QED
    BY <1>2, <1>3, <1>5, <2>1, <2>2, Insertion
<1>8. SortPlaces'
  BY <1>1, <1>2, <1>3 DEF SortPlaces, Sorting
<1>9. SortedSoFar'
  <2>1. ~(Len(before) = 0)
    BY <1>2, <1>3
  <2> QED
    BY <1>1, <1>7, <2>1 DEF SortedSoFar, SortedTo, InOrder, Precedes
<1>10. Losses'
  <2>1. Range(before) \subseteq Range(Visible) \cup {record}
    BY <1>1, VisibleKeeps DEF Sorting, Inserted
  <2>2. Range(before) \subseteq Range(Visible') \cup {record}
    <3>1. file_i + 1 \in 0 .. Len(before)
      BY <1>3
    <3> QED
      BY <1>2, <1>7, <3>1, NothingMissing
  <2>3. Keeps(files'["a"])
    BY <1>6, <2>1, <2>2 DEF Keeps
  <2> QED
    BY <1>1, <2>3, RunGoesOn DEF Sorting
<1> QED
  BY <1>6, <1>8, <1>9, <1>10 DEF SortInvariant

\* Storing what stdio has changes nothing the program sees; after it the sort may end.
LEMMA SortStores ==
  ASSUME ArgumentTypes, command = "sort", SortInvariant,
         UNCHANGED <<fileArguments, file_i, before, crashes>>,
         files' = Current, unstored' = << >>, UNCHANGED <<file_j, record>>, place \in Sorting,
         place' = place \/ (place = "load" /\ place' = "done" /\ file_i >= records)
  PROVE  SortInvariant'
<1>1. /\ output = "a" /\ UNCHANGED <<command, method, records, output, original>>
      /\ SortFiles /\ SortPlaces
  BY SortFrame DEF fileArguments
<1>2. SortFiles' /\ files'["a"] = Visible /\ Visible' = Visible
  BY <1>1, AllIsStored
<1>3. SortPlaces'
  BY <1>1 DEF SortPlaces, Sorting
<1>4. SortedSoFar'
  BY <1>2 DEF SortInvariant, SortedSoFar, SortedTo, Gap, InOrder, Precedes
<1>5. Losses'
  <2>1. \E x : Inserted \subseteq {x}
    BY DEF Inserted
  <2>2. Keeps(files'["a"])
    BY <1>2, <2>1, VisibleKeeps DEF Keeps
  <2>3. place' \in Sorting
    BY DEF Sorting
  <2> QED
    BY <2>2, <2>3, RunGoesOn
<1> QED
  BY <1>2, <1>3, <1>4, <1>5 DEF SortInvariant

LEMMA SortIsStored ==
  ASSUME ArgumentTypes, command = "sort", SortInvariant, StdioStores, UNCHANGED fileArguments
  PROVE  SortInvariant'
<1>1. PICK n \in 1 .. Len(unstored) :
        /\ files' = Stored(SubSeq(unstored, 1, n))
        /\ unstored' = SubSeq(unstored, n + 1, Len(unstored))
  BY DEF StdioStores
<1>2. unstored \in Seq(Write) /\ Len(unstored) = 1 /\ place \in Sorting
  <2>1. unstored \in Seq(Write) /\ unstored # << >>
    BY <1>1, EmptySeq DEF SortInvariant, SortFiles, FileTypes
  <2> QED
    BY <2>1 DEF SortInvariant, SortFiles, SortPlaces, Sorting
<1>3. SubSeq(unstored, 1, n) = unstored /\ SubSeq(unstored, n + 1, Len(unstored)) = << >>
  <2>1. n = 1
    BY <1>1, <1>2
  <2> QED
    BY <1>2, <2>1
<1>4. files' = Current /\ unstored' = << >>
  BY <1>1, <1>2, <1>3 DEF Current
<1> QED
  BY <1>2, <1>4, SortStores DEF StdioStores

LEMMA SortCloses ==
  ASSUME ArgumentTypes, command = "sort", SortInvariant, Close, UNCHANGED fileArguments
  PROVE  SortInvariant'
<1>1. place = "load" /\ file_i >= records
  BY DEF Close, SortInvariant, SortPlaces, Sorting
<1> QED
  BY <1>1, SortStores DEF Close, StoreAll, Sorting

\* A run is killed: what is stored lacks at most one record of what it began with.
LEMMA SortIsKilled ==
  ASSUME ArgumentTypes, command = "sort", SortInvariant, Crash, UNCHANGED fileArguments
  PROVE  SortInvariant'
<1>1. /\ place' = "dead" /\ crashes' = crashes + 1 /\ unstored' = << >>
      /\ UNCHANGED <<files, file_i, file_j, record, before>>
  BY DEF Crash
<1>2. SortFiles' /\ SortPlaces' /\ SortedSoFar'
  BY <1>1, EmptySeq DEF SortInvariant, SortFiles, FileTypes, SortPlaces, SortedSoFar, Sorting,
                        fileArguments
<1>3. Cardinality(Lost(files["a"])) <= crashes + 1
  <2>1. crashes \in Nat
    BY DEF SortInvariant, SortFiles, FileTypes
  <2>2. CASE place \notin Sorting
    <3>1. Cardinality(Lost(files["a"])) <= crashes
      BY <2>2 DEF SortInvariant, Losses
    <3> QED
      BY <2>1, <3>1, LostIsFinite
  <2>3. CASE place \in Sorting
    <3>1. Cardinality(Lost(before)) <= crashes /\ Keeps(files["a"])
      BY <2>3 DEF SortInvariant, Losses
    <3>2. PICK x : Range(before) \subseteq Range(files["a"]) \cup {x}
      BY <3>1 DEF Keeps
    <3>3. Cardinality(Lost(files["a"])) <= Cardinality(Lost(before)) + 1
      BY <3>2, LossesAreCounted
    <3> QED
      BY <2>1, <3>1, <3>3, LostIsFinite
  <2> QED
    BY <2>2, <2>3
<1>4. Losses'
  BY <1>1, <1>3 DEF Losses, Lost, Sorting, fileArguments
<1> QED
  BY <1>2, <1>4 DEF SortInvariant

LEMMA SortIsRepeated ==
  ASSUME ArgumentTypes, command = "sort", SortInvariant, Repeat, UNCHANGED fileArguments
  PROVE  SortInvariant'
BY DEF Repeat, SortInvariant, SortFiles, FileTypes, SortPlaces, SortedSoFar, Losses, Lost, Sorting,
       fileArguments

LEMMA SortPreserved ==
  ASSUME ArgumentTypes, command = "sort", SortInvariant, FilesNext, UNCHANGED fileArguments
  PROVE  SortInvariant'
<1>1. ~(OpenToCopy \/ CopyRecord \/ InputEnds)
  BY DEF SortInvariant, SortPlaces, Sorting, OpenToCopy, CopyRecord, InputEnds
<1> QED
  BY <1>1, SortOpens, SortLoads, SortSearches, SortFinds, SortInserts, SortIsStored, SortCloses,
     SortIsKilled, SortIsRepeated DEF FilesNext

\* One sorted record is as good as none.
LEMMA OneIsSorted ==
  ASSUME NEW file, Len(before) \in Nat, SortedTo(file, 1), 1 <= Len(before)
  PROVE  SortedTo(file, 0)
<1> DEFINE none == [p \in 1 .. 0 |-> p]
<1>1. 0 \in Nat /\ 1 \in Nat /\ \A p \in 1 .. 0 : FALSE
  OBVIOUS
<1>2. none \in [1 .. 0 -> 1 .. 0]
  BY <1>1
<1> HIDE DEF none
<1>3. none \in Orders(0) /\ InOrder(none, 0)
  BY <1>1, <1>2, WhatIsAnOrder DEF InOrder
<1>4. PICK order \in Orders(1) :
        /\ \A p \in 1 .. 1 : file[p] = before[order[p]]
        /\ \A p \in 1 + 1 .. Len(before) : file[p] = before[p]
  BY DEF SortedTo
<1>5. \A p \in 0 + 1 .. Len(before) : file[p] = before[p]
  <2>1. order \in [1 .. 1 -> 1 .. 1] /\ 1 \in 1 .. 1
    <3>1. PICK n \in Nat : n = 1
      OBVIOUS
    <3>2. order \in [1 .. n -> 1 .. n]
      BY <3>1, WhatIsAnOrder
    <3> QED
      BY <3>1, <3>2
  <2>2. order[1] \in 1 .. 1
    BY <2>1
  <2>3. order[1] = 1
    BY <2>2
  <2>4. file[1] = before[1]
    BY <1>4, <2>1, <2>3
  <2>5. \A p \in 0 + 1 .. Len(before) : p = 1 \/ p \in 1 + 1 .. Len(before)
    OBVIOUS
  <2> QED
    BY <1>4, <2>4, <2>5
<1> QED
  BY <1>1, <1>3, <1>5 DEF SortedTo

LEMMA SortMeaning ==
  ASSUME ArgumentTypes, command = "sort", SortInvariant
  PROVE  SortedStably
<1> DEFINE size == IF records < Len(before) THEN records ELSE Len(before)
<1> SUFFICES ASSUME place \in {"done", "error"}
             PROVE  /\ Len(files["a"]) = Len(before)
                    /\ \E order \in Orders(size) :
                         /\ \A p \in 1 .. size : files["a"][p] = before[order[p]]
                         /\ \A p, q \in 1 .. size : p < q => Precedes(order[p], order[q])
                    /\ \A p \in size + 1 .. Len(before) : files["a"][p] = before[p]
  BY DEF SortedStably
<1>1. /\ Len(before) \in Nat /\ records \in Nat /\ output = "a" /\ SortFiles /\ SortPlaces
      /\ Len(Visible) = Len(before)
  BY SortFrame DEF ArgumentTypes
<1>2. Visible = files["a"]
  BY <1>1, WhatIsVisible DEF SortPlaces
<1>3. /\ SortedTo(files["a"], IF Len(before) = 0 THEN 0 ELSE file_i)
      /\ file_i \in Nat \ {0}
      /\ file_i = 1 \/ (file_i <= records /\ file_i <= Len(before))
      /\ file_i >= records \/ file_i >= Len(before)
  BY <1>1, <1>2 DEF SortInvariant, SortedSoFar, SortPlaces, Sorting
<1>4. SortedTo(files["a"], size)
  <2>1. CASE Len(before) = 0
    <3>1. size = 0
      BY <1>1, <2>1
    <3> QED
      BY <1>3, <2>1, <3>1
  <2>2. CASE Len(before) # 0 /\ file_i = 1 /\ records = 0
    <3>1. size = 0 /\ 1 <= Len(before)
      BY <1>1, <2>2
    <3> QED
      BY <1>1, <1>3, <2>2, <3>1, OneIsSorted
  <2>3. CASE Len(before) # 0 /\ ~(file_i = 1 /\ records = 0)
    <3>1. size = file_i
      BY <1>1, <1>3, <2>3
    <3> QED
      BY <1>3, <2>3, <3>1
  <2> QED
    BY <2>1, <2>2, <2>3
<1> HIDE DEF size
<1> QED
  BY <1>1, <1>2, <1>4 DEF SortedTo, InOrder

LEMMA LossMeaning ==
  ASSUME ArgumentTypes, command = "sort", SortInvariant
  PROVE  OneLostPerCrash
<1> DEFINE missing == Range(original["a"]) \ (Range(Current["a"]) \cup Inserted)
<1>1. /\ output = "a" /\ SortFiles /\ SortPlaces /\ Current["a"] = Visible /\ crashes \in Nat
      /\ Len(files["a"]) = Len(original["a"])
  BY SortFrame DEF SortFiles, FileTypes
<1>2. PICK file : Cardinality(Lost(file)) <= crashes /\ missing \subseteq Lost(file)
  <2>1. CASE place \in Sorting
    BY <1>1, <2>1, VisibleKeeps DEF SortInvariant, Losses, Lost
  <2>2. CASE place \notin Sorting
    <3>1. Visible = files["a"] /\ Cardinality(Lost(files["a"])) <= crashes
      BY <1>1, <2>2, WhatIsVisible DEF SortPlaces, Sorting, SortInvariant, Losses
    <3> QED
      BY <1>1, <3>1 DEF Lost
  <2> QED
    BY <2>1, <2>2
<1> HIDE DEF missing
<1>3. IsFiniteSet(Lost(file)) /\ Cardinality(Lost(file)) \in Nat
  BY LostIsFinite
<1>4. missing \in SUBSET Lost(file)
  BY <1>2
<1>5. IsFiniteSet(missing) /\ Cardinality(missing) <= Cardinality(Lost(file))
  BY <1>3, <1>4, FS_Subset
<1>6. Cardinality(missing) \in Nat
  BY <1>5, FS_CardinalityType
<1>7. Cardinality(missing) <= crashes
  BY <1>1, <1>2, <1>3, <1>5, <1>6
<1> QED
  BY <1>1, <1>7 DEF OneLostPerCrash, missing

FilesInvariant ==
  /\ ArgumentTypes
  /\ command = "copy" => CopyInvariant
  /\ command = "sort" => SortInvariant

LEMMA ArgumentsStay ==
  ASSUME ArgumentTypes, FilesNext
  PROVE  UNCHANGED fileArguments /\ ArgumentTypes'
<1>1. UNCHANGED fileArguments
  BY DEF FilesNext, StdioStores, OpenToSort, LoadRecord, MoveSwap, FindPlace, InsertRecord,
         OpenToCopy, CopyRecord, InputEnds, Close, Crash, Repeat
<1>2. UNCHANGED <<command, method, records, output, original>>
  BY <1>1 DEF fileArguments
<1> QED
  BY <1>1, <1>2 DEF ArgumentTypes

\* main.c, sort and copy: what is said of the files holds in every state, for any
\* files, any number of records, and however often the program is killed and started again.
THEOREM FilesInvariance == FilesSpec => []FilesInvariant
<1>1. FilesInit => FilesInvariant
  BY ArgumentsAtStart, CopyStarts, SortStarts DEF FilesInvariant
<1>2. FilesInvariant /\ [FilesNext]_fileVars => FilesInvariant'
  <2> SUFFICES ASSUME FilesInvariant, [FilesNext]_fileVars
               PROVE  FilesInvariant'
    OBVIOUS
  <2>1. CASE FilesNext
    <3>1. UNCHANGED fileArguments /\ ArgumentTypes /\ ArgumentTypes' /\ command' = command
      BY <2>1, ArgumentsStay DEF FilesInvariant, fileArguments
    <3>2. CASE command = "copy"
      BY <2>1, <3>1, <3>2, CopyPreserved DEF FilesInvariant
    <3>3. CASE command = "sort"
      BY <2>1, <3>1, <3>3, SortPreserved DEF FilesInvariant
    <3> QED
      BY <3>1, <3>2, <3>3 DEF FilesInvariant, ArgumentTypes
  <2>2. CASE UNCHANGED fileVars
    <3>1. /\ UNCHANGED <<command, method, records, output, original, files, unstored>>
          /\ UNCHANGED <<place, file_i, file_j, record, before, crashes>>
      BY <2>2 DEF fileVars, fileArguments
    <3>2. ArgumentTypes'
      BY <3>1 DEF FilesInvariant, ArgumentTypes
    <3>3. CASE command = "copy"
      BY <3>1, <3>2, <3>3
         DEF FilesInvariant, CopyInvariant, FileTypes, CopyPlaces, CopySize, SysCopies, LibCopies,
             InputStays
    <3>4. CASE command = "sort"
      <4>1. SortInvariant
        BY <3>4 DEF FilesInvariant
      <4>2. SortFiles' /\ SortPlaces'
        BY <3>1, <4>1 DEF SortInvariant, SortFiles, FileTypes, SortPlaces
      <4>3. SortedSoFar'
        BY <3>1, <4>1 DEF SortInvariant, SortedSoFar, Visible, SortedTo, Gap, InOrder, Precedes
      <4>4. Losses'
        BY <3>1, <4>1 DEF SortInvariant, Losses, Lost, Keeps
      <4> QED
        BY <3>1, <3>2, <3>4, <4>2, <4>3, <4>4 DEF FilesInvariant, SortInvariant
    <3> QED
      BY <3>1, <3>2, <3>3, <3>4 DEF FilesInvariant, ArgumentTypes
  <2> QED
    BY <2>1, <2>2
<1> QED
  BY <1>1, <1>2, PTL DEF FilesSpec

\* sort_sys, sort_lib: each time the sort is killed costs one record at most, in any file.
THEOREM AlwaysOneLostPerCrash == FilesSpec => []OneLostPerCrash
<1>1. FilesInvariant => OneLostPerCrash
  BY LossMeaning DEF FilesInvariant, OneLostPerCrash
<1> QED
  BY <1>1, FilesInvariance, PTL

\* sort_sys, sort_lib: a sort that ends has sorted what it began with, stably, the first
\* "records" records and no others.
THEOREM AlwaysSortedStably == FilesSpec => []SortedStably
<1>1. FilesInvariant => SortedStably
  BY SortMeaning DEF FilesInvariant, SortedStably
<1> QED
  BY <1>1, FilesInvariance, PTL

\* copy_sys, copy_lib: the output is a part of the input in front of what the mode of
\* opening leaves of the old file, and the whole part when the program has ended.
THEOREM AlwaysCopyFaithful == FilesSpec => []CopyFaithful
<1>1. FilesInvariant => CopyFaithful
  BY CopyMeaning DEF FilesInvariant, CopyFaithful
<1> QED
  BY <1>1, FilesInvariance, PTL
=============================================================================
