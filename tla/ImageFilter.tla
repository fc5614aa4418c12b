----------------------------- MODULE ImageFilter -----------------------------
(***************************************************************************)
(* src/lab08-Threads: the pixels of an image are split into batches, one   *)
(* for each thread, and every thread calculates the pixels of its batch    *)
(* from those around them.  The threads share the image and the output     *)
(* and nothing orders them: the result rests on the indices alone.         *)
(*                                                                         *)
(* The value of a pixel is abstracted to the pixels it is calculated from. *)
(***************************************************************************)
EXTENDS Integers, FiniteSets

CONSTANTS
  MaxSide,      \* bound on height and width
  MaxThreads,   \* bound on the first argument
  MaxFilter     \* bound on the size of the filter

ASSUME FilterBounds ==
  MaxSide \in Nat \ {0} /\ MaxThreads \in Nat \ {0} /\ MaxFilter \in Nat

VARIABLES
  W, H, C, threads_number,
  created,      \* threads that main has created
  pixel,        \* the next pixel of each thread
  value,        \* output[]: what each pixel was calculated from
  behind,       \* indices behind output[] that were written
  saved         \* has main written its file?

sizes == <<W, H, C, threads_number>>
filterVars == <<sizes, created, pixel, value, behind, saved>>

Threads == 0 .. threads_number - 1
Image == 0 .. H * W - 1
NotYet == "none"
Unknown == "any"

\* The quotient, rounded up.
batch_size ==
  IF (H * W) % threads_number = 0 THEN (H * W) \div threads_number
  ELSE ((H * W) \div threads_number) + 1

from(t) == batch_size * t

\* Mutant of to: the last batch ends as the others do.
ToAsOthers(t) == batch_size * (t + 1)

to(t) == IF t = threads_number - 1 THEN H * W ELSE batch_size * (t + 1)

\* load_image, load_filter and the batches; center is ceil(C / 2).
FilterInit ==
  /\ W \in 1 .. MaxSide /\ H \in 1 .. MaxSide /\ C \in 0 .. MaxFilter
  /\ threads_number \in 1 .. MaxThreads
  /\ created = 0
  /\ pixel = [t \in Threads |-> from(t)]
  /\ value = [p \in Image |-> NotYet]
  /\ behind = {}
  /\ saved = FALSE

CreateThread ==
  /\ created < threads_number
  /\ created' = created + 1
  /\ UNCHANGED <<sizes, pixel, value, behind, saved>>

Offsets == (0 .. C - 1) \X (0 .. C - 1)

Clamp(last, index) == IF index < 0 THEN 0 ELSE IF index > last THEN last ELSE index

\* The index that is read for each entry of the filter.
calculate_pixel(p) ==
  LET center == (C + 1) \div 2
  IN  [o \in Offsets |-> Clamp(W - 1, (p % W) + o[1] - center)
                         + Clamp(H - 1, (p \div W) + o[2] - center) * W]

calculate(t) ==
  /\ t < created
  /\ pixel[t] < to(t)
  /\ pixel' = [pixel EXCEPT ![t] = @ + 1]
  /\ IF pixel[t] \in Image
     THEN value' = [value EXCEPT ![pixel[t]] = calculate_pixel(pixel[t])] /\ UNCHANGED behind
     ELSE behind' = behind \cup {pixel[t]} /\ UNCHANGED value
  /\ UNCHANGED <<sizes, created, saved>>

\* Behind output[] is the block that was allocated next, that of the batches, and what
\* pads the two.  A thread whose batch is overwritten goes on anywhere, or ends; what
\* the memory holds is not known from then on.
OverwriteBatches ==
  /\ behind # {} /\ ~saved
  /\ pixel' = [t \in Threads |-> to(t)]
  /\ value' = [p \in Image |-> Unknown]
  /\ UNCHANGED <<sizes, created, behind, saved>>

\* All threads are joined, and the output saved.
save_output ==
  /\ ~saved /\ created = threads_number
  /\ \A t \in Threads : pixel[t] >= to(t)
  /\ saved' = TRUE
  /\ UNCHANGED <<sizes, created, pixel, value, behind>>

FilterNext ==
  CreateThread \/ (\E t \in Threads : calculate(t)) \/ OverwriteBatches \/ save_output

FilterSpec == FilterInit /\ [][FilterNext]_filterVars

-----------------------------------------------------------------------------
Distance(a, b) == IF a < b THEN b - a ELSE a - b

\* The pixel of the image that is next to column x and row y, which may be outside.
Nearest(x, y) ==
  CHOOSE p \in Image :
    \A q \in Image :
      Distance(p % W, x) + Distance(p \div W, y) <= Distance(q % W, x) + Distance(q \div W, y)

\* Do the batches before the last fit into the image?
BatchesFit == batch_size * (threads_number - 1) <= H * W

\* The program writes behind the output exactly if rounding up the batch size makes a
\* batch before the last one end behind the image: with 9 pixels and 6 threads the
\* tenth is written.  If it does not, no two threads calculate the same pixel, and the
\* output that is saved has every pixel, calculated from the window that begins
\* ceil(C / 2) columns and rows before it, in an image that goes on at its edges.
FilterRight ==
  /\ BatchesFit => behind = {}
  /\ saved /\ ~BatchesFit => behind # {}
  /\ behind = {} => \A s, t \in Threads :
       s < t => (from(s) .. pixel[s] - 1) \cap (from(t) .. pixel[t] - 1) = {}
  /\ saved /\ behind = {} =>
       \A p \in Image :
         LET center == (C + 1) \div 2
         IN  value[p] = [o \in Offsets |->
                           Nearest((p % W) + o[1] - center, (p \div W) + o[2] - center)]
=============================================================================
