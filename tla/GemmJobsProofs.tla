--------------------------- MODULE GemmJobsProofs ---------------------------
(***************************************************************************)
(* What holds of the accelerator under any sequence of jobs, for every     *)
(* array size, memory depth, job shape and number of jobs: status is       *)
(* truthful, and, for jobs of two rows or more, every register follows the *)
(* schedule of GemmSchedule, which gives the exactness of the result, the  *)
(* refinement of GemmService and the type invariant.                       *)
(*                                                                         *)
(* The order: status; sizes and arithmetic of addresses; the clocks of     *)
(* InputBuffer, BufferFeeder and OutputBuffer; from phase to phase; the    *)
(* host; Scheduled is inductive; what it implies; the service; types and   *)
(* bounds; theorems.                                                       *)
(***************************************************************************)
EXTENDS GemmSchedule, TLAPS, SequenceTheorems

(* StatusTruthful is inductive together with the type of the beat counts.  *)
StatusInv == sent \in [Channels -> Nat] /\ StatusTruthful

LEMMA InitStatusInv == Init => StatusInv
  BY DEF Init, TopInit, StatusInv, StatusTruthful, JobStarted, Channels

LEMMA ClockStatusInv ==
  ASSUME StatusInv, NEW v, NEW rdy \in BOOLEAN, NEW clear \in BOOLEAN,
         Clock(v, rdy, clear)
  PROVE  StatusInv'
<1> DEFINE in == InputStreams(v)
<1>1. /\ job_busy' = NextJobBusy(in, rdy)
      /\ job_done' = NextJobDone(in, rdy, clear)
  BY DEF Clock, TopClock
<1>2. sent' = [ch \in Channels |-> IF FinalResultAccept(rdy) THEN 0
                                   ELSE IF StreamAccept(in, ch) THEN sent[ch] + 1
                                   ELSE sent[ch]]
  BY DEF Clock
<1>3. sent' \in [Channels -> Nat]
  BY <1>2 DEF StatusInv
<1>4. CASE FinalResultAccept(rdy)
  <2>1. ~JobStarted'
    BY <1>2, <1>4 DEF JobStarted
  <2>2. ~job_busy'
    BY <1>1, <1>4 DEF NextJobBusy
  <2> QED
    BY <1>3, <2>1, <2>2 DEF StatusInv, StatusTruthful
<1>5. CASE ~FinalResultAccept(rdy) /\ InputAccept(in)
  <2>1. job_busy' /\ ~job_done'
    BY <1>1, <1>5 DEF NextJobBusy, NextJobDone
  <2> QED
    BY <1>3, <2>1 DEF StatusInv, StatusTruthful
<1>6. CASE ~FinalResultAccept(rdy) /\ ~InputAccept(in)
  <2>1. \A ch \in Channels : sent'[ch] = sent[ch]
    BY <1>2, <1>6 DEF InputAccept
  <2>2. JobStarted' => JobStarted
    BY <2>1 DEF JobStarted, Channels
  <2>3. JobStarted => job_busy' /\ ~job_done'
    BY <1>1, <1>6 DEF StatusInv, StatusTruthful, NextJobBusy, NextJobDone
  <2>4. ~(job_busy' /\ job_done')
    BY <1>1, <1>6 DEF StatusInv, StatusTruthful, NextJobBusy, NextJobDone
  <2> QED
    BY <1>3, <2>2, <2>3, <2>4 DEF StatusInv, StatusTruthful
<1> QED
  BY <1>4, <1>5, <1>6

LEMMA StatusInvNext == StatusInv /\ [Next]_vars => StatusInv'
<1> SUFFICES ASSUME StatusInv, [Next]_vars PROVE StatusInv'
  OBVIOUS
<1>1. CASE Next
  BY <1>1, ClockStatusInv DEF Next
<1>2. CASE UNCHANGED vars
  <2>1. UNCHANGED <<sent, job_busy, job_done>>
    BY <1>2 DEF vars, hostVars, topVars
  <2> QED
    BY <2>1 DEF StatusInv, StatusTruthful, JobStarted, Channels
<1> QED
  BY <1>1, <1>2

(* The status registers never lie about a running job, whatever the shapes,*)
(* the gaps in the streams, the back-pressure and the moment of a clear    *)
(* (job_busy and job_done of GEMM_top.v).                                  *)
THEOREM StatusIsTruthful == Spec => []StatusTruthful
<1>1. StatusInv => StatusTruthful
  BY DEF StatusInv
<1> QED
  BY <1>1, InitStatusInv, StatusInvNext, PTL DEF Spec
-----------------------------------------------------------------------------
(* Arithmetic of the addresses *)

LEMMA ProductPositive ==
  ASSUME NEW x \in Nat \ {0}, NEW y \in Nat \ {0}
  PROVE  x * y \in Nat /\ x * y >= x /\ x * y >= y
BY SMT

LEMMA ProductMonotone ==
  ASSUME NEW x \in Nat, NEW y \in Nat, NEW z \in Nat, x <= y
  PROVE  x * z <= y * z
BY SMT

LEMMA NextMultiple == \A x, z \in Int : (x + 1) * z = x * z + z
  BY SMT

\* The place of column y of row x in a matrix of X rows of Y columns.
LEMMA PlaceInMatrix ==
  ASSUME NEW X \in Nat, NEW Y \in Nat, NEW x \in 0..X-1, NEW y \in 0..Y-1
  PROVE  x * Y + y \in 0..X*Y-1
<1> DEFINE p == x * Y
<1>1. p \in Nat
  OBVIOUS
<1>2. (x + 1) * Y <= X * Y
  BY ProductMonotone
<1>3. (x + 1) * Y = p + Y
  BY NextMultiple
<1>4. X * Y \in Nat
  OBVIOUS
<1> HIDE DEF p
<1> DEFINE P == X * Y
<1>5. P \in Nat /\ p + Y <= P
  BY <1>2, <1>3, <1>4
<1> HIDE DEF P
<1>6. p + y \in 0..P-1
  BY <1>1, <1>5
<1> QED
  BY <1>6 DEF p, P

LEMMA PlaceInjective ==
  ASSUME NEW Y \in Nat, NEW x \in Nat, NEW y \in 0..Y-1,
         NEW x1 \in Nat, NEW y1 \in 0..Y-1, x * Y + y = x1 * Y + y1
  PROVE  x = x1 /\ y = y1
<1>1. \A u, v \in Nat : u < v => u * Y + Y <= v * Y
  <2> TAKE u \in Nat, v \in Nat
  <2> HAVE u < v
  <2>1. (u + 1) * Y <= v * Y
    BY ProductMonotone
  <2> QED
    BY <2>1, NextMultiple
<1>2. ~(x < x1)
  <2> SUFFICES ASSUME x < x1 PROVE FALSE
    OBVIOUS
  <2>1. x * Y + Y <= x1 * Y
    BY <1>1
  <2> DEFINE p == x * Y
  <2> DEFINE p1 == x1 * Y
  <2>2. p \in Nat /\ p1 \in Nat /\ p + Y <= p1 /\ p + y = p1 + y1
    BY <2>1
  <2> HIDE DEF p, p1
  <2> QED
    BY <2>2
<1>3. ~(x1 < x)
  <2> SUFFICES ASSUME x1 < x PROVE FALSE
    OBVIOUS
  <2>1. x1 * Y + Y <= x * Y
    BY <1>1
  <2> DEFINE p == x * Y
  <2> DEFINE p1 == x1 * Y
  <2>2. p \in Nat /\ p1 \in Nat /\ p1 + Y <= p /\ p + y = p1 + y1
    BY <2>1
  <2> HIDE DEF p, p1
  <2> QED
    BY <2>2
<1>4. x = x1
  BY <1>2, <1>3
<1> DEFINE p == x * Y
<1>5. p \in Nat /\ p + y = p + y1
  BY <1>4
<1> HIDE DEF p
<1> QED
  BY <1>4, <1>5

-----------------------------------------------------------------------------
(* The configuration of a job *)

LEMMA ConfigSize ==
  ASSUME NEW c, IsConfig(c)
  PROVE  /\ c.rows \in Nat /\ c.rows >= 2 /\ c.k \in Nat /\ c.k >= 1 /\ c.n \in Nat /\ c.n >= 1
         /\ ArraySize \in Nat /\ ArraySize >= 2 /\ ResultLatency \in Nat /\ ResultLatency >= 1
         /\ Beats(c, "feature") = c.rows /\ Beats(c, "weight") = c.n * ArraySize
         /\ \A ch \in Channels : Beats(c, ch) \in Nat /\ Beats(c, ch) >= 2
         /\ c.n * ArraySize >= c.n
<1>1. /\ c.rows \in Nat /\ c.rows >= 2 /\ c.k \in Nat /\ c.k >= 1 /\ c.n \in Nat /\ c.n >= 1
      /\ ArraySize \in Nat /\ ArraySize >= 2
  BY ArraySizeAssumption DEF IsConfig
<1>2. ResultLatency \in Nat /\ ResultLatency >= 1
  BY <1>1 DEF ResultLatency
<1>3. Beats(c, "feature") = c.rows /\ Beats(c, "weight") = c.n * ArraySize
  BY DEF Beats, ReplayBeats
<1>4. c.n * ArraySize \in Nat /\ c.n * ArraySize >= ArraySize /\ c.n * ArraySize >= c.n
  BY <1>1, ProductPositive
<1>5. \A ch \in Channels : Beats(c, ch) \in Nat /\ Beats(c, ch) >= 2
  BY <1>1, <1>3, <1>4 DEF Channels
<1> QED
  BY <1>1, <1>2, <1>3, <1>4, <1>5

LEMMA ResultSize ==
  ASSUME NEW c, IsConfig(c)
  PROVE  /\ ResultWords(c) \in Nat /\ ResultWords(c) >= 2 /\ ResultWords(c) <= OutputDepth
         /\ ResultWords(c) = c.rows * c.n /\ ResultWords(c) = c.n * c.rows
         /\ OutputDepth \in Nat
<1>1. c.rows \in Nat \ {0} /\ c.n \in Nat \ {0} /\ c.rows >= 2
  BY DEF IsConfig
<1>2. c.rows * c.n \in Nat /\ c.rows * c.n >= c.rows /\ c.rows * c.n = c.n * c.rows
  BY <1>1, ProductPositive
<1> QED
  BY <1>1, <1>2, OutputDepthAssumption DEF ResultWords, IsConfig

LEMMA StreamSize ==
  ASSUME NEW c, IsConfig(c), NEW ch \in Channels
  PROVE  /\ StreamWords(c, ch) \in Nat /\ StreamWords(c, ch) >= Beats(c, ch)
         /\ StreamWords(c, ch) <= InputDepth /\ InputDepth \in Nat
         /\ Beats(c, ch) <= InputDepth
<1>1. c.k \in Nat \ {0} /\ Beats(c, ch) \in Nat \ {0}
  BY ConfigSize
<1>2. StreamWords(c, ch) \in Nat /\ StreamWords(c, ch) >= Beats(c, ch)
  BY <1>1, ProductPositive DEF StreamWords
<1>3. StreamWords(c, ch) <= InputDepth /\ InputDepth \in Nat
  BY InputDepthAssumption DEF IsConfig
<1> QED
  BY <1>1, <1>2, <1>3

\* The words of a stream that make up K block b.
LEMMA BlockWords ==
  ASSUME NEW c, IsConfig(c), NEW b \in 0..c.k-1
  PROVE  /\ \A m \in 0..c.rows-1 : m * c.k + b \in 0..StreamWords(c, "feature")-1
         /\ b * Beats(c, "weight") \in Nat
         /\ (b + 1) * Beats(c, "weight") = b * Beats(c, "weight") + Beats(c, "weight")
         /\ b * Beats(c, "weight") + Beats(c, "weight") <= StreamWords(c, "weight")
         /\ b = c.k - 1 =>
              b * Beats(c, "weight") + Beats(c, "weight") = StreamWords(c, "weight")
<1>1. c.rows \in Nat /\ c.k \in Nat /\ b \in Nat /\ Beats(c, "weight") \in Nat
  BY ConfigSize DEF Channels
<1>2. \A m \in 0..c.rows-1 : m * c.k + b \in 0..c.rows*c.k-1
  BY <1>1, PlaceInMatrix
<1>3. StreamWords(c, "feature") = c.rows * c.k
  BY <1>1 DEF StreamWords, Beats, ReplayBeats
<1>4. b * Beats(c, "weight") \in Nat
  BY <1>1
<1>5. (b + 1) * Beats(c, "weight") = b * Beats(c, "weight") + Beats(c, "weight")
  BY <1>1, NextMultiple
<1>6. (b + 1) * Beats(c, "weight") <= StreamWords(c, "weight")
  BY <1>1, ProductMonotone DEF StreamWords
<1>7. b = c.k - 1 => (b + 1) * Beats(c, "weight") = StreamWords(c, "weight")
  BY <1>1 DEF StreamWords
<1> QED
  BY <1>2, <1>3, <1>4, <1>5, <1>6, <1>7

\* The result words, and that no two of them share an address or a place.
LEMMA ResultPlaces ==
  ASSUME NEW c, IsConfig(c), NEW m \in 0..c.rows-1, NEW nb \in 0..c.n-1
  PROVE  /\ WordAddr(c, m, nb) \in 0..ResultWords(c)-1
         /\ WordIndex(c, m, nb) \in 0..ResultWords(c)-1
         /\ WordAddr(c, m, nb) \in 0..OutputDepth-1
<1>1. c.rows \in Nat /\ c.n \in Nat
  BY ConfigSize
<1>2. nb * c.rows + m \in 0..c.n*c.rows-1 /\ m * c.n + nb \in 0..c.rows*c.n-1
  BY <1>1, PlaceInMatrix
<1> QED
  BY <1>2, ResultSize DEF WordAddr, WordIndex

LEMMA ResultPlacesDiffer ==
  ASSUME NEW c, IsConfig(c), NEW m \in 0..c.rows-1, NEW nb \in 0..c.n-1,
         NEW m1 \in 0..c.rows-1, NEW nb1 \in 0..c.n-1
  PROVE  /\ WordAddr(c, m, nb) = WordAddr(c, m1, nb1) => m = m1 /\ nb = nb1
         /\ WordIndex(c, m, nb) = WordIndex(c, m1, nb1) => m = m1 /\ nb = nb1
<1>1. c.rows \in Nat /\ c.n \in Nat
  BY ConfigSize
<1>2. nb * c.rows + m = nb1 * c.rows + m1 => m = m1 /\ nb = nb1
  BY <1>1, PlaceInjective
<1>3. m * c.n + nb = m1 * c.n + nb1 => m = m1 /\ nb = nb1
  BY <1>1, PlaceInjective
<1> QED
  BY <1>2, <1>3 DEF WordAddr, WordIndex

LEMMA Division ==
  ASSUME NEW a \in Nat, NEW n \in Nat \ {0}
  PROVE  a \div n \in Nat /\ a % n \in 0..n-1 /\ a = (a \div n) * n + (a % n)
BY SMT

\* Every address below ResultWords(c) is that of a result word, every index is
\* the place of one.
LEMMA ResultPlacesCover ==
  ASSUME NEW c, IsConfig(c), NEW a \in 0..ResultWords(c)-1
  PROVE  /\ \E m \in 0..c.rows-1, nb \in 0..c.n-1 : a = WordAddr(c, m, nb)
         /\ a \div c.n \in 0..c.rows-1 /\ a % c.n \in 0..c.n-1
         /\ a = WordIndex(c, a \div c.n, a % c.n)
<1>c. c.rows \in Nat \ {0} /\ c.n \in Nat \ {0} /\ a \in Nat /\ ResultWords(c) \in Nat
  BY ConfigSize, ResultSize
<1>1. \A X, Y \in Nat \ {0}, q \in Nat, r \in Nat : q * Y + r < X * Y => q < X
  <2> TAKE X \in Nat \ {0}, Y \in Nat \ {0}, q \in Nat, r \in Nat
  <2> SUFFICES ASSUME q >= X, q * Y + r < X * Y PROVE FALSE
    OBVIOUS
  <2>1. X * Y <= q * Y
    BY ProductMonotone
  <2>2. X * Y \in Nat /\ q * Y \in Nat
    OBVIOUS
  <2> QED
    BY <2>1, <2>2
<1>2. /\ a \div c.n \in Nat /\ a % c.n \in 0..c.n-1
      /\ a = (a \div c.n) * c.n + (a % c.n)
  BY <1>c, Division
<1>3. a \div c.n \in 0..c.rows-1
  <2> DEFINE q == a \div c.n
  <2> DEFINE r == a % c.n
  <2>1. q \in Nat /\ r \in Nat /\ q * c.n + r < c.rows * c.n
    BY <1>2, <1>c, ResultSize
  <2> HIDE DEF q, r
  <2>2. q < c.rows
    BY <2>1, <1>1, <1>c
  <2>3. q \in 0..c.rows-1
    BY <2>1, <2>2, <1>c
  <2> QED
    BY <2>3 DEF q
<1>4. /\ a \div c.rows \in Nat /\ a % c.rows \in 0..c.rows-1
      /\ a = (a \div c.rows) * c.rows + (a % c.rows)
  BY <1>c, Division
<1>5. a \div c.rows \in 0..c.n-1
  <2> DEFINE q == a \div c.rows
  <2> DEFINE r == a % c.rows
  <2>1. q \in Nat /\ r \in Nat /\ q * c.rows + r < c.n * c.rows
    BY <1>4, <1>c, ResultSize
  <2> HIDE DEF q, r
  <2>2. q < c.n
    BY <2>1, <1>1, <1>c
  <2>3. q \in 0..c.n-1
    BY <2>1, <2>2, <1>c
  <2> QED
    BY <2>3 DEF q
<1> QED
  BY <1>2, <1>3, <1>4, <1>5 DEF WordAddr, WordIndex

-----------------------------------------------------------------------------
(* InputBuffer *)

LEMMA RunningSizes ==
  ASSUME NEW c, IsConfig(c), Running(c)
  PROVE  /\ \A ch \in Channels : words_expected[ch] = StreamWords(c, ch)
         /\ \A ch \in Channels : words_expected[ch] \in Nat /\ words_expected[ch] >= 2
         /\ \A ch \in Channels : total_words[ch] = Beats(c, ch)
         /\ results_expected = ResultWords(c)
<1>1. c.rows \in Nat /\ c.k \in Nat /\ c.n \in Nat /\ ArraySize \in Nat
  BY ConfigSize
<1>2. StreamWords(c, "feature") = c.rows * c.k
  BY <1>1 DEF StreamWords, Beats, ReplayBeats
<1>3. StreamWords(c, "weight") = c.k * (c.n * ArraySize)
  BY <1>1 DEF StreamWords, Beats, ReplayBeats
<1>4. c.k * (c.n * ArraySize) = c.n * (c.k * ArraySize)
  BY <1>1
<1>5. \A ch \in Channels : words_expected[ch] = StreamWords(c, ch)
  BY <1>2, <1>3, <1>4 DEF Running, Sized, Channels
<1>6. \A ch \in Channels : words_expected[ch] \in Nat /\ words_expected[ch] >= 2
  <2> TAKE ch \in Channels
  <2>1. StreamWords(c, ch) \in Nat /\ StreamWords(c, ch) >= Beats(c, ch)
    BY StreamSize
  <2>2. Beats(c, ch) \in Nat /\ Beats(c, ch) >= 2
    BY ConfigSize
  <2> QED
    BY <1>5, <2>1, <2>2
<1>7. \A ch \in Channels : total_words[ch] = Beats(c, ch)
  BY DEF Running, Sized, Channels, Beats, ReplayBeats
<1>8. results_expected = ResultWords(c)
  BY DEF Running, Sized, ResultWords
<1> QED
  BY <1>5, <1>6, <1>7, <1>8

\* Outside IN_DATA no beat is stored.
LEMMA IBKeepsWords ==
  ASSUME NEW c, NEW in, NEW plast, NEW ready, ib_state # "IN_DATA", NothingWritten,
         IBClock(c, in, plast, ready)
  PROVE  /\ NothingWritten'
         /\ \A ch \in Channels : buffer_mem'[ch] = buffer_mem[ch]
         /\ \A ch \in Channels : ~StreamAccept(in, ch)
<1>1. \A ch \in Channels : ~StreamAccept(in, ch)
  BY DEF StreamAccept, StreamReady
<1>2. \A ch \in Channels : /\ write_count'[ch] = NextWriteCount(c, in, plast, ch)
                           /\ write_addr'[ch] = NextWriteAddr(in, ch)
                           /\ buffer_mem'[ch] = NextBufferMem(in, ch)
  BY DEF IBClock
<1> QED
  BY <1>1, <1>2 DEF NothingWritten, NextWriteCount, NextWriteAddr, NextBufferMem

LEMMA IBKeepsMemory ==
  ASSUME NEW c, NEW in, NEW plast, NEW ready, Memories, IBClock(c, in, plast, ready)
  PROVE  /\ DOMAIN buffer_mem' = Channels
         /\ \A ch \in Channels : DOMAIN buffer_mem'[ch] = 0..InputDepth-1
<1>1. buffer_mem' = [ch \in Channels |-> NextBufferMem(in, ch)]
  BY DEF IBClock
<1> QED
  BY <1>1 DEF Memories, NextBufferMem

\* While nothing is replayed and no readout starts, only the state moves on.
LEMMA IBQuiet ==
  ASSUME NEW c, NEW in, NEW ready, NothingReplayed, ~AllWordsStored,
         weight_read_addr = 0 \/ weight_read_addr # words_expected["weight"] - 1,
         IBClock(c, in, FALSE, ready)
  PROVE  /\ NothingReplayed'
         /\ read_k_block' = read_k_block /\ weight_read_addr' = weight_read_addr
         /\ ib_state' = IF ib_state = "IDLE" /\ (\E ch \in Channels : in[ch].valid)
                        THEN "IN_DATA" ELSE ib_state
<1>1. ~StartReadout(c, FALSE) /\ ~LastKBlockDone(c, FALSE)
  BY DEF StartReadout, LastKBlockDone
<1>2. \A ch \in Channels : ~BufferAccept(ready, ch)
  BY DEF BufferAccept, NothingReplayed
<1>3. \A ch \in Channels : ~buffer_valid'[ch] /\ buffer_count'[ch] = 0
  <2> TAKE ch \in Channels
  <2>1. /\ buffer_valid'[ch] = NextBufferValid(c, FALSE, ready, ch)
        /\ buffer_count'[ch] = NextBufferCount(c, ready, ch)
    BY DEF IBClock
  <2> QED
    BY <1>1, <1>2, <2>1 DEF NextBufferValid, NextBufferCount, NothingReplayed
<1>4. read_row' = 0
  <2>1. read_row' = NextReadRow(c, FALSE, ready)
    BY DEF IBClock
  <2> QED
    BY <1>1, <2>1 DEF NextReadRow, NothingReplayed
<1>5. read_k_block' = read_k_block
  <2>1. read_k_block' = NextReadKBlock(c, FALSE, ready)
    BY DEF IBClock
  <2> QED
    BY <1>1, <1>2, <2>1 DEF NextReadKBlock, Channels
<1>6. weight_read_addr' = weight_read_addr
  <2>1. weight_read_addr' = NextWeightReadAddr(c, FALSE, ready)
    BY DEF IBClock
  <2> QED
    BY <1>1, <1>2, <2>1 DEF NextWeightReadAddr, Channels
<1>7. ib_state' = NextIBState(c, in, FALSE)
  BY DEF IBClock
<1>8. ib_state' = IF ib_state = "IDLE" /\ (\E ch \in Channels : in[ch].valid)
                  THEN "IN_DATA" ELSE ib_state
  BY <1>1, <1>7 DEF NextIBState
<1> QED
  BY <1>3, <1>4, <1>5, <1>6, <1>8 DEF NothingReplayed

\* A readout starts with the first words of the K block.
LEMMA IBStarts ==
  ASSUME NEW c, IsConfig(c), NEW b \in 0..c.k-1, NEW in, NEW plast \in BOOLEAN, NEW ready,
         StartReadout(c, plast), ~LastKBlockDone(c, plast),
         \/ ib_state = "IN_DATA" /\ ~plast
         \/ ib_state = "CAL",
         words_expected["weight"] = StreamWords(c, "weight"), Memories,
         \A ch \in Channels : Stored(c, ch, StreamWords(c, ch)),
         NothingReplayed, read_k_block = b,
         weight_read_addr = WrapWeights(c, b * Beats(c, "weight")),
         IBClock(c, in, plast, ready)
  PROVE  Replaying(c, b, 0)'
<1> DEFINE w == b * Beats(c, "weight")
<1>c. /\ c.rows \in Nat /\ c.rows >= 2 /\ c.k \in Nat /\ b \in Nat
      /\ Beats(c, "feature") = c.rows
      /\ Beats(c, "weight") \in Nat /\ Beats(c, "weight") >= 2
      /\ \A ch \in Channels : Beats(c, ch) \in Nat /\ Beats(c, ch) >= 2
  BY ConfigSize DEF Channels
<1>w. /\ w \in Nat /\ w + Beats(c, "weight") <= StreamWords(c, "weight")
      /\ StreamWords(c, "weight") \in Nat /\ StreamWords(c, "weight") <= InputDepth
      /\ StreamWords(c, "feature") \in Nat /\ StreamWords(c, "feature") <= InputDepth
      /\ InputDepth \in Nat
  BY BlockWords, StreamSize DEF Channels
<1>f. 0 * c.k + b \in 0..StreamWords(c, "feature")-1 /\ 0 * c.k = 0
  BY <1>c, BlockWords
<1>a. weight_read_addr = w
  BY <1>w, <1>c DEF WrapWeights
<1>1. ib_state' = "CAL"
  <2>1. ib_state' = NextIBState(c, in, plast)
    BY DEF IBClock
  <2> QED
    BY <2>1 DEF NextIBState
<1>2. \A ch \in Channels : buffer_valid'[ch] /\ buffer_count'[ch] = 0
  <2> TAKE ch \in Channels
  <2>1. /\ buffer_valid'[ch] = NextBufferValid(c, plast, ready, ch)
        /\ buffer_count'[ch] = NextBufferCount(c, ready, ch)
    BY DEF IBClock
  <2>2. buffer_valid'[ch]
    BY <2>1 DEF NextBufferValid
  <2>3. buffer_count'[ch] = 0
    BY <2>1 DEF NextBufferCount, NothingReplayed, BufferAccept
  <2> QED
    BY <2>2, <2>3
<1>3. buffer_data' = [ch \in Channels |-> Word(ch, ReadAddr(c, ch))]
  BY DEF IBClock
<1>4. buffer_data'["feature"] = <<c.shift, 0 * c.k + b>>
  <2>1. ReadAddr(c, "feature") = 0 * c.k + b
    BY <1>c DEF ReadAddr, NothingReplayed
  <2>2. 0 * c.k + b \in 0..InputDepth-1
    BY <1>f, <1>w
  <2>3. buffer_data'["feature"] = buffer_mem["feature"][0 * c.k + b]
    BY <1>3, <2>1, <2>2 DEF Word, Channels
  <2> QED
    BY <2>3, <1>f DEF Stored, Channels
<1>5. buffer_data'["weight"] = <<c.shift, w + 0>>
  <2>1. ReadAddr(c, "weight") = w
    BY <1>a DEF ReadAddr
  <2>2. w \in 0..InputDepth-1 /\ w \in 0..StreamWords(c, "weight")-1
    BY <1>w, <1>c
  <2>3. buffer_data'["weight"] = buffer_mem["weight"][w]
    BY <1>3, <2>1, <2>2 DEF Word, Channels
  <2> QED
    BY <2>3, <2>2, <1>w DEF Stored, Channels
<1>6. read_row' = 1
  BY DEF IBClock, NextReadRow
<1>7. read_k_block' = b
  <2>1. read_k_block' = NextReadKBlock(c, plast, ready)
    BY DEF IBClock
  <2> QED
    BY <2>1 DEF NextReadKBlock, NothingReplayed, BufferAccept, Channels
<1>8. weight_read_addr' = w + 1
  <2>1. weight_read_addr' = NextWeightReadAddr(c, plast, ready)
    BY DEF IBClock
  <2>2. weight_read_addr # words_expected["weight"] - 1
    BY <1>a, <1>w, <1>c
  <2>3. ~BufferLast(c, "weight")
    BY <1>c DEF BufferLast, NothingReplayed, Channels, Beats
  <2> QED
    BY <2>1, <2>2, <2>3, <1>a DEF NextWeightReadAddr
<1>9. WrapWeights(c, w + 1) = w + 1
  BY <1>w, <1>c DEF WrapWeights
<1> HIDE DEF w
<1>10. /\ \A ch \in Channels : /\ buffer_valid'[ch] <=> 0 < Beats(c, ch)
                               /\ buffer_count'[ch] = IF 0 <= Beats(c, ch) THEN 0 ELSE 0
       /\ read_row' = IF 0 < c.rows - 1 THEN 0 + 1 ELSE 0
       /\ read_k_block' = IF 0 < c.rows THEN b ELSE b + 1
       /\ weight_read_addr' =
            WrapWeights(c, w + (IF 0 < Beats(c, "weight") THEN 0 + 1 ELSE Beats(c, "weight")))
  BY <1>2, <1>6, <1>7, <1>8, <1>9, <1>c
<1> QED
  BY <1>1, <1>4, <1>5, <1>10 DEF Replaying, w

\* A K block never ends one word before the end of the stream.
LEMMA BlockEnd ==
  ASSUME NEW c, IsConfig(c), NEW b \in 0..c.k-1
  PROVE  b * Beats(c, "weight") + Beats(c, "weight") # StreamWords(c, "weight") - 1
<1> DEFINE w == b * Beats(c, "weight")
<1>1. /\ w \in Nat
      /\ (b + 1) * Beats(c, "weight") = w + Beats(c, "weight")
      /\ StreamWords(c, "weight") \in Nat /\ Beats(c, "weight") \in Nat
      /\ Beats(c, "weight") >= 2 /\ c.k \in Nat
  BY BlockWords, StreamSize, ConfigSize DEF Channels
<1>2. CASE b = c.k - 1
  <2>1. w + Beats(c, "weight") = StreamWords(c, "weight")
    BY <1>2, BlockWords
  <2> QED
    BY <2>1, <1>1
<1>3. CASE b # c.k - 1
  <2>1. b + 1 \in 0..c.k-1
    BY <1>1, <1>3
  <2>2. (b + 1) * Beats(c, "weight") + Beats(c, "weight") <= StreamWords(c, "weight")
    BY <2>1, BlockWords
  <2> HIDE DEF w
  <2> QED
    BY <2>2, <1>1
<1> QED
  BY <1>2, <1>3

\* A beat of each channel that still replays is taken on every clock.
LEMMA IBReplays ==
  ASSUME NEW c, IsConfig(c), NEW b \in 0..c.k-1, NEW i \in Nat, NEW in, NEW ready,
         words_expected["weight"] = StreamWords(c, "weight"), Memories,
         \A ch \in Channels : Stored(c, ch, StreamWords(c, ch)),
         ~AllWordsStored,
         \A ch \in Channels : i < Beats(c, ch) => ready[ch],
         Replaying(c, b, i), IBClock(c, in, FALSE, ready)
  PROVE  Replaying(c, b, i + 1)'
<1> DEFINE w == b * Beats(c, "weight")
<1> DEFINE B == Beats(c, "weight")
<1> DEFINE W == StreamWords(c, "weight")
<1>c. /\ c.rows \in Nat /\ c.rows >= 2 /\ c.k \in Nat /\ b \in Nat
      /\ Beats(c, "feature") = c.rows
      /\ B \in Nat /\ B >= 2
      /\ \A ch \in Channels : Beats(c, ch) \in Nat /\ Beats(c, ch) >= 2
  BY ConfigSize DEF Channels
<1>w. /\ w \in Nat /\ w + B <= W /\ W \in Nat /\ W <= InputDepth
      /\ StreamWords(c, "feature") \in Nat /\ StreamWords(c, "feature") <= InputDepth
      /\ InputDepth \in Nat
  BY BlockWords, StreamSize DEF Channels
<1>e. w + B # W - 1
  BY BlockEnd
<1>s. ~StartReadout(c, FALSE) /\ ~LastKBlockDone(c, FALSE)
  BY DEF StartReadout, LastKBlockDone
<1>r. \A ch \in Channels : /\ buffer_valid[ch] <=> i < Beats(c, ch)
                           /\ buffer_count[ch] = IF i <= Beats(c, ch) THEN i ELSE 0
  BY DEF Replaying
<1>a. \A ch \in Channels : BufferAccept(ready, ch) <=> i < Beats(c, ch)
  BY <1>r DEF BufferAccept
<1>l. \A ch \in Channels : i < Beats(c, ch) => (BufferLast(c, ch) <=> i = Beats(c, ch) - 1)
  BY <1>r, <1>c DEF BufferLast, Beats
<1>1. ib_state' = "CAL"
  <2>1. ib_state' = NextIBState(c, in, FALSE)
    BY DEF IBClock
  <2> QED
    BY <2>1, <1>s DEF NextIBState, Replaying
<1>2. \A ch \in Channels : /\ buffer_valid'[ch] <=> i + 1 < Beats(c, ch)
                           /\ buffer_count'[ch] = IF i + 1 <= Beats(c, ch) THEN i + 1 ELSE 0
  <2> TAKE ch \in Channels
  <2>1. /\ buffer_valid'[ch] = NextBufferValid(c, FALSE, ready, ch)
        /\ buffer_count'[ch] = NextBufferCount(c, ready, ch)
    BY DEF IBClock
  <2>2. buffer_valid'[ch] <=> i + 1 < Beats(c, ch)
    <3>1. buffer_valid'[ch] <=> buffer_valid[ch] /\ ~(BufferAccept(ready, ch) /\ BufferLast(c, ch))
      BY <2>1, <1>s DEF NextBufferValid
    <3>2. buffer_valid'[ch] <=> i < Beats(c, ch) /\ i # Beats(c, ch) - 1
      BY <3>1, <1>r, <1>a, <1>l
    <3>3. Beats(c, ch) \in Nat
      BY <1>c
    <3> QED
      BY <3>2, <3>3
  <2>3. buffer_count'[ch] = IF i + 1 <= Beats(c, ch) THEN i + 1 ELSE 0
    BY <2>1, <1>r, <1>a, <1>c DEF NextBufferCount, Beats
  <2> QED
    BY <2>2, <2>3
<1>3. buffer_data' = [ch \in Channels |-> Word(ch, ReadAddr(c, ch))]
  BY DEF IBClock
<1>4. i + 1 < c.rows => buffer_data'["feature"] = <<c.shift, (i + 1) * c.k + b>>
  <2> HAVE i + 1 < c.rows
  <2>1. ReadAddr(c, "feature") = (i + 1) * c.k + b
    <3>1. read_row = i + 1 /\ read_k_block = b
      BY <1>c DEF Replaying
    <3> QED
      BY <3>1 DEF ReadAddr
  <2>2. (i + 1) * c.k + b \in 0..StreamWords(c, "feature")-1
    <3>1. i + 1 \in 0..c.rows-1
      BY <1>c
    <3> QED
      BY <3>1, BlockWords
  <2>3. (i + 1) * c.k + b \in 0..InputDepth-1
    BY <2>2, <1>w
  <2>4. buffer_data'["feature"] = buffer_mem["feature"][(i + 1) * c.k + b]
    BY <1>3, <2>1, <2>3 DEF Word, Channels
  <2> QED
    BY <2>4, <2>2 DEF Stored, Channels
<1>5. i + 1 < B => buffer_data'["weight"] = <<c.shift, w + (i + 1)>>
  <2> HAVE i + 1 < B
  <2>1. weight_read_addr = w + (i + 1)
    BY <1>c, <1>w DEF Replaying, WrapWeights
  <2>2. w + (i + 1) \in 0..InputDepth-1 /\ w + (i + 1) \in 0..W-1
    BY <1>w, <1>c
  <2>3. buffer_data'["weight"] = buffer_mem["weight"][w + (i + 1)]
    BY <1>3, <2>1, <2>2 DEF Word, ReadAddr, Channels
  <2> QED
    BY <2>3, <2>2 DEF Stored, Channels
<1>6. read_row' = IF i + 1 < c.rows - 1 THEN (i + 1) + 1 ELSE 0
  <2>1. read_row' = NextReadRow(c, FALSE, ready)
    BY DEF IBClock
  <2>2. read_row = IF i < c.rows - 1 THEN i + 1 ELSE 0
    BY DEF Replaying
  <2>3. BufferAccept(ready, "feature") <=> i < c.rows
    BY <1>a, <1>c DEF Channels
  <2> QED
    BY <2>1, <2>2, <2>3, <1>s, <1>c DEF NextReadRow
<1>7. read_k_block' = IF i + 1 < c.rows THEN b ELSE b + 1
  <2>1. read_k_block' = NextReadKBlock(c, FALSE, ready)
    BY DEF IBClock
  <2>2. read_k_block = IF i < c.rows THEN b ELSE b + 1
    BY DEF Replaying
  <2>3. /\ BufferAccept(ready, "feature") <=> i < c.rows
        /\ i < c.rows => (BufferLast(c, "feature") <=> i = c.rows - 1)
    BY <1>a, <1>l, <1>c DEF Channels
  <2> QED
    BY <2>1, <2>2, <2>3, <1>s, <1>c DEF NextReadKBlock
<1>8. weight_read_addr' = WrapWeights(c, w + (IF i + 1 < B THEN (i + 1) + 1 ELSE B))
  <2>1. weight_read_addr' = NextWeightReadAddr(c, FALSE, ready)
    BY DEF IBClock
  <2>2. weight_read_addr = WrapWeights(c, w + (IF i < B THEN i + 1 ELSE B))
    BY DEF Replaying
  <2>3. /\ BufferAccept(ready, "weight") <=> i < B
        /\ i < B => (BufferLast(c, "weight") <=> i = B - 1)
    BY <1>a, <1>l, <1>c DEF Channels
  <2>4. weight_read_addr' = IF weight_read_addr = W - 1 THEN 0
                            ELSE IF i < B - 1 THEN weight_read_addr + 1 ELSE weight_read_addr
    <3>1. weight_read_addr' =
            IF weight_read_addr = W - 1 THEN 0
            ELSE IF BufferAccept(ready, "weight") /\ ~BufferLast(c, "weight")
                 THEN weight_read_addr + 1 ELSE weight_read_addr
      BY <2>1, <1>s DEF NextWeightReadAddr
    <3>2. BufferAccept(ready, "weight") /\ ~BufferLast(c, "weight") <=> i < B /\ i # B - 1
      BY <2>3
    <3>3. i < B /\ i # B - 1 <=> i < B - 1
      BY <1>c
    <3> QED
      BY <3>1, <3>2, <3>3
  <2> HIDE DEF w, B, W
  <2>5. \A a : WrapWeights(c, a) = IF a = W THEN 0 ELSE a
    BY DEF WrapWeights, W
  <2>6. CASE i < B - 1
    <3>1. weight_read_addr = w + (i + 1)
      BY <2>2, <2>5, <2>6, <1>w, <1>c
    <3>2. w + (IF i + 1 < B THEN (i + 1) + 1 ELSE B) = w + (i + 2)
      BY <2>6, <1>c
    <3>3. CASE w + (i + 1) = W - 1
      <4>1. weight_read_addr' = 0
        BY <3>1, <3>3, <2>4
      <4>2. w + (i + 2) = W
        BY <3>3, <1>w, <1>c
      <4>3. WrapWeights(c, w + (i + 2)) = 0
        BY <4>2, <2>5
      <4> QED
        BY <4>1, <4>3, <3>2
    <3>4. CASE w + (i + 1) # W - 1
      <4>1. weight_read_addr' = w + (i + 1) + 1
        BY <3>1, <3>4, <2>4, <2>6
      <4>2. w + (i + 2) # W /\ w + (i + 1) + 1 = w + (i + 2)
        BY <3>4, <1>w, <1>c
      <4>3. WrapWeights(c, w + (i + 2)) = w + (i + 2)
        BY <4>2, <2>5
      <4> QED
        BY <4>1, <4>2, <4>3, <3>2
    <3> QED
      BY <3>3, <3>4
  <2>7. CASE ~(i < B - 1)
    <3>1. weight_read_addr = WrapWeights(c, w + B)
      BY <2>2, <2>7, <1>c
    <3>2. weight_read_addr # W - 1
      BY <3>1, <2>5, <1>e, <1>w, <1>c
    <3>3. w + (IF i + 1 < B THEN (i + 1) + 1 ELSE B) = w + B
      BY <2>7, <1>c
    <3>4. weight_read_addr' = weight_read_addr
      BY <3>2, <2>4, <2>7
    <3> QED
      BY <3>1, <3>3, <3>4
  <2> QED
    BY <2>6, <2>7
<1> HIDE DEF w
<1> QED
  BY <1>1, <1>2, <1>4, <1>5, <1>6, <1>7, <1>8, <1>c DEF Replaying, w

LEMMA IBReplayEnds ==
  ASSUME NEW c, IsConfig(c), NEW b \in 0..c.k-1, NEW i, i = FillClocks(c) + 1,
         Replaying(c, b, i)'
  PROVE  Replayed(c, b)'
<1>1. /\ c.rows \in Nat /\ Beats(c, "weight") \in Nat /\ c.rows >= 2
      /\ Beats(c, "feature") = c.rows
  BY ConfigSize DEF Channels
<1>2. FillClocks(c) \in Nat /\ FillClocks(c) >= c.rows /\ FillClocks(c) >= Beats(c, "weight")
  BY <1>1 DEF FillClocks
<1>3. \A ch \in Channels : FillClocks(c) >= Beats(c, ch) /\ Beats(c, ch) \in Nat
  BY <1>1, <1>2 DEF Channels
<1>r. /\ ib_state' = "CAL"
      /\ \A ch \in Channels :
           /\ buffer_valid'[ch] <=> i < Beats(c, ch)
           /\ buffer_count'[ch] = IF i <= Beats(c, ch) THEN i ELSE 0
      /\ read_row' = IF i < c.rows - 1 THEN i + 1 ELSE 0
      /\ read_k_block' = IF i < c.rows THEN b ELSE b + 1
      /\ weight_read_addr' =
           WrapWeights(c, b * Beats(c, "weight")
                            + (IF i < Beats(c, "weight") THEN i + 1 ELSE Beats(c, "weight")))
  BY DEF Replaying, WrapWeights, StreamWords, Beats, ReplayBeats
<1>i. i \in Nat /\ i > c.rows /\ i > Beats(c, "weight") /\ \A ch \in Channels : i > Beats(c, ch)
  BY <1>1, <1>2, <1>3
<1>4. NothingReplayed'
  BY <1>1, <1>3, <1>i, <1>r DEF NothingReplayed
<1>5. (b + 1) * Beats(c, "weight") = b * Beats(c, "weight") + Beats(c, "weight")
  BY BlockWords
<1>6. /\ read_k_block' = b + 1
      /\ weight_read_addr' = WrapWeights(c, (b + 1) * Beats(c, "weight"))
  BY <1>1, <1>i, <1>r, <1>5
<1> QED
  BY <1>4, <1>6, <1>r DEF Replayed, WrapWeights, StreamWords, Beats, ReplayBeats

\* Between two replays the read address of the weights stands still.
LEMMA ReplayedAddr ==
  ASSUME NEW c, IsConfig(c), NEW b \in 0..c.k-1, Replayed(c, b),
         words_expected["weight"] = StreamWords(c, "weight")
  PROVE  weight_read_addr = 0 \/ weight_read_addr # words_expected["weight"] - 1
<1>1. (b + 1) * Beats(c, "weight") # StreamWords(c, "weight") - 1
  BY BlockEnd, BlockWords
<1> QED
  BY <1>1 DEF Replayed, WrapWeights

\* Once the last K block is done InputBuffer is idle and at its first address.
LEMMA IBFinishes ==
  ASSUME NEW c, IsConfig(c), NEW in, NEW ready, Replayed(c, c.k - 1),
         words_expected["weight"] = StreamWords(c, "weight"), ~AllWordsStored,
         IBClock(c, in, TRUE, ready)
  PROVE  /\ ib_state' = "IDLE" /\ NothingReplayed'
         /\ read_k_block' = 0 /\ weight_read_addr' = 0
<1>1. c.k \in Nat /\ c.k >= 1 /\ c.k - 1 \in 0..c.k-1
  BY ConfigSize
<1>2. read_k_block = c.k
  BY <1>1 DEF Replayed
<1>3. ~StartReadout(c, TRUE) /\ LastKBlockDone(c, TRUE)
  BY <1>2 DEF StartReadout, LastKBlockDone
<1>4. \A ch \in Channels : ~BufferAccept(ready, ch)
  BY DEF BufferAccept, NothingReplayed, Replayed
<1>5. \A ch \in Channels : ~buffer_valid'[ch] /\ buffer_count'[ch] = 0
  <2> TAKE ch \in Channels
  <2>1. /\ buffer_valid'[ch] = NextBufferValid(c, TRUE, ready, ch)
        /\ buffer_count'[ch] = NextBufferCount(c, ready, ch)
    BY DEF IBClock
  <2> QED
    BY <1>3, <1>4, <2>1 DEF NextBufferValid, NextBufferCount, NothingReplayed, Replayed
<1>6. read_row' = 0
  <2>1. read_row' = NextReadRow(c, TRUE, ready)
    BY DEF IBClock
  <2> QED
    BY <1>3, <2>1 DEF NextReadRow, NothingReplayed, Replayed
<1>7. read_k_block' = 0
  <2>1. read_k_block' = NextReadKBlock(c, TRUE, ready)
    BY DEF IBClock
  <2> QED
    BY <1>3, <2>1 DEF NextReadKBlock
<1>8. weight_read_addr = 0
  <2>1. (c.k - 1) + 1 = c.k
    BY <1>1
  <2>2. c.k * Beats(c, "weight") = StreamWords(c, "weight")
    BY DEF StreamWords
  <2> QED
    BY <2>1, <2>2 DEF Replayed, WrapWeights
<1>9. weight_read_addr' = 0
  <2>1. weight_read_addr' = NextWeightReadAddr(c, TRUE, ready)
    BY DEF IBClock
  <2> QED
    BY <2>1, <1>3, <1>4, <1>8 DEF NextWeightReadAddr, Channels
<1>10. ib_state' = "IDLE"
  <2>1. ib_state' = NextIBState(c, in, TRUE)
    BY DEF IBClock
  <2>2. ib_state = "CAL"
    BY DEF Replayed
  <2> QED
    BY <2>1, <2>2, <1>3 DEF NextIBState
<1> QED
  BY <1>5, <1>6, <1>7, <1>9, <1>10 DEF NothingReplayed

\* Beats are stored in the order they come, with any gaps.
LEMMA IBLoads ==
  ASSUME NEW c, IsConfig(c), NEW in, NEW ready, Memories, Loading(c), ~AllWordsStored,
         IBClock(c, in, FALSE, ready),
         \A ch \in Channels : in[ch].valid =>
            /\ sent[ch] < StreamWords(c, ch) /\ in[ch].data = <<c.shift, sent[ch]>>
            /\ in[ch].last <=> sent[ch] = StreamWords(c, ch) - 1,
         \A ch \in Channels :
            sent'[ch] = IF StreamAccept(in, ch) THEN sent[ch] + 1 ELSE sent[ch]
  PROVE  Loading(c)'
<1>1. NothingReplayed' /\ read_k_block' = 0 /\ weight_read_addr' = 0 /\ ib_state' = "IN_DATA"
  BY IBQuiet DEF Loading
<1>2. ~StartReadout(c, FALSE)
  BY DEF StartReadout
<1>3. ASSUME NEW ch \in Channels
      PROVE  /\ write_count'[ch] = sent'[ch] /\ sent'[ch] \in 0..StreamWords(c, ch)
             /\ write_addr'[ch] = IF sent'[ch] = StreamWords(c, ch) THEN 0 ELSE sent'[ch]
             /\ Stored(c, ch, sent[ch])'
  <2>1. /\ write_count'[ch] = NextWriteCount(c, in, FALSE, ch)
        /\ write_addr'[ch] = NextWriteAddr(in, ch)
        /\ buffer_mem'[ch] = NextBufferMem(in, ch)
    BY DEF IBClock
  <2>2. /\ write_count[ch] = sent[ch] /\ sent[ch] \in 0..StreamWords(c, ch)
        /\ write_addr[ch] = IF sent[ch] = StreamWords(c, ch) THEN 0 ELSE sent[ch]
        /\ \A a \in 0..sent[ch]-1 : buffer_mem[ch][a] = <<c.shift, a>>
    BY DEF Loading, Stored
  <2>3. StreamWords(c, ch) \in Nat /\ StreamWords(c, ch) <= InputDepth /\ InputDepth \in Nat
    BY StreamSize
  <2>4. CASE ~StreamAccept(in, ch)
    BY <2>1, <2>2, <2>4, <1>2 DEF NextWriteCount, NextWriteAddr, NextBufferMem, Stored
  <2>5. CASE StreamAccept(in, ch)
    <3>1. /\ sent[ch] < StreamWords(c, ch) /\ in[ch].data = <<c.shift, sent[ch]>>
          /\ in[ch].last <=> sent[ch] = StreamWords(c, ch) - 1
      BY <2>5 DEF StreamAccept
    <3>2. sent'[ch] = sent[ch] + 1 /\ write_addr[ch] = sent[ch]
      BY <2>2, <2>3, <2>5, <3>1
    <3>3. write_count'[ch] = sent'[ch] /\ sent'[ch] \in 0..StreamWords(c, ch)
      BY <2>1, <2>2, <2>3, <2>5, <1>2, <3>1, <3>2 DEF NextWriteCount
    <3>4. write_addr'[ch] = IF sent'[ch] = StreamWords(c, ch) THEN 0 ELSE sent'[ch]
      BY <2>1, <2>2, <2>3, <2>5, <3>1, <3>2 DEF NextWriteAddr
    <3>5. buffer_mem'[ch] = [buffer_mem[ch] EXCEPT ![sent[ch]] = <<c.shift, sent[ch]>>]
      BY <2>1, <2>5, <3>1, <3>2 DEF NextBufferMem
    <3>6. DOMAIN buffer_mem[ch] = 0..InputDepth-1
      BY DEF Memories
    <3>7. \A a \in 0..sent'[ch]-1 : buffer_mem'[ch][a] = <<c.shift, a>>
      BY <2>2, <2>3, <3>1, <3>2, <3>5, <3>6
    <3> QED
      BY <3>3, <3>4, <3>7 DEF Stored
  <2> QED
    BY <2>4, <2>5
<1> QED
  BY <1>1, <1>3 DEF Loading, Stored

\* The last beat stored, the first K block is replayed.
LEMMA IBLoaded ==
  ASSUME NEW c, IsConfig(c), NEW in, NEW ready, Memories, Running(c), Loading(c),
         AllWordsStored, IBClock(c, in, FALSE, ready),
         \A ch \in Channels : in[ch].valid => sent[ch] < StreamWords(c, ch),
         \A ch \in Channels :
            sent'[ch] = IF StreamAccept(in, ch) THEN sent[ch] + 1 ELSE sent[ch]
  PROVE  AllStored(c)' /\ Replaying(c, 0, 0)'
<1>1. \A ch \in Channels : sent[ch] = StreamWords(c, ch)
  BY RunningSizes DEF AllWordsStored, Loading
<1>2. \A ch \in Channels : ~StreamAccept(in, ch)
  <2> TAKE ch \in Channels
  <2>1. StreamWords(c, ch) \in Nat
    BY StreamSize
  <2> QED
    BY <1>1, <2>1 DEF StreamAccept
<1>3. c.k \in Nat /\ c.k >= 1 /\ 0 \in 0..c.k-1
  BY ConfigSize
<1>4. StartReadout(c, FALSE) /\ ~LastKBlockDone(c, FALSE)
  BY <1>3 DEF StartReadout, LastKBlockDone, Loading
<1>5. \A ch \in Channels : Stored(c, ch, StreamWords(c, ch))
  BY <1>1 DEF Loading
<1>6. WrapWeights(c, 0 * Beats(c, "weight")) = 0
  <2>1. Beats(c, "weight") \in Nat
    BY ConfigSize DEF Channels
  <2>2. 0 * Beats(c, "weight") = 0
    BY <2>1
  <2> QED
    BY <2>2 DEF WrapWeights
<1>7. Replaying(c, 0, 0)'
  <2>1. words_expected["weight"] = StreamWords(c, "weight")
    BY RunningSizes DEF Channels
  <2> QED
    BY <1>3, <1>4, <1>5, <1>6, <2>1, IBStarts DEF Loading
<1>8. NothingWritten' /\ \A ch \in Channels : buffer_mem'[ch] = buffer_mem[ch]
  <2>1. \A ch \in Channels : /\ write_count'[ch] = NextWriteCount(c, in, FALSE, ch)
                             /\ write_addr'[ch] = NextWriteAddr(in, ch)
                             /\ buffer_mem'[ch] = NextBufferMem(in, ch)
    BY DEF IBClock
  <2>2. \A ch \in Channels : write_addr[ch] = 0
    BY <1>1 DEF Loading
  <2> QED
    BY <2>1, <2>2, <1>2, <1>4 DEF NothingWritten, NextWriteCount, NextWriteAddr, NextBufferMem
<1>9. \A ch \in Channels : sent'[ch] = StreamWords(c, ch)
  BY <1>1, <1>2
<1> QED
  BY <1>1, <1>5, <1>7, <1>8, <1>9 DEF AllStored, Stored

-----------------------------------------------------------------------------
(* BufferFeeder *)

\* Shifting one word in drops the oldest.
LEMMA ShiftRegister ==
  ASSUME NEW A \in Nat \ {0}, NEW s, NEW x, s = [i \in 1..A |-> s[i]]
  PROVE  Append(Tail(s), x) = [i \in 1..A |-> IF i = A THEN x ELSE s[i + 1]]
<1> DEFINE S == {s[i] : i \in 1..A} \cup {x}
<1> DEFINE t == [i \in 1..A |-> IF i = A THEN x ELSE s[i + 1]]
<1>1. s \in [1..A -> S]
  OBVIOUS
<1>2. s \in Seq(S) /\ Len(s) = A
  BY <1>1
<1>3. Tail(s) \in Seq(S) /\ Len(Tail(s)) = A - 1 /\ \A i \in 1..A-1 : Tail(s)[i] = s[i + 1]
  BY <1>2
<1>4. x \in S
  OBVIOUS
<1> HIDE DEF S
<1>5. /\ Append(Tail(s), x) \in Seq(S) /\ Len(Append(Tail(s), x)) = A
      /\ \A i \in 1..A : Append(Tail(s), x)[i] = IF i = A THEN x ELSE s[i + 1]
  BY <1>3, <1>4
<1>6. Append(Tail(s), x) = [i \in 1..A |-> Append(Tail(s), x)[i]]
  BY <1>5
<1> QED
  BY <1>5, <1>6

\* One more K block is one more partial sum.
LEMMA AppendSum ==
  ASSUME NEW c, NEW nb, NEW m, NEW n \in Nat
  PROVE  Append(Sums(c, nb, m, n), RowSum(c, n, nb, m)) = Sums(c, nb, m, n + 1)
<1> DEFINE f(t) == RowSum(c, t - 1, nb, m)
<1> DEFINE S == {f(t) : t \in 1..n+1}
<1> DEFINE s == [t \in 1..n |-> f(t)]
<1>1. s \in [1..n -> S]
  OBVIOUS
<1>2. s \in Seq(S) /\ Len(s) = n
  BY <1>1
<1>3. f(n + 1) \in S
  OBVIOUS
<1>4. /\ Append(s, f(n + 1)) \in Seq(S) /\ Len(Append(s, f(n + 1))) = n + 1
      /\ \A i \in 1..n+1 : Append(s, f(n + 1))[i] = IF i = n + 1 THEN f(n + 1) ELSE s[i]
  <2> HIDE DEF S, s, f
  <2> QED
    BY <1>2, <1>3
<1>5. \A i \in 1..n+1 : Append(s, f(n + 1))[i] = f(i)
  BY <1>4
<1>6. Append(s, f(n + 1)) = [i \in 1..n+1 |-> Append(s, f(n + 1))[i]]
  <2> HIDE DEF S, s, f
  <2> QED
    BY <1>4
<1>7. Append(s, f(n + 1)) = [i \in 1..n+1 |-> f(i)]
  BY <1>5, <1>6
<1>8. f(n + 1) = RowSum(c, n, nb, m)
  OBVIOUS
<1> QED
  BY <1>7, <1>8 DEF Sums

LEMMA BFKeepsMemory ==
  ASSUME NEW c, Memories, BFClock(c)
  PROVE  /\ DOMAIN tile_mem' = Channels
         /\ \A ch \in Channels : DOMAIN tile_mem'[ch] = 0..InputDepth-1
         /\ shift_reg' = [i \in 1..ArraySize |-> shift_reg'[i]]
<1>1. /\ tile_mem' = [ch \in Channels |-> NextTileMem(ch)]
      /\ shift_reg' = IF ShiftIn THEN Append(Tail(shift_reg), ComputeData) ELSE shift_reg
  BY DEF BFClock
<1>2. \A ch \in Channels : DOMAIN tile_mem'[ch] = 0..InputDepth-1
  BY <1>1 DEF Memories, NextTileMem
<1>3. shift_reg' = [i \in 1..ArraySize |-> shift_reg'[i]]
  <2>1. shift_reg = [i \in 1..ArraySize |-> shift_reg[i]]
    BY DEF Memories
  <2>a. ArraySize \in Nat \ {0}
    BY ArraySizeAssumption
  <2>b. \A s, x : s = [i \in 1..ArraySize |-> s[i]] =>
          Append(Tail(s), x) = [i \in 1..ArraySize |-> IF i = ArraySize THEN x ELSE s[i + 1]]
    BY <2>a, ShiftRegister
  <2>2. Append(Tail(shift_reg), ComputeData)
          = [i \in 1..ArraySize |-> IF i = ArraySize THEN ComputeData ELSE shift_reg[i + 1]]
    BY <2>1, <2>b
  <2>3. CASE ShiftIn
    <3>1. shift_reg' = [i \in 1..ArraySize |-> IF i = ArraySize THEN ComputeData ELSE shift_reg[i + 1]]
      BY <1>1, <2>2, <2>3
    <3> QED
      BY <3>1
  <2>4. CASE ~ShiftIn
    BY <1>1, <2>1, <2>4
  <2> QED
    BY <2>3, <2>4
<1> QED
  BY <1>1, <1>2, <1>3

LEMMA RestIsSilent ==
  ASSUME NEW flag, FeederAtRest(flag)
  PROVE  ~PartialValid /\ ~PartialLast /\ ~LoadWeightPhase /\ ~ComputeValid /\ ~ComputeLast
<1>1. ResultLatency \in 0..ResultLatency
  BY ArraySizeAssumption DEF ResultLatency
<1>2. PartialOut = Bubble
  BY <1>1 DEF FeederAtRest, PartialOut
<1>3. ~PartialValid /\ ~PartialLast
  BY <1>2 DEF PartialValid, PartialLast, Bubble
<1>4. ~start /\ bf_state = "IDLE"
  BY DEF FeederAtRest
<1> QED
  BY <1>3, <1>4 DEF LoadWeightPhase, ComputeValid, ComputeLast

\* A feeder at rest waits for both tiles to be stored.
LEMMA FeederWaits ==
  ASSUME NEW c, NEW flag, FeederAtRest(flag), BFClock(c)
  PROVE  /\ bf_state' = "IDLE" /\ ~weight_loaded_d1' /\ w_end' /\ ~weight_flag_up'
         /\ start' = StartAhead /\ ~loading_weights'
         /\ \A ch \in Channels : ~input_valid'[ch] /\ input_cnt'[ch] = 0
         /\ feature_addr' = 0 /\ weight_row' = 0 /\ weight_col' = 0 /\ shift_cnt' = 0
         /\ \A d \in 0..ResultLatency : pipe'[d] = Bubble
<1>1. ~PartialValid /\ ~PartialLast /\ ~LoadWeightPhase /\ ~ComputeValid /\ ~ComputeLast
  BY RestIsSilent
<1>2. ArraySize \in Nat /\ ArraySize >= 2 /\ ResultLatency \in Nat
  BY ArraySizeAssumption DEF ResultLatency
<1>3. bf_state' = "IDLE" /\ start' = StartAhead /\ ~loading_weights' /\ w_end'
  <2>1. /\ bf_state' = NextBFState /\ start' = StartAhead
        /\ loading_weights' = NextLoadingWeights /\ w_end' = NextWEnd(c)
    BY DEF BFClock
  <2> QED
    BY <2>1, <1>1 DEF FeederAtRest, NextBFState, NextLoadingWeights, NextWEnd
<1>4. ~weight_loaded_d1' /\ shift_cnt' = 0
  <2>1. ~TileLoaded /\ ~ShiftIn
    BY <1>1, <1>2 DEF TileLoaded, ShiftIn, FeederAtRest
  <2> QED
    BY <2>1 DEF BFClock, FeederAtRest
<1>5. PartialOut = Bubble
  BY <1>2 DEF FeederAtRest, PartialOut
<1>6. ~weight_flag_up'
  <2>1. weight_flag_up' = NextWeightFlagUp
    BY DEF BFClock
  <2> QED
    BY <2>1, <1>5 DEF NextWeightFlagUp, Bubble
<1>7. \A ch \in Channels : ~input_valid'[ch] /\ input_cnt'[ch] = 0
  <2> TAKE ch \in Channels
  <2>1. input_valid'[ch] = NextInputValid(ch) /\ input_cnt'[ch] = NextInputCnt(ch)
    BY DEF BFClock
  <2> QED
    BY <2>1, <1>1 DEF FeederAtRest, NextInputValid, NextInputCnt
<1>8. feature_addr' = 0
  BY DEF BFClock, FeederAtRest, NextFeatureAddr
<1>9. weight_row' = 0
  BY <1>1 DEF BFClock, FeederAtRest, NextWeightRow
<1>10. weight_col' = 0
  <2>1. ~InputLast("weight")
    BY <1>2 DEF FeederAtRest, InputLast, Channels
  <2> QED
    BY <2>1 DEF BFClock, FeederAtRest, NextWeightCol
<1>11. PipeIn = Bubble
  BY <1>1 DEF PipeIn, Bubble
<1>12. \A d \in 0..ResultLatency : pipe'[d] = Bubble
  <2> TAKE d \in 0..ResultLatency
  <2>1. pipe' = [i \in 0..ResultLatency |-> IF i = 0 THEN PipeIn ELSE pipe[i-1]]
    BY DEF BFClock
  <2>2. d # 0 => d - 1 \in 0..ResultLatency
    BY <1>2
  <2> QED
    BY <2>1, <2>2, <1>11 DEF FeederAtRest
<1> QED
  BY <1>3, <1>4, <1>6, <1>7, <1>8, <1>9, <1>10, <1>12

LEMMA FeederRests ==
  ASSUME NEW c, NEW flag, FeederAtRest(flag), ~StartAhead, BFClock(c)
  PROVE  FeederAtRest(FALSE)'
BY FeederWaits DEF FeederAtRest

LEMMA NothingToStore ==
  ASSUME NEW c, NoTileStored, \A ch \in Channels : ~buffer_valid[ch], BFClock(c)
  PROVE  NoTileStored'
<1> SUFFICES ASSUME NEW ch \in Channels PROVE tile_count'[ch] = 0 /\ tile_addr'[ch] = 0
  BY DEF NoTileStored
<1>1. tile_count'[ch] = NextTileCount(ch) /\ tile_addr'[ch] = NextTileAddr(c, ch)
  BY DEF BFClock
<1>2. ~TileAccept(ch)
  BY DEF TileAccept
<1> QED
  BY <1>1, <1>2 DEF NoTileStored, NextTileCount, NextTileAddr

LEMMA FillSize ==
  ASSUME NEW c, IsConfig(c)
  PROVE  /\ FillClocks(c) \in Nat /\ FillClocks(c) >= 2
         /\ \A ch \in Channels : Beats(c, ch) <= FillClocks(c)
         /\ \E ch \in Channels : Beats(c, ch) = FillClocks(c)
<1>1. /\ c.rows \in Nat /\ Beats(c, "weight") \in Nat /\ c.rows >= 2
      /\ Beats(c, "feature") = c.rows
  BY ConfigSize DEF Channels
<1> QED
  BY <1>1 DEF FillClocks, Channels

\* Every replayed word is stored where the tile has its place.
LEMMA FeederFills ==
  ASSUME NEW c, IsConfig(c), NEW b \in 0..c.k-1, NEW i \in 0..FillClocks(c)-1, Memories,
         \A ch \in Channels : total_words[ch] = Beats(c, ch),
         Replaying(c, b, i), Filling(c, b, i), BFClock(c)
  PROVE  Filling(c, b, i + 1)'
<1>c. /\ i \in Nat /\ FillClocks(c) \in Nat
      /\ \A ch \in Channels : Beats(c, ch) \in Nat /\ Beats(c, ch) >= 2
      /\ \A ch \in Channels : Beats(c, ch) <= InputDepth
      /\ InputDepth \in Nat
  BY FillSize, ConfigSize, StreamSize, InputDepthAssumption
<1>t. \A ch \in Channels : tile_count[ch] = IF i < Beats(c, ch) THEN i ELSE Beats(c, ch)
  BY DEF Filling
<1>1. ~BothFull
  <2>1. PICK ch \in Channels : Beats(c, ch) = FillClocks(c)
    BY FillSize
  <2>2. tile_count[ch] = i /\ total_words[ch] = FillClocks(c)
    BY <2>1, <1>t, <1>c
  <2>3. tile_count[ch] # total_words[ch]
    BY <2>2, <1>c
  <2> QED
    BY <2>3 DEF BothFull
<1>2. ~both_full_d1' /\ FeederAtRest(FALSE)'
  <2>1. FeederAtRest(i = 0 /\ b > 0)
    BY DEF Filling
  <2>2. ~StartAhead
    BY <1>1 DEF StartAhead
  <2>3. FeederAtRest(FALSE)'
    BY <2>1, <2>2, FeederRests
  <2> QED
    BY <1>1, <2>3 DEF BFClock
<1>3. ~PartialLast
  <2>1. FeederAtRest(i = 0 /\ b > 0)
    BY DEF Filling
  <2> QED
    BY <2>1, RestIsSilent
<1>4. ASSUME NEW ch \in Channels
      PROVE  LET n == IF i + 1 < Beats(c, ch) THEN i + 1 ELSE Beats(c, ch)
             IN  /\ tile_count'[ch] = n
                 /\ tile_addr'[ch] = IF n = Beats(c, ch) THEN 0 ELSE n
                 /\ TileStored(c, b, ch, n)'
  <2> DEFINE B == Beats(c, ch)
  <2>1. /\ tile_count'[ch] = NextTileCount(ch) /\ tile_addr'[ch] = NextTileAddr(c, ch)
        /\ tile_mem'[ch] = NextTileMem(ch)
    BY DEF BFClock
  <2>2. B \in Nat /\ B >= 2 /\ B <= InputDepth /\ total_words[ch] = B
    BY <1>c
  <2>3. /\ buffer_valid[ch] <=> i < B
        /\ i < B => buffer_count[ch] = i
    BY <1>c DEF Replaying
  <2>4. CASE i < B
    <3>1. /\ tile_count[ch] = i /\ tile_addr[ch] = i
          /\ \A a \in 0..i-1 : tile_mem[ch][a] = <<c.shift, TileSource(c, b, ch, a)>>
      BY <2>4, <2>2, <1>c DEF Filling, TileStored
    <3>2. TileAccept(ch)
      BY <3>1, <2>2, <2>3, <2>4 DEF TileAccept, TileReady
    <3>3. BufferLast(c, ch) <=> i = B - 1
      BY <2>3, <2>4 DEF BufferLast, Beats
    <3>4. tile_count'[ch] = i + 1
      BY <2>1, <3>1, <3>2 DEF NextTileCount
    <3>5. tile_addr'[ch] = IF i + 1 = B THEN 0 ELSE i + 1
      BY <2>1, <2>2, <3>1, <3>2, <3>3, <1>c DEF NextTileAddr
    <3>6. buffer_data[ch] = <<c.shift, TileSource(c, b, ch, i)>>
      <4>1. Beats(c, "feature") = c.rows
        BY ConfigSize
      <4> QED
        BY <2>4, <4>1 DEF Replaying, TileSource, Channels
    <3>7. tile_mem'[ch] = [tile_mem[ch] EXCEPT ![i] = buffer_data[ch]]
      BY <2>1, <3>1, <3>2 DEF NextTileMem
    <3>8. DOMAIN tile_mem[ch] = 0..InputDepth-1
      BY DEF Memories
    <3>9. \A a \in 0..(i+1)-1 : tile_mem'[ch][a] = <<c.shift, TileSource(c, b, ch, a)>>
      <4> TAKE a \in 0..(i+1)-1
      <4>1. a \in 0..InputDepth-1
        BY <2>2, <2>4, <1>c
      <4>2. CASE a = i
        BY <4>1, <4>2, <3>6, <3>7, <3>8
      <4>3. CASE a # i
        <5>1. a \in 0..i-1
          BY <4>3, <1>c
        <5>2. tile_mem'[ch][a] = tile_mem[ch][a]
          BY <3>7, <3>8, <4>1, <4>3
        <5> QED
          BY <5>1, <5>2, <3>1
      <4> QED
        BY <4>2, <4>3
    <3>10. (IF i + 1 < B THEN i + 1 ELSE B) = i + 1
      BY <2>2, <2>4, <1>c
    <3> QED
      BY <3>4, <3>5, <3>9, <3>10 DEF TileStored
  <2>5. CASE ~(i < B)
    <3>1. /\ tile_count[ch] = B /\ tile_addr[ch] = 0
          /\ \A a \in 0..B-1 : tile_mem[ch][a] = <<c.shift, TileSource(c, b, ch, a)>>
      BY <2>5, <2>2, <1>c DEF Filling, TileStored
    <3>2. ~TileAccept(ch)
      BY <2>3, <2>5 DEF TileAccept
    <3>3. tile_count'[ch] = B /\ tile_addr'[ch] = 0 /\ tile_mem'[ch] = tile_mem[ch]
      BY <2>1, <3>1, <3>2, <1>3 DEF NextTileCount, NextTileAddr, NextTileMem
    <3>4. (IF i + 1 < B THEN i + 1 ELSE B) = B
      BY <2>2, <2>5, <1>c
    <3> QED
      BY <3>1, <3>3, <3>4 DEF TileStored
  <2> QED
    BY <2>4, <2>5
<1>5. ~(i + 1 = 0 /\ b > 0)
  BY <1>c
<1>6. FeederAtRest(i + 1 = 0 /\ b > 0)'
  BY <1>2, <1>5 DEF FeederAtRest
<1> QED
  BY <1>2, <1>4, <1>5, <1>6 DEF Filling

\* Both tiles stored, the first N block starts.
LEMMA FeederFull ==
  ASSUME NEW c, IsConfig(c), NEW b \in 0..c.k-1, Memories,
         \A ch \in Channels : total_words[ch] = Beats(c, ch),
         Replaying(c, b, FillClocks(c)), Filling(c, b, FillClocks(c)), BFClock(c)
  PROVE  Streaming(c, b, 0, 0)'
<1> DEFINE i == FillClocks(c)
<1>c. /\ i \in Nat /\ i >= 2
      /\ \A ch \in Channels : Beats(c, ch) \in Nat /\ Beats(c, ch) >= 2 /\ Beats(c, ch) <= i
      /\ ArraySize \in Nat /\ ArraySize >= 2 /\ ResultLatency \in Nat
      /\ c.rows \in Nat /\ c.rows >= 2 /\ c.n \in Nat /\ c.n >= 1
  BY FillSize, ConfigSize
<1>1. \A ch \in Channels : /\ tile_count[ch] = Beats(c, ch) /\ tile_addr[ch] = 0
                           /\ \A a \in 0..Beats(c, ch)-1 :
                                tile_mem[ch][a] = <<c.shift, TileSource(c, b, ch, a)>>
  BY <1>c DEF Filling, TileStored
<1>2. BothFull /\ ~both_full_d1 /\ StartAhead
  <2>1. BothFull
    BY <1>1 DEF BothFull
  <2>2. ~both_full_d1
    BY <1>c DEF Filling
  <2>3. \A ch \in Channels : total_words[ch] # 0
    BY <1>c
  <2> QED
    BY <2>1, <2>2, <2>3 DEF StartAhead
<1>r. FeederAtRest(i = 0 /\ b > 0)
  BY DEF Filling
<1>3. ~PartialValid /\ ~PartialLast /\ ~LoadWeightPhase /\ ~ComputeValid /\ ~ComputeLast
  BY <1>r, RestIsSilent
<1>4. both_full_d1'
  BY <1>2 DEF BFClock
<1>5. /\ bf_state' = "IDLE" /\ ~weight_loaded_d1' /\ w_end' /\ ~weight_flag_up'
      /\ start' /\ ~loading_weights'
      /\ \A ch \in Channels : ~input_valid'[ch] /\ input_cnt'[ch] = 0
      /\ feature_addr' = 0 /\ weight_row' = 0 /\ weight_col' = 0 /\ shift_cnt' = 0
      /\ \A d \in 0..ResultLatency : pipe'[d] = Bubble
  BY <1>2, <1>r, FeederWaits
<1>6. TilesHeld(c, b)'
  <2> SUFFICES ASSUME NEW ch \in Channels
               PROVE  /\ tile_count'[ch] = Beats(c, ch) /\ tile_addr'[ch] = 0
                      /\ tile_mem'[ch] = tile_mem[ch]
    BY <1>1 DEF TilesHeld, TileStored
  <2>1. /\ tile_count'[ch] = NextTileCount(ch) /\ tile_addr'[ch] = NextTileAddr(c, ch)
        /\ tile_mem'[ch] = NextTileMem(ch)
    BY DEF BFClock
  <2>2. ~TileAccept(ch)
    BY <1>1, <1>c DEF TileAccept, TileReady
  <2> QED
    BY <2>1, <2>2, <1>1, <1>3 DEF NextTileCount, NextTileAddr, NextTileMem
<1>7. StreamControl(c, 0, 0)'
  BY <1>4, <1>5, <1>c DEF StreamControl
<1>8. StreamWeights(c, b, 0, 0)'
  BY <1>5, <1>c DEF StreamWeights, Shifting, Channels
<1>9. StreamRows(c, b, 0)'
  BY <1>5, <1>c DEF StreamRows, RowEntering, Channels
<1>10. StreamArray(c, b, 0, 0)'
  <2>1. \A d \in 0..ResultLatency : ~(InArray(0, d) \in 0..c.rows-1)
    BY <1>c DEF InArray
  <2> QED
    BY <2>1, <1>5 DEF StreamArray
<1> QED
  BY <1>6, <1>7, <1>8, <1>9, <1>10 DEF Streaming

LEMMA ClockRange ==
  ASSUME NEW c, IsConfig(c), NEW q \in 0..TileClocks(c)-1
  PROVE  /\ q \in Nat /\ q <= ArraySize + 3 + c.rows + ResultLatency
         /\ TileClocks(c) = ArraySize + 4 + c.rows + ResultLatency
         /\ TileClocks(c) \in Nat
BY ConfigSize DEF TileClocks

\* The wires of the feeder at clock q of a tile.
LEMMA StreamWires ==
  ASSUME NEW c, IsConfig(c), NEW b \in 0..c.k-1, NEW nb \in 0..c.n-1,
         NEW q \in 0..TileClocks(c)-1,
         \A ch \in Channels : total_words[ch] = Beats(c, ch),
         Streaming(c, b, nb, q)
  PROVE  /\ LoadWeightPhase <=> q = 0
         /\ InputLast("weight") <=> q = ArraySize
         /\ InputLast("feature") <=> RowEntering(q) = c.rows - 1
         /\ ComputeValid <=> Shifting(q) \/ RowEntering(q) \in 0..c.rows-1
         /\ ComputeLast <=> q = ArraySize \/ RowEntering(q) = c.rows - 1
         /\ TileLoaded <=> q = ArraySize + 1
         /\ ShiftIn <=> Shifting(q)
         /\ Shifting(q) => ComputeData = WeightWord(c, b, nb, q)
         /\ RowEntering(q) \in 0..c.rows-1 =>
              ComputeData = <<c.shift, RowEntering(q) * c.k + b>>
<1>c. /\ ArraySize \in Nat /\ ArraySize >= 2 /\ ResultLatency \in Nat
      /\ c.rows \in Nat /\ c.rows >= 2 /\ c.n \in Nat /\ c.n >= 1
      /\ nb \in Nat /\ q \in Nat /\ total_words["feature"] = c.rows
  BY ConfigSize, ClockRange DEF Channels
<1>1. /\ bf_state = IF q = 0 /\ nb = 0 THEN "IDLE"
                    ELSE IF 1 <= q /\ q <= ArraySize + 2 THEN "SET_WEIGHT" ELSE "SET_FEATURE"
      /\ start <=> q = 0 /\ nb = 0
      /\ weight_flag_up <=> q = 0 /\ nb > 0
  BY DEF Streaming, StreamControl
<1>2. /\ input_valid["weight"] <=> Shifting(q)
      /\ input_cnt["weight"] = IF 1 <= q /\ q <= ArraySize + 1 THEN q - 1 ELSE 0
      /\ Shifting(q) => input_data["weight"] = WeightWord(c, b, nb, q)
      /\ loading_weights <=> Shifting(q)
      /\ shift_cnt = IF 1 <= q /\ q <= ArraySize + 1 THEN q - 1 ELSE 0
  BY DEF Streaming, StreamWeights
<1>3. /\ input_valid["feature"] <=> RowEntering(q) \in 0..c.rows-1
      /\ input_cnt["feature"] = IF RowEntering(q) \in 0..c.rows THEN RowEntering(q) ELSE 0
      /\ RowEntering(q) \in 0..c.rows-1 =>
           input_data["feature"] = <<c.shift, RowEntering(q) * c.k + b>>
  BY DEF Streaming, StreamRows
<1>4. LoadWeightPhase <=> q = 0
  BY <1>1, <1>c DEF LoadWeightPhase
<1>5. InputLast("weight") <=> q = ArraySize
  BY <1>2, <1>c DEF InputLast
<1>6. InputLast("feature") <=> RowEntering(q) = c.rows - 1
  BY <1>3, <1>c DEF InputLast, RowEntering
<1>7. Shifting(q) => bf_state = "SET_WEIGHT"
  BY <1>1, <1>c DEF Shifting
<1>8. RowEntering(q) \in 0..c.rows-1 => bf_state = "SET_FEATURE"
  BY <1>1, <1>c DEF RowEntering
<1>9. ComputeValid <=> Shifting(q) \/ RowEntering(q) \in 0..c.rows-1
  <2>1. CASE bf_state = "IDLE"
    BY <2>1, <1>7, <1>8 DEF ComputeValid
  <2>2. CASE bf_state = "SET_WEIGHT"
    BY <2>2, <1>2, <1>8 DEF ComputeValid, StreamChannel
  <2>3. CASE bf_state = "SET_FEATURE"
    BY <2>3, <1>3, <1>7 DEF ComputeValid, StreamChannel
  <2> QED
    BY <1>1, <2>1, <2>2, <2>3
<1>10. ComputeLast <=> q = ArraySize \/ RowEntering(q) = c.rows - 1
  <2>0. /\ q = ArraySize => bf_state = "SET_WEIGHT"
        /\ RowEntering(q) = c.rows - 1 => bf_state = "SET_FEATURE"
    BY <1>1, <1>c DEF RowEntering
  <2>1. CASE bf_state = "IDLE"
    BY <2>0, <2>1 DEF ComputeLast
  <2>2. CASE bf_state = "SET_WEIGHT"
    BY <2>0, <2>2, <1>5 DEF ComputeLast, StreamChannel
  <2>3. CASE bf_state = "SET_FEATURE"
    BY <2>0, <2>3, <1>6 DEF ComputeLast, StreamChannel
  <2> QED
    BY <1>1, <2>1, <2>2, <2>3
<1>11. TileLoaded <=> q = ArraySize + 1
  BY <1>2, <1>c DEF TileLoaded
<1>12. ShiftIn <=> Shifting(q)
  BY <1>2, <1>9 DEF ShiftIn
<1>13. Shifting(q) => ComputeData = WeightWord(c, b, nb, q)
  BY <1>2, <1>7 DEF ComputeData, StreamChannel
<1>14. RowEntering(q) \in 0..c.rows-1 => ComputeData = <<c.shift, RowEntering(q) * c.k + b>>
  BY <1>3, <1>8 DEF ComputeData, StreamChannel
<1> QED
  BY <1>4, <1>5, <1>6, <1>9, <1>10, <1>11, <1>12, <1>13, <1>14

\* What leaves the array at clock q.
LEMMA StreamOut ==
  ASSUME NEW c, IsConfig(c), NEW b \in 0..c.k-1, NEW nb \in 0..c.n-1,
         NEW q \in 0..TileClocks(c)-1, Streaming(c, b, nb, q)
  PROVE  /\ PartialValid <=> InArray(q, ResultLatency) \in 0..c.rows-1
         /\ PartialValid => PartialOut.sum = RowSum(c, b, nb, InArray(q, ResultLatency))
         /\ PartialOut.last <=> q = TileClocks(c) - 1
         /\ PartialLast <=> q = TileClocks(c) - 1 /\ nb = c.n - 1
<1>c. /\ ArraySize \in Nat /\ ArraySize >= 2 /\ ResultLatency \in Nat
      /\ c.rows \in Nat /\ c.rows >= 2 /\ c.n \in Nat /\ c.n >= 1
      /\ nb \in Nat /\ q \in Nat /\ q <= ArraySize + 3 + c.rows + ResultLatency
      /\ TileClocks(c) = ArraySize + 4 + c.rows + ResultLatency
  BY ConfigSize, ClockRange
<1>1. ResultLatency \in 0..ResultLatency
  BY <1>c
<1>2. PartialOut = IF InArray(q, ResultLatency) \in 0..c.rows-1
                   THEN [valid |-> TRUE, last |-> InArray(q, ResultLatency) = c.rows - 1,
                         sum |-> RowSum(c, b, nb, InArray(q, ResultLatency))]
                   ELSE Bubble
  BY <1>1 DEF PartialOut, Streaming, StreamArray
<1>3. InArray(q, ResultLatency) = c.rows - 1 <=> q = TileClocks(c) - 1
  BY <1>c DEF InArray
<1>4. q = TileClocks(c) - 1 => InArray(q, ResultLatency) \in 0..c.rows-1
  BY <1>c DEF InArray
<1>5. CASE InArray(q, ResultLatency) \in 0..c.rows-1
  <2>1. /\ PartialOut.valid
        /\ PartialOut.last <=> InArray(q, ResultLatency) = c.rows - 1
        /\ PartialOut.sum = RowSum(c, b, nb, InArray(q, ResultLatency))
    BY <1>2, <1>5
  <2>2. w_end <=> (q = 0 /\ nb = 0) \/ (nb = c.n - 1 /\ q >= ArraySize)
    BY DEF Streaming, StreamControl
  <2>3. q >= ArraySize /\ q # 0
    BY <1>5, <1>c DEF InArray
  <2> QED
    BY <2>1, <2>2, <2>3, <1>3, <1>5 DEF PartialValid, PartialLast
<1>6. CASE ~(InArray(q, ResultLatency) \in 0..c.rows-1)
  <2>1. ~PartialOut.valid /\ ~PartialOut.last
    BY <1>2, <1>6 DEF Bubble
  <2> QED
    BY <2>1, <1>4, <1>6 DEF PartialValid, PartialLast
<1> QED
  BY <1>5, <1>6

\* A row that enters meets the weights of its tile; nothing else enters.
LEMMA StreamEntry ==
  ASSUME NEW c, IsConfig(c), NEW b \in 0..c.k-1, NEW nb \in 0..c.n-1,
         NEW q \in 0..TileClocks(c)-1,
         \A ch \in Channels : total_words[ch] = Beats(c, ch),
         Streaming(c, b, nb, q)
  PROVE  PipeIn = IF RowEntering(q) \in 0..c.rows-1
                  THEN [valid |-> TRUE, last |-> RowEntering(q) = c.rows - 1,
                        sum |-> RowSum(c, b, nb, RowEntering(q))]
                  ELSE Bubble
<1>c. /\ ArraySize \in Nat /\ ArraySize >= 2 /\ ResultLatency \in Nat
      /\ c.rows \in Nat /\ c.rows >= 2 /\ q \in Nat
  BY ConfigSize, ClockRange
<1>w. /\ ComputeValid <=> Shifting(q) \/ RowEntering(q) \in 0..c.rows-1
      /\ ComputeLast <=> q = ArraySize \/ RowEntering(q) = c.rows - 1
      /\ TileLoaded <=> q = ArraySize + 1
      /\ RowEntering(q) \in 0..c.rows-1 =>
           ComputeData = <<c.shift, RowEntering(q) * c.k + b>>
  BY StreamWires
<1>s. loading_weights <=> Shifting(q)
  BY DEF Streaming, StreamWeights
<1>1. CASE RowEntering(q) \in 0..c.rows-1
  <2>1. q >= ArraySize + 3 /\ ~Shifting(q)
    BY <1>1, <1>c DEF RowEntering, Shifting
  <2>2. NextPEWeights = Tile(c, b, nb)
    BY <2>1, <1>w, <1>c DEF NextPEWeights, Streaming, StreamWeights
  <2>3. ComputeValid /\ ~loading_weights
    BY <1>1, <1>w, <1>s, <2>1
  <2>4. ComputeLast <=> RowEntering(q) = c.rows - 1
    BY <1>w, <2>1, <1>c
  <2>5. PipeIn = [valid |-> TRUE, last |-> RowEntering(q) = c.rows - 1,
                  sum |-> <<ComputeData, NextPEWeights>>]
    <3>1. (ComputeValid /\ ~loading_weights) = TRUE
      BY <2>3
    <3>2. (ComputeLast /\ ~loading_weights) = (RowEntering(q) = c.rows - 1)
      BY <2>3, <2>4
    <3> QED
      BY <3>1, <3>2, <2>3 DEF PipeIn
  <2>6. ComputeData = <<c.shift, RowEntering(q) * c.k + b>>
    BY <1>1, <1>w
  <2> QED
    BY <1>1, <2>2, <2>5, <2>6 DEF RowSum
<1>2. CASE ~(RowEntering(q) \in 0..c.rows-1)
  <2>1. ~(ComputeValid /\ ~loading_weights)
    BY <1>2, <1>w, <1>s
  <2>2. ~(ComputeLast /\ ~loading_weights)
    BY <1>2, <1>w, <1>s, <1>c DEF Shifting
  <2>3. (ComputeValid /\ ~loading_weights) = FALSE /\ (ComputeLast /\ ~loading_weights) = FALSE
    BY <2>1, <2>2
  <2> QED
    BY <1>2, <2>1, <2>3 DEF PipeIn, Bubble
<1> QED
  BY <1>1, <1>2

LEMMA StreamArrayNext ==
  ASSUME NEW c, IsConfig(c), NEW b \in 0..c.k-1, NEW nb \in 0..c.n-1,
         NEW q \in 0..TileClocks(c)-1,
         \A ch \in Channels : total_words[ch] = Beats(c, ch),
         Streaming(c, b, nb, q), BFClock(c)
  PROVE  StreamArray(c, b, nb, q + 1)'
<1>c. /\ ArraySize \in Nat /\ ResultLatency \in Nat /\ q \in Nat
  BY ConfigSize, ClockRange
<1> SUFFICES ASSUME NEW d \in 0..ResultLatency
             PROVE  pipe'[d] = IF InArray(q + 1, d) \in 0..c.rows-1
                               THEN [valid |-> TRUE, last |-> InArray(q + 1, d) = c.rows - 1,
                                     sum |-> RowSum(c, b, nb, InArray(q + 1, d))]
                               ELSE Bubble
  BY DEF StreamArray
<1>1. pipe' = [i \in 0..ResultLatency |-> IF i = 0 THEN PipeIn ELSE pipe[i-1]]
  BY DEF BFClock
<1>2. CASE d = 0
  <2>1. pipe'[d] = PipeIn /\ InArray(q + 1, d) = RowEntering(q)
    BY <1>1, <1>2, <1>c DEF InArray, RowEntering
  <2> QED
    BY <2>1, StreamEntry
<1>3. CASE d # 0
  <2>1. pipe'[d] = pipe[d-1] /\ d - 1 \in 0..ResultLatency
    BY <1>1, <1>3, <1>c
  <2>2. InArray(q + 1, d) = InArray(q, d - 1)
    BY <1>c DEF InArray
  <2> QED
    BY <2>1, <2>2 DEF Streaming, StreamArray
<1> QED
  BY <1>2, <1>3

LEMMA StreamRowsNext ==
  ASSUME NEW c, IsConfig(c), NEW b \in 0..c.k-1, NEW nb \in 0..c.n-1,
         NEW q \in 0..TileClocks(c)-1,
         \A ch \in Channels : total_words[ch] = Beats(c, ch),
         Streaming(c, b, nb, q), BFClock(c)
  PROVE  StreamRows(c, b, q + 1)'
<1>c. /\ ArraySize \in Nat /\ ArraySize >= 2 /\ ResultLatency \in Nat
      /\ c.rows \in Nat /\ c.rows >= 2 /\ q \in Nat
      /\ total_words["feature"] = c.rows
      /\ c.rows <= InputDepth /\ InputDepth \in Nat
  BY ConfigSize, ClockRange, StreamSize DEF Channels
<1>d. weight_loaded_d1 <=> q = ArraySize + 2
  BY DEF Streaming, StreamControl
<1>l. InputLast("feature") <=> RowEntering(q) = c.rows - 1
  BY StreamWires
<1>s. RowEntering(q) \in 0..c.rows-1 => bf_state = "SET_FEATURE"
  BY <1>c DEF RowEntering, Streaming, StreamControl
<1>r. /\ input_valid["feature"] <=> RowEntering(q) \in 0..c.rows-1
      /\ input_cnt["feature"] = IF RowEntering(q) \in 0..c.rows THEN RowEntering(q) ELSE 0
      /\ feature_addr = IF RowEntering(q) \in 0..c.rows-2 THEN RowEntering(q) + 1 ELSE 0
  BY DEF Streaming, StreamRows
<1>e. RowEntering(q + 1) = RowEntering(q) + 1 /\ RowEntering(q) \in Int
  BY <1>c DEF RowEntering
<1>0. q = ArraySize + 2 <=> RowEntering(q) = -1
  BY <1>c DEF RowEntering
<1>1. input_valid'["feature"] <=> RowEntering(q + 1) \in 0..c.rows-1
  <2>1. input_valid'["feature"] = NextInputValid("feature")
    BY DEF BFClock, Channels
  <2>2. input_valid'["feature"] <=>
          q = ArraySize + 2 \/ (RowEntering(q) \in 0..c.rows-1 /\ RowEntering(q) # c.rows - 1)
    BY <2>1, <1>d, <1>l, <1>r DEF NextInputValid
  <2> QED
    BY <2>2, <1>0, <1>e, <1>c
<1>2. input_cnt'["feature"] =
        IF RowEntering(q + 1) \in 0..c.rows THEN RowEntering(q + 1) ELSE 0
  <2>1. input_cnt'["feature"] = NextInputCnt("feature")
    BY DEF BFClock, Channels
  <2>2. PhaseBeats("feature") = c.rows /\ PhaseState("feature") = "SET_FEATURE"
    BY <1>c DEF PhaseBeats, PhaseState
  <2>3. input_cnt'["feature"] = IF input_cnt["feature"] = c.rows THEN 0
                                ELSE IF RowEntering(q) \in 0..c.rows-1
                                     THEN input_cnt["feature"] + 1 ELSE input_cnt["feature"]
    BY <2>1, <2>2, <1>s, <1>r DEF NextInputCnt
  <2> QED
    BY <2>3, <1>r, <1>e, <1>c
<1>3. feature_addr' = IF RowEntering(q + 1) \in 0..c.rows-2 THEN RowEntering(q + 1) + 1 ELSE 0
  <2>1. feature_addr' = NextFeatureAddr
    BY DEF BFClock
  <2>2. feature_addr' = IF feature_addr = c.rows - 1 THEN 0
                        ELSE IF RowEntering(q) = -1 THEN 1
                        ELSE IF RowEntering(q) \in 0..c.rows-1 /\ feature_addr # 0
                             THEN feature_addr + 1 ELSE feature_addr
    BY <2>1, <1>d, <1>0, <1>s, <1>r, <1>c DEF NextFeatureAddr
  <2> QED
    BY <2>2, <1>r, <1>e, <1>c
<1>4. RowEntering(q + 1) \in 0..c.rows-1 =>
        input_data'["feature"] = <<c.shift, RowEntering(q + 1) * c.k + b>>
  <2> HAVE RowEntering(q + 1) \in 0..c.rows-1
  <2>1. feature_addr = RowEntering(q + 1)
    BY <1>r, <1>e, <1>c
  <2>2. input_data'["feature"] = TileWord("feature", feature_addr)
    BY DEF BFClock
  <2>3. feature_addr \in 0..InputDepth-1
    BY <2>1, <1>c
  <2>4. tile_mem["feature"][feature_addr] = <<c.shift, TileSource(c, b, "feature", feature_addr)>>
    <3>1. TileStored(c, b, "feature", c.rows)
      BY ConfigSize DEF Streaming, TilesHeld, Channels
    <3> QED
      BY <3>1, <2>1 DEF TileStored
  <2> QED
    BY <2>1, <2>2, <2>3, <2>4 DEF TileWord, TileSource
<1> QED
  BY <1>1, <1>2, <1>3, <1>4 DEF StreamRows

LEMMA StreamShift ==
  ASSUME NEW c, IsConfig(c), NEW b \in 0..c.k-1, NEW nb \in 0..c.n-1,
         NEW q \in 0..TileClocks(c)-1, Memories,
         \A ch \in Channels : total_words[ch] = Beats(c, ch),
         Streaming(c, b, nb, q), BFClock(c)
  PROVE  /\ q + 1 <= ArraySize + 1 =>
              \A i \in 1..(q+1)-1 :
                 shift_reg'[ArraySize - ((q + 1) - 1) + i] = WeightWord(c, b, nb, i)
         /\ q + 1 >= ArraySize + 2 => pe_weights' = Tile(c, b, nb)
<1>c. ArraySize \in Nat /\ ArraySize >= 2 /\ q \in Nat
  BY ConfigSize, ClockRange
<1>w. /\ TileLoaded <=> q = ArraySize + 1
      /\ ShiftIn <=> Shifting(q)
      /\ Shifting(q) => ComputeData = WeightWord(c, b, nb, q)
  BY StreamWires
<1>r. /\ q <= ArraySize + 1 =>
           \A i \in 1..q-1 : shift_reg[ArraySize - (q - 1) + i] = WeightWord(c, b, nb, i)
      /\ q >= ArraySize + 2 => pe_weights = Tile(c, b, nb)
  BY DEF Streaming, StreamWeights
<1>m. shift_reg = [i \in 1..ArraySize |-> shift_reg[i]]
  BY DEF Memories
<1>1. ASSUME q + 1 <= ArraySize + 1, NEW i \in 1..q
      PROVE  shift_reg'[ArraySize - q + i] = WeightWord(c, b, nb, i)
  <2>1. Shifting(q)
    BY <1>1, <1>c DEF Shifting
  <2>2. shift_reg' = Append(Tail(shift_reg), ComputeData)
    BY <2>1, <1>w DEF BFClock
  <2>a. ArraySize \in Nat \ {0}
    BY <1>c
  <2>3. \A s, x : s = [j \in 1..ArraySize |-> s[j]] =>
          Append(Tail(s), x) = [j \in 1..ArraySize |-> IF j = ArraySize THEN x ELSE s[j + 1]]
    BY <2>a, ShiftRegister
  <2>4. shift_reg' = [j \in 1..ArraySize |-> IF j = ArraySize THEN ComputeData ELSE shift_reg[j + 1]]
    BY <2>2, <2>3, <1>m
  <2>5. CASE i = q
    BY <2>1, <2>4, <2>5, <1>w, <1>c
  <2>6. CASE i # q
    <3>1. ArraySize - q + i \in 1..ArraySize /\ ArraySize - q + i # ArraySize
      BY <2>6, <1>1, <1>c
    <3>2. shift_reg'[ArraySize - q + i] = shift_reg[ArraySize - q + i + 1]
      BY <2>4, <3>1
    <3>3. i \in 1..q-1 /\ ArraySize - q + i + 1 = ArraySize - (q - 1) + i
      BY <2>6, <1>1, <1>c
    <3> QED
      BY <3>2, <3>3, <1>1, <1>r, <1>c
  <2> QED
    BY <2>5, <2>6
<1>2. q + 1 >= ArraySize + 2 => pe_weights' = Tile(c, b, nb)
  <2>0. pe_weights' = IF TileLoaded THEN shift_reg ELSE pe_weights
    BY DEF BFClock, NextPEWeights
  <2>1. CASE q = ArraySize + 1
    <3>1. \A i \in 1..ArraySize : shift_reg[i] = WeightWord(c, b, nb, i)
      BY <2>1, <1>r, <1>c
    <3>2. shift_reg = Tile(c, b, nb)
      BY <3>1, <1>m DEF Tile
    <3> QED
      BY <2>0, <2>1, <3>2, <1>w
  <2>2. CASE q # ArraySize + 1
    BY <2>0, <2>2, <1>w, <1>r, <1>c
  <2> QED
    BY <2>1, <2>2
<1>3. (q + 1) - 1 = q
  BY <1>c
<1> QED
  BY <1>1, <1>2, <1>3

LEMMA StreamWeightsNext ==
  ASSUME NEW c, IsConfig(c), NEW b \in 0..c.k-1, NEW nb \in 0..c.n-1,
         NEW q \in 0..TileClocks(c)-1, Memories,
         \A ch \in Channels : total_words[ch] = Beats(c, ch),
         Streaming(c, b, nb, q), BFClock(c)
  PROVE  StreamWeights(c, b, nb, q + 1)'
<1>c. /\ ArraySize \in Nat /\ ArraySize >= 2 /\ q \in Nat
      /\ c.n \in Nat /\ c.n >= 1 /\ nb \in 0..c.n-1 /\ nb \in Nat
      /\ Beats(c, "weight") \in Nat /\ Beats(c, "weight") <= InputDepth /\ InputDepth \in Nat
  BY ConfigSize, ClockRange, StreamSize DEF Channels
<1>w. /\ LoadWeightPhase <=> q = 0
      /\ InputLast("weight") <=> q = ArraySize
      /\ ComputeLast <=> q = ArraySize \/ RowEntering(q) = c.rows - 1
      /\ TileLoaded <=> q = ArraySize + 1
      /\ ShiftIn <=> Shifting(q)
  BY StreamWires
<1>s. Shifting(q) => bf_state = "SET_WEIGHT"
  BY <1>c DEF Shifting, Streaming, StreamControl
<1>r. /\ input_valid["weight"] <=> Shifting(q)
      /\ input_cnt["weight"] = IF 1 <= q /\ q <= ArraySize + 1 THEN q - 1 ELSE 0
      /\ weight_row = IF q < ArraySize THEN q ELSE 0
      /\ weight_col = IF q <= ArraySize THEN nb
                      ELSE IF q > ArraySize + 1 /\ nb = c.n - 1 THEN 0 ELSE nb + 1
      /\ loading_weights <=> Shifting(q)
      /\ shift_cnt = IF 1 <= q /\ q <= ArraySize + 1 THEN q - 1 ELSE 0
  BY DEF Streaming, StreamWeights
<1>1. input_valid'["weight"] <=> Shifting(q + 1)
  <2>1. input_valid'["weight"] = NextInputValid("weight")
    BY DEF BFClock, Channels
  <2>2. input_valid'["weight"] <=> q = 0 \/ (Shifting(q) /\ q # ArraySize)
    BY <2>1, <1>w, <1>r DEF NextInputValid
  <2> QED
    BY <2>2, <1>c DEF Shifting
<1>2. input_cnt'["weight"] =
        IF 1 <= q + 1 /\ q + 1 <= ArraySize + 1 THEN (q + 1) - 1 ELSE 0
  <2>1. input_cnt'["weight"] = NextInputCnt("weight")
    BY DEF BFClock, Channels
  <2>2. PhaseBeats("weight") = ArraySize /\ PhaseState("weight") = "SET_WEIGHT"
    BY DEF PhaseBeats, PhaseState
  <2>3. input_cnt'["weight"] = IF input_cnt["weight"] = ArraySize THEN 0
                               ELSE IF Shifting(q)
                                    THEN input_cnt["weight"] + 1 ELSE input_cnt["weight"]
    BY <2>1, <2>2, <1>s, <1>r DEF NextInputCnt
  <2> QED
    BY <2>3, <1>r, <1>c DEF Shifting
<1>3. Shifting(q + 1) => input_data'["weight"] = WeightWord(c, b, nb, q + 1)
  <2> HAVE Shifting(q + 1)
  <2>1. q \in 0..ArraySize-1
    BY <1>c DEF Shifting
  <2>2. WeightAddr(c) = q * c.n + nb
    BY <2>1, <1>r, <1>c DEF WeightAddr
  <2>3. q * c.n + nb \in 0..Beats(c, "weight")-1
    <3>1. q * c.n + nb \in 0..ArraySize*c.n-1
      BY <2>1, <1>c, PlaceInMatrix
    <3>2. ArraySize * c.n = Beats(c, "weight")
      BY <1>c DEF Beats, ReplayBeats
    <3> QED
      BY <3>1, <3>2
  <2>4. input_data'["weight"] = tile_mem["weight"][q * c.n + nb]
    <3>1. input_data'["weight"] = TileWord("weight", WeightAddr(c))
      BY DEF BFClock
    <3>2. q * c.n + nb \in 0..InputDepth-1
      BY <2>3, <1>c
    <3> QED
      BY <3>1, <3>2, <2>2 DEF TileWord
  <2>5. tile_mem["weight"][q * c.n + nb] = <<c.shift, b * Beats(c, "weight") + (q * c.n + nb)>>
    BY <2>3 DEF Streaming, TilesHeld, TileStored, TileSource, Channels
  <2>6. b * Beats(c, "weight") + (q * c.n + nb)
          = b * Beats(c, "weight") + ((q + 1) - 1) * c.n + nb
    <3>1. b * Beats(c, "weight") \in Int /\ q * c.n \in Int /\ (q + 1) - 1 = q
      BY <1>c
    <3> QED
      BY <3>1, <1>c
  <2> QED
    BY <2>4, <2>5, <2>6 DEF WeightWord
<1>4. weight_row' = IF q + 1 < ArraySize THEN q + 1 ELSE 0
  <2>1. weight_row' = NextWeightRow
    BY DEF BFClock
  <2> QED
    BY <2>1, <1>w, <1>r, <1>c DEF NextWeightRow
<1>5. weight_col' = IF q + 1 <= ArraySize THEN nb
                    ELSE IF q + 1 > ArraySize + 1 /\ nb = c.n - 1 THEN 0 ELSE nb + 1
  <2>1. weight_col' = NextWeightCol(c)
    BY DEF BFClock
  <2> QED
    BY <2>1, <1>w, <1>r, <1>c DEF NextWeightCol
<1>6. loading_weights' <=> Shifting(q + 1)
  <2>1. loading_weights' = NextLoadingWeights
    BY DEF BFClock
  <2>2. CASE q = 0
    <3>1. LoadWeightPhase /\ ~ComputeLast
      BY <2>2, <1>w, ConfigSize DEF RowEntering
    <3>2. loading_weights'
      BY <2>1, <3>1 DEF NextLoadingWeights
    <3> QED
      BY <2>2, <3>2, <1>c DEF Shifting
  <2>3. CASE q = ArraySize
    <3>1. ~LoadWeightPhase /\ ComputeLast
      BY <2>3, <1>w, <1>c
    <3>2. ~loading_weights'
      BY <2>1, <3>1 DEF NextLoadingWeights
    <3> QED
      BY <2>3, <3>2, <1>c DEF Shifting
  <2>4. CASE q # 0 /\ q # ArraySize /\ ~ComputeLast
    <3>1. loading_weights' = loading_weights
      BY <2>1, <2>4, <1>w DEF NextLoadingWeights
    <3> QED
      BY <3>1, <2>4, <1>r, <1>c DEF Shifting
  <2>5. CASE q # 0 /\ q # ArraySize /\ ComputeLast
    <3>1. ~loading_weights'
      BY <2>1, <2>5, <1>w DEF NextLoadingWeights
    <3>2. q > ArraySize
      BY <2>5, <1>w, <1>c, ConfigSize DEF RowEntering
    <3> QED
      BY <3>1, <3>2, <1>c DEF Shifting
  <2> QED
    BY <2>2, <2>3, <2>4, <2>5
<1>7. shift_cnt' = IF 1 <= q + 1 /\ q + 1 <= ArraySize + 1 THEN (q + 1) - 1 ELSE 0
  <2>1. shift_cnt' = IF TileLoaded THEN 0 ELSE IF ShiftIn THEN shift_cnt + 1 ELSE shift_cnt
    BY DEF BFClock
  <2> QED
    BY <2>1, <1>w, <1>r, <1>c DEF Shifting
<1>8. /\ q + 1 <= ArraySize + 1 =>
           \A i \in 1..(q+1)-1 :
              shift_reg'[ArraySize - ((q + 1) - 1) + i] = WeightWord(c, b, nb, i)
      /\ q + 1 >= ArraySize + 2 => pe_weights' = Tile(c, b, nb)
  BY StreamShift
<1> QED
  BY <1>1, <1>2, <1>3, <1>4, <1>5, <1>6, <1>7, <1>8 DEF StreamWeights

\* The last weight word of the last N block has been addressed.
LEMMA StreamWEnd ==
  ASSUME NEW c, IsConfig(c), NEW b \in 0..c.k-1, NEW nb \in 0..c.n-1,
         NEW q \in 0..TileClocks(c)-1,
         \A ch \in Channels : total_words[ch] = Beats(c, ch),
         Streaming(c, b, nb, q), BFClock(c)
  PROVE  w_end' <=> nb = c.n - 1 /\ q + 1 >= ArraySize
<1>c. /\ ArraySize \in Nat /\ ArraySize >= 2 /\ q \in Nat
      /\ c.n \in Nat /\ c.n >= 1 /\ nb \in Nat /\ nb <= c.n - 1
      /\ total_words["weight"] = c.n * ArraySize
  BY ConfigSize, ClockRange DEF Channels
<1>r. /\ start <=> q = 0 /\ nb = 0
      /\ w_end <=> (q = 0 /\ nb = 0) \/ (nb = c.n - 1 /\ q >= ArraySize)
  BY DEF Streaming, StreamControl
<1>1. w_end' <=> ~start /\ (w_end \/ WeightAddr(c) = c.n * ArraySize - 1)
  BY <1>c DEF BFClock, NextWEnd
<1>2. /\ weight_row = IF q < ArraySize THEN q ELSE 0
      /\ weight_col = IF q <= ArraySize THEN nb
                      ELSE IF q > ArraySize + 1 /\ nb = c.n - 1 THEN 0 ELSE nb + 1
  BY DEF Streaming, StreamWeights
<1>3. CASE q < ArraySize
  <2>1. WeightAddr(c) = q * c.n + nb
    BY <1>2, <1>3, <1>c DEF WeightAddr
  <2>2. WeightAddr(c) = c.n * ArraySize - 1 <=> q = ArraySize - 1 /\ nb = c.n - 1
    <3>1. c.n * ArraySize - 1 = (ArraySize - 1) * c.n + (c.n - 1)
      <4>1. ((ArraySize - 1) + 1) * c.n = (ArraySize - 1) * c.n + c.n
        BY <1>c, NextMultiple
      <4>2. (ArraySize - 1) + 1 = ArraySize /\ ArraySize * c.n = c.n * ArraySize
        BY <1>c
      <4>3. (ArraySize - 1) * c.n \in Int
        BY <1>c
      <4> QED
        BY <4>1, <4>2, <4>3, <1>c
    <3>2. q * c.n + nb = (ArraySize - 1) * c.n + (c.n - 1) => q = ArraySize - 1 /\ nb = c.n - 1
      <4>1. /\ q \in Nat /\ ArraySize - 1 \in Nat
            /\ nb \in 0..c.n-1 /\ c.n - 1 \in 0..c.n-1
        BY <1>c
      <4> QED
        BY <4>1, <1>c, PlaceInjective
    <3> QED
      BY <2>1, <3>1, <3>2
  <2> QED
    BY <1>1, <1>3, <2>2, <1>r, <1>c
<1>4. CASE q >= ArraySize
  <2>1. WeightAddr(c) = weight_col
    <3>1. weight_row = 0
      BY <1>2, <1>4, <1>c
    <3>2. 0 * c.n = 0 /\ weight_col \in Nat
      BY <1>2, <1>c
    <3> QED
      BY <3>1, <3>2 DEF WeightAddr
  <2>2. nb # c.n - 1 => WeightAddr(c) # c.n * ArraySize - 1
    <3> HAVE nb # c.n - 1
    <3>1. weight_col < c.n /\ weight_col \in Nat
      BY <1>2, <1>c
    <3>2. 2 * c.n <= ArraySize * c.n /\ ArraySize * c.n = c.n * ArraySize
      BY <1>c, ProductMonotone
    <3>3. c.n * ArraySize \in Nat
      BY <1>c
    <3> QED
      BY <2>1, <3>1, <3>2, <3>3, <1>c
  <2> QED
    BY <1>1, <1>4, <2>2, <1>r, <1>c
<1> QED
  BY <1>3, <1>4, <1>c

LEMMA StreamControlNext ==
  ASSUME NEW c, IsConfig(c), NEW b \in 0..c.k-1, NEW nb \in 0..c.n-1,
         NEW q \in 0..TileClocks(c)-1, q # TileClocks(c) - 1,
         \A ch \in Channels : total_words[ch] = Beats(c, ch),
         Streaming(c, b, nb, q), BFClock(c)
  PROVE  StreamControl(c, nb, q + 1)'
<1>c. /\ ArraySize \in Nat /\ ArraySize >= 2 /\ q \in Nat
      /\ c.n \in Nat /\ c.n >= 1 /\ nb \in Nat /\ nb <= c.n - 1
  BY ConfigSize, ClockRange DEF Channels
<1>w. /\ LoadWeightPhase <=> q = 0
      /\ TileLoaded <=> q = ArraySize + 1
  BY StreamWires
<1>o. ~PartialOut.last /\ ~PartialLast
  BY StreamOut
<1>r. /\ bf_state = IF q = 0 /\ nb = 0 THEN "IDLE"
                    ELSE IF 1 <= q /\ q <= ArraySize + 2 THEN "SET_WEIGHT" ELSE "SET_FEATURE"
      /\ start <=> q = 0 /\ nb = 0
      /\ weight_flag_up <=> q = 0 /\ nb > 0
      /\ weight_loaded_d1 <=> q = ArraySize + 2
      /\ w_end <=> (q = 0 /\ nb = 0) \/ (nb = c.n - 1 /\ q >= ArraySize)
      /\ both_full_d1
      /\ BothFull
  BY DEF Streaming, StreamControl, TilesHeld, BothFull
<1>1. bf_state' = IF 1 <= q + 1 /\ q + 1 <= ArraySize + 2 THEN "SET_WEIGHT" ELSE "SET_FEATURE"
  <2>1. bf_state' = NextBFState
    BY DEF BFClock
  <2>2. CASE q = 0
    <3>1. bf_state' = "SET_WEIGHT"
      BY <2>1, <2>2, <1>r, <1>o, <1>c DEF NextBFState
    <3> QED
      BY <3>1, <2>2, <1>c
  <2>3. CASE q = ArraySize + 2
    <3>1. bf_state' = "SET_FEATURE"
      BY <2>1, <2>3, <1>r, <1>o, <1>c DEF NextBFState
    <3> QED
      BY <3>1, <2>3, <1>c
  <2>4. CASE q # 0 /\ q # ArraySize + 2
    <3>1. bf_state' = bf_state
      BY <2>1, <2>4, <1>r, <1>o DEF NextBFState
    <3> QED
      BY <3>1, <2>4, <1>r, <1>c
  <2> QED
    BY <2>2, <2>3, <2>4
<1>2. ~start' /\ both_full_d1'
  BY <1>r DEF BFClock, StartAhead
<1>3. ~weight_flag_up'
  BY <1>o DEF BFClock, NextWeightFlagUp
<1>4. weight_loaded_d1' <=> q + 1 = ArraySize + 2
  BY <1>w, <1>c DEF BFClock
<1>5. w_end' <=> nb = c.n - 1 /\ q + 1 >= ArraySize
  BY StreamWEnd
<1>6. ~(q + 1 = 0)
  BY <1>c
<1> QED
  BY <1>1, <1>2, <1>3, <1>4, <1>5, <1>6 DEF StreamControl

LEMMA TilesHeldNext ==
  ASSUME NEW c, IsConfig(c), NEW b, TilesHeld(c, b), ~PartialLast,
         \A ch \in Channels : ~buffer_valid[ch], BFClock(c)
  PROVE  TilesHeld(c, b)'
<1> SUFFICES ASSUME NEW ch \in Channels
             PROVE  /\ tile_count'[ch] = tile_count[ch] /\ tile_addr'[ch] = tile_addr[ch]
                    /\ tile_mem'[ch] = tile_mem[ch]
  BY DEF TilesHeld, TileStored
<1>1. /\ tile_count'[ch] = NextTileCount(ch) /\ tile_addr'[ch] = NextTileAddr(c, ch)
      /\ tile_mem'[ch] = NextTileMem(ch)
  BY DEF BFClock
<1>2. ~TileAccept(ch)
  BY DEF TileAccept
<1> QED
  BY <1>1, <1>2 DEF NextTileCount, NextTileAddr, NextTileMem

LEMMA StreamNext ==
  ASSUME NEW c, IsConfig(c), NEW b \in 0..c.k-1, NEW nb \in 0..c.n-1,
         NEW q \in 0..TileClocks(c)-1, q # TileClocks(c) - 1, Memories,
         \A ch \in Channels : total_words[ch] = Beats(c, ch),
         \A ch \in Channels : ~buffer_valid[ch],
         Streaming(c, b, nb, q), BFClock(c)
  PROVE  Streaming(c, b, nb, q + 1)'
<1>1. ~PartialLast
  BY StreamOut
<1>2. TilesHeld(c, b)'
  BY <1>1, TilesHeldNext DEF Streaming
<1>3. StreamControl(c, nb, q + 1)'
  BY StreamControlNext
<1>4. StreamWeights(c, b, nb, q + 1)'
  BY StreamWeightsNext
<1>5. StreamRows(c, b, q + 1)'
  BY StreamRowsNext
<1>6. StreamArray(c, b, nb, q + 1)'
  BY StreamArrayNext
<1> QED
  BY <1>2, <1>3, <1>4, <1>5, <1>6 DEF Streaming

\* Its last row out, the next tile of the K block begins.
LEMMA StreamTileEnds ==
  ASSUME NEW c, IsConfig(c), NEW b \in 0..c.k-1, NEW nb \in 0..c.n-1, nb # c.n - 1,
         NEW q, q = TileClocks(c) - 1, Memories,
         \A ch \in Channels : total_words[ch] = Beats(c, ch),
         \A ch \in Channels : ~buffer_valid[ch],
         Streaming(c, b, nb, q), BFClock(c)
  PROVE  Streaming(c, b, nb + 1, 0)'
<1>c. /\ ArraySize \in Nat /\ ArraySize >= 2 /\ ResultLatency \in Nat
      /\ q \in 0..TileClocks(c)-1 /\ q = ArraySize + 3 + c.rows + ResultLatency
      /\ c.rows \in Nat /\ c.rows >= 2 /\ c.n \in Nat /\ nb \in Nat
  BY ConfigSize DEF TileClocks
<1>o. PartialOut.last /\ ~PartialLast
  BY <1>c, StreamOut
<1>r. /\ bf_state = "SET_FEATURE" /\ ~start /\ ~weight_flag_up /\ ~weight_loaded_d1
      /\ both_full_d1 /\ BothFull
  BY <1>c DEF Streaming, StreamControl, TilesHeld, BothFull
<1>1. TilesHeld(c, b)'
  BY <1>o, TilesHeldNext DEF Streaming
<1>2. StreamControl(c, nb + 1, 0)'
  <2>1. bf_state' = "SET_FEATURE"
    BY <1>o, <1>r DEF BFClock, NextBFState
  <2>2. ~start' /\ both_full_d1'
    BY <1>r DEF BFClock, StartAhead
  <2>3. weight_flag_up'
    BY <1>o, <1>r DEF BFClock, NextWeightFlagUp
  <2>4. ~weight_loaded_d1'
    <3>1. ~TileLoaded
      BY <1>c, StreamWires
    <3> QED
      BY <3>1 DEF BFClock
  <2>5. ~w_end'
    BY <1>c, StreamWEnd
  <2> QED
    BY <2>1, <2>2, <2>3, <2>4, <2>5, <1>c DEF StreamControl
<1>3. StreamWeights(c, b, nb + 1, 0)'
  <2>1. StreamWeights(c, b, nb, q + 1)'
    BY <1>c, StreamWeightsNext
  <2> QED
    BY <2>1, <1>c DEF StreamWeights, Shifting
<1>4. StreamRows(c, b, 0)'
  <2>1. StreamRows(c, b, q + 1)'
    BY <1>c, StreamRowsNext
  <2>2. RowEntering(q + 1) > c.rows /\ RowEntering(0) < 0 /\ RowEntering(q + 1) \in Int /\ RowEntering(0) \in Int
    BY <1>c DEF RowEntering
  <2> QED
    BY <2>1, <2>2, <1>c DEF StreamRows
<1>5. StreamArray(c, b, nb + 1, 0)'
  <2>1. StreamArray(c, b, nb, q + 1)'
    BY <1>c, StreamArrayNext
  <2>2. \A d \in 0..ResultLatency : ~(InArray(q + 1, d) \in 0..c.rows-1) /\ ~(InArray(0, d) \in 0..c.rows-1)
    BY <1>c DEF InArray
  <2> QED
    BY <2>1, <2>2 DEF StreamArray
<1> QED
  BY <1>1, <1>2, <1>3, <1>4, <1>5 DEF Streaming

\* The last row of the last tile ends the K block and frees both tiles.
LEMMA StreamBlockEnds ==
  ASSUME NEW c, IsConfig(c), NEW b \in 0..c.k-1, NEW nb, nb = c.n - 1,
         NEW q, q = TileClocks(c) - 1, Memories,
         \A ch \in Channels : total_words[ch] = Beats(c, ch),
         \A ch \in Channels : ~buffer_valid[ch],
         Streaming(c, b, nb, q), BFClock(c)
  PROVE  FeederAtRest(TRUE)' /\ NoTileStored' /\ both_full_d1'
<1>c. /\ ArraySize \in Nat /\ ArraySize >= 2 /\ ResultLatency \in Nat
      /\ q \in 0..TileClocks(c)-1 /\ q = ArraySize + 3 + c.rows + ResultLatency
      /\ c.rows \in Nat /\ c.rows >= 2 /\ c.n \in Nat /\ nb \in 0..c.n-1 /\ nb \in Nat
  BY ConfigSize DEF TileClocks
<1>o. PartialOut.last /\ PartialLast
  BY <1>c, StreamOut
<1>r. /\ bf_state = "SET_FEATURE" /\ ~start /\ ~weight_flag_up /\ ~weight_loaded_d1
      /\ both_full_d1 /\ BothFull
  BY <1>c DEF Streaming, StreamControl, TilesHeld, BothFull
<1>1. NoTileStored'
  <2> SUFFICES ASSUME NEW ch \in Channels PROVE tile_count'[ch] = 0 /\ tile_addr'[ch] = 0
    BY DEF NoTileStored
  <2>1. tile_count'[ch] = NextTileCount(ch) /\ tile_addr'[ch] = NextTileAddr(c, ch)
    BY DEF BFClock
  <2>2. ~TileAccept(ch)
    BY DEF TileAccept
  <2>3. tile_addr[ch] = 0
    BY DEF Streaming, TilesHeld
  <2> QED
    BY <2>1, <2>2, <2>3, <1>o DEF NextTileCount, NextTileAddr
<1>2. bf_state' = "IDLE"
  BY <1>o, <1>r DEF BFClock, NextBFState
<1>3. ~start' /\ both_full_d1'
  BY <1>r DEF BFClock, StartAhead
<1>4. weight_flag_up'
  BY <1>o, <1>r DEF BFClock, NextWeightFlagUp
<1>5. ~weight_loaded_d1'
  <2>1. ~TileLoaded
    BY <1>c, StreamWires
  <2> QED
    BY <2>1 DEF BFClock
<1>6. w_end'
  BY <1>c, StreamWEnd
<1>7. /\ ~input_valid'["weight"] /\ input_cnt'["weight"] = 0 /\ ~loading_weights'
      /\ weight_row' = 0 /\ weight_col' = 0 /\ shift_cnt' = 0
  <2>1. StreamWeights(c, b, nb, q + 1)'
    BY <1>c, StreamWeightsNext
  <2> QED
    BY <2>1, <1>c DEF StreamWeights, Shifting
<1>8. ~input_valid'["feature"] /\ input_cnt'["feature"] = 0 /\ feature_addr' = 0
  <2>1. StreamRows(c, b, q + 1)'
    BY <1>c, StreamRowsNext
  <2>2. RowEntering(q + 1) > c.rows /\ RowEntering(q + 1) \in Int
    BY <1>c DEF RowEntering
  <2> QED
    BY <2>1, <2>2, <1>c DEF StreamRows
<1>9. \A d \in 0..ResultLatency : pipe'[d] = Bubble
  <2>1. StreamArray(c, b, nb, q + 1)'
    BY <1>c, StreamArrayNext
  <2>2. \A d \in 0..ResultLatency : ~(InArray(q + 1, d) \in 0..c.rows-1)
    BY <1>c DEF InArray
  <2> QED
    BY <2>1, <2>2 DEF StreamArray
<1>10. \A ch \in Channels : ~input_valid'[ch] /\ input_cnt'[ch] = 0
  BY <1>7, <1>8 DEF Channels
<1> QED
  BY <1>1, <1>2, <1>3, <1>4, <1>5, <1>6, <1>7, <1>8, <1>9, <1>10 DEF FeederAtRest

-----------------------------------------------------------------------------
(* OutputBuffer *)

LEMMA OBKeepsMemory ==
  ASSUME NEW c, NEW p, NEW plast, NEW rdy, Memories, OBClock(c, p, plast, rdy)
  PROVE  DOMAIN accum_mem' = 0..OutputDepth-1
<1>1. accum_mem' = NextAccumMem(p, rdy)
  BY DEF OBClock
<1> QED
  BY <1>1 DEF Memories, NextAccumMem

\* Between two readouts only the accumulation works on the memory.
LEMMA OBRests ==
  ASSUME NEW c, NEW p, NEW plast, NEW rdy \in BOOLEAN, ReadoutAtRest,
         OBClock(c, p, plast, rdy)
  PROVE  /\ start_result' <=> AllKBlocksDone(c)
         /\ ~mem_valid' /\ ~mem_valid_d1' /\ ~mem_valid_d2' /\ ~result_valid'
         /\ mem_count' = 0 /\ mem_count_d1' = 0 /\ result_col' = 0 /\ result_row' = 0
         /\ accum_mem' = IF p.valid THEN [accum_mem EXCEPT ![accum_write_addr] = Append(read_data, p.sum)]
                         ELSE accum_mem
         /\ read_data' = AccumWord(AccumReadAddr(p))
<1>1. start_result' <=> AllKBlocksDone(c)
  BY DEF OBClock, NextStartResult, ReadoutAtRest
<1>2. ~mem_valid' /\ ~mem_valid_d1' /\ ~mem_valid_d2' /\ ~result_valid'
  BY DEF OBClock, NextMemValid, NextMemValidD1, NextResultValid, MemAdvance, ReadoutAtRest
<1>3. mem_count' = 0 /\ mem_count_d1' = 0
  BY DEF OBClock, NextMemCount, NextMemCountD1, MemAdvance, ReadoutAtRest
<1>4. result_col' = 0 /\ result_row' = 0
  BY DEF OBClock, NextResultCol, NextResultRow, MemAdvance, ReadoutAtRest
<1>5. accum_mem' = IF p.valid THEN [accum_mem EXCEPT ![accum_write_addr] = Append(read_data, p.sum)]
                   ELSE accum_mem
  <2>1. ~ClearWord(rdy)
    BY DEF ClearWord, ReadoutAtRest
  <2> QED
    BY <2>1 DEF OBClock, NextAccumMem
<1>6. read_data' = AccumWord(AccumReadAddr(p))
  BY DEF OBClock, NextReadData, MemReadAddr, ReadoutAtRest
<1> QED
  BY <1>1, <1>2, <1>3, <1>4, <1>5, <1>6

LEMMA AccumulateWord ==
  ASSUME NEW c, IsConfig(c), NEW b \in 0..c.k-1, NEW m \in 0..c.rows-1, NEW nb \in 0..c.n-1,
         NEW done, done = WordAddr(c, m, nb), Memories,
         Accumulated(c, b, done), read_data = accum_mem[done],
         accum_mem' = [accum_mem EXCEPT ![done] = Append(read_data, RowSum(c, b, nb, m))]
  PROVE  Accumulated(c, b, done + 1)'
<1>c. /\ b \in Nat /\ done \in 0..ResultWords(c)-1 /\ done \in 0..OutputDepth-1 /\ done \in Nat
      /\ ResultWords(c) \in Nat /\ OutputDepth \in Nat
  BY ConfigSize, ResultPlaces, ResultSize
<1>1. DOMAIN accum_mem = 0..OutputDepth-1
  BY DEF Memories
<1>2. accum_mem[done] = Sums(c, nb, m, b)
  BY <1>c DEF Accumulated
<1>3. accum_mem'[done] = Sums(c, nb, m, b + 1)
  <2>1. Append(Sums(c, nb, m, b), RowSum(c, b, nb, m)) = Sums(c, nb, m, b + 1)
    BY <1>c, AppendSum
  <2> QED
    BY <1>c, <1>1, <1>2, <2>1
<1>4. \A a \in 0..OutputDepth-1 : a # done => accum_mem'[a] = accum_mem[a]
  BY <1>1
<1>5. ASSUME NEW m1 \in 0..c.rows-1, NEW nb1 \in 0..c.n-1
      PROVE  accum_mem'[WordAddr(c, m1, nb1)] =
               Sums(c, nb1, m1, IF WordAddr(c, m1, nb1) < done + 1 THEN b + 1 ELSE b)
  <2> DEFINE a == WordAddr(c, m1, nb1)
  <2>1. a \in 0..OutputDepth-1 /\ a \in Nat
    BY ResultPlaces, <1>c
  <2>2. CASE a = done
    <3>1. m1 = m /\ nb1 = nb
      BY <2>2, ResultPlacesDiffer
    <3> QED
      BY <2>2, <3>1, <1>3, <1>c
  <2>3. CASE a # done
    <3>1. accum_mem'[a] = accum_mem[a]
      BY <2>1, <2>3, <1>4
    <3>2. a < done <=> a < done + 1
      BY <2>1, <2>3, <1>c
    <3> QED
      BY <3>1, <3>2 DEF Accumulated
  <2> QED
    BY <2>2, <2>3
<1>6. \A a \in 0..OutputDepth-1 : a >= ResultWords(c) => accum_mem'[a] = Zero
  BY <1>4, <1>c DEF Accumulated, Unused
<1> QED
  BY <1>5, <1>6 DEF Accumulated, Unused

\* All words of a K block are all words of the next one, not yet begun.
LEMMA AccumulatedRound ==
  ASSUME NEW c, IsConfig(c), NEW b \in 0..c.k-1, Accumulated(c, b, ResultWords(c))'
  PROVE  Accumulated(c, b + 1, 0)'
<1>1. ASSUME NEW m \in 0..c.rows-1, NEW nb \in 0..c.n-1
      PROVE  accum_mem'[WordAddr(c, m, nb)] =
               Sums(c, nb, m, IF WordAddr(c, m, nb) < 0 THEN (b + 1) + 1 ELSE b + 1)
  <2>1. WordAddr(c, m, nb) < ResultWords(c) /\ ~(WordAddr(c, m, nb) < 0)
    BY ResultPlaces, ResultSize
  <2> QED
    BY <2>1 DEF Accumulated
<1> QED
  BY <1>1 DEF Accumulated, Unused

\* A clock without a partial sum leaves the accumulation where it is.
LEMMA AccumulatingIdles ==
  ASSUME NEW c, IsConfig(c), NEW b \in 0..c.k-1, NEW done \in Nat, NEW p, NEW rdy \in BOOLEAN,
         Accumulating(c, b, done), ~p.valid, results_expected = ResultWords(c),
         OBClock(c, p, FALSE, rdy), received' = received
  PROVE  Accumulating(c, b, done)' /\ PrefetchFresh'
<1>c. /\ c.k \in Nat /\ b # c.k /\ results_expected # 0
  BY ConfigSize, ResultSize
<1>1. ReadoutAtRest /\ k_block_done = b /\ accum_write_addr = done /\ result_count = 0
      /\ ~result_valid
  BY DEF Accumulating, ReadoutAtRest
<1>2. ~AllKBlocksDone(c)
  BY <1>1, <1>c DEF AllKBlocksDone
<1>3. ReadoutAtRest' /\ accum_mem' = accum_mem /\ read_data' = AccumWord(AccumReadAddr(p))
  BY <1>1, <1>2, OBRests DEF ReadoutAtRest
<1>4. k_block_done' = b /\ accum_write_addr' = done /\ result_count' = 0
  BY <1>1, <1>2, <1>c DEF OBClock, NextKBlockDone, NextAccumWriteAddr, NextResultCount
<1>5. PrefetchFresh'
  BY <1>1, <1>3, <1>4 DEF PrefetchFresh, AccumReadAddr, AccumWord
<1> QED
  BY <1>3, <1>4, <1>5 DEF Accumulating, Accumulated, Unused

\* A partial sum is added to the word whose content was prefetched.
LEMMA AccumulatingAdds ==
  ASSUME NEW c, IsConfig(c), NEW b \in 0..c.k-1, NEW m \in 0..c.rows-1, NEW nb \in 0..c.n-1,
         NEW done, done = WordAddr(c, m, nb), Memories,
         NEW p, p.valid, p.sum = RowSum(c, b, nb, m),
         NEW plast \in BOOLEAN, NEW rdy \in BOOLEAN,
         Accumulating(c, b, done), PrefetchFresh, results_expected = ResultWords(c),
         OBClock(c, p, plast, rdy), received' = received
  PROVE  /\ ~plast => Accumulating(c, b, done + 1)' /\ PrefetchFresh'
         /\ plast /\ done + 1 = ResultWords(c) => Accumulating(c, b + 1, 0)'
<1>c. /\ c.k \in Nat /\ b # c.k /\ results_expected # 0
      /\ done \in 0..OutputDepth-1 /\ done \in Nat /\ OutputDepth \in Nat
  BY ConfigSize, ResultSize, ResultPlaces
<1>1. ReadoutAtRest /\ k_block_done = b /\ accum_write_addr = done /\ result_count = 0
      /\ ~result_valid
  BY DEF Accumulating, ReadoutAtRest
<1>2. ~AllKBlocksDone(c)
  BY <1>1, <1>c DEF AllKBlocksDone
<1>3. /\ ReadoutAtRest' /\ read_data' = AccumWord(done + 1)
      /\ accum_mem' = [accum_mem EXCEPT ![done] = Append(read_data, p.sum)]
  BY <1>1, <1>2, OBRests DEF ReadoutAtRest, AccumReadAddr
<1>4. read_data = accum_mem[done]
  BY <1>1, <1>c DEF PrefetchFresh, AccumWord
<1>5. accum_mem' = [accum_mem EXCEPT ![done] = Append(read_data, RowSum(c, b, nb, m))]
  BY <1>3
<1>6. Accumulated(c, b, done + 1)'
  <2>1. Accumulated(c, b, done)
    BY DEF Accumulating
  <2> QED
    BY <1>4, <1>5, <2>1, AccumulateWord
<1>7. result_count' = 0 /\ received' = 0
  BY <1>1, <1>c DEF OBClock, NextResultCount, Accumulating
<1>8. ASSUME ~plast PROVE Accumulating(c, b, done + 1)' /\ PrefetchFresh'
  <2>1. k_block_done' = b /\ accum_write_addr' = done + 1
    BY <1>1, <1>2, <1>8 DEF OBClock, NextKBlockDone, NextAccumWriteAddr
  <2>2. AccumWord(done + 1)' = AccumWord(done + 1)
    <3>1. DOMAIN accum_mem = 0..OutputDepth-1
      BY DEF Memories
    <3>2. \A a \in 0..OutputDepth-1 : a # done => accum_mem'[a] = accum_mem[a]
      BY <1>5, <3>1
    <3> QED
      BY <3>2, <1>c DEF AccumWord
  <2>3. PrefetchFresh'
    BY <1>3, <2>1, <2>2 DEF PrefetchFresh
  <2> QED
    BY <1>3, <1>6, <1>7, <2>1, <2>3 DEF Accumulating
<1>9. ASSUME plast, done + 1 = ResultWords(c) PROVE Accumulating(c, b + 1, 0)'
  <2>1. k_block_done' = b + 1 /\ accum_write_addr' = 0
    BY <1>1, <1>2, <1>9 DEF OBClock, NextKBlockDone, NextAccumWriteAddr
  <2>2. Accumulated(c, b, ResultWords(c))'
    BY <1>6, <1>9
  <2>3. Accumulated(c, b + 1, 0)'
    BY <2>2, AccumulatedRound
  <2> QED
    BY <1>3, <1>7, <2>1, <2>3 DEF Accumulating
<1> QED
  BY <1>8, <1>9

\* The accumulation at clock q of the tile (b, nb).
LEMMA TileAccumulates ==
  ASSUME NEW c, IsConfig(c), NEW b \in 0..c.k-1, NEW nb \in 0..c.n-1,
         NEW q \in 0..TileClocks(c)-1, Memories, Streaming(c, b, nb, q),
         Accumulating(c, b, nb * c.rows + RowsOut(q)), PrefetchFresh,
         results_expected = ResultWords(c), NEW rdy \in BOOLEAN,
         OBClock(c, PartialOut, PartialLast, rdy), received' = received
  PROVE  /\ q # TileClocks(c) - 1 =>
              Accumulating(c, b, nb * c.rows + RowsOut(q + 1))' /\ PrefetchFresh'
         /\ q = TileClocks(c) - 1 /\ nb # c.n - 1 =>
              Accumulating(c, b, (nb + 1) * c.rows + RowsOut(0))' /\ PrefetchFresh'
         /\ q = TileClocks(c) - 1 /\ nb = c.n - 1 => Accumulating(c, b + 1, 0)'
<1>c. /\ ArraySize \in Nat /\ ResultLatency \in Nat /\ c.rows \in Nat /\ c.rows >= 2
      /\ q \in Nat /\ nb \in Nat /\ c.n \in Nat
      /\ q <= ArraySize + 3 + c.rows + ResultLatency
      /\ TileClocks(c) = ArraySize + 4 + c.rows + ResultLatency
  BY ConfigSize, ClockRange
<1>o. /\ PartialValid <=> InArray(q, ResultLatency) \in 0..c.rows-1
      /\ PartialValid => PartialOut.sum = RowSum(c, b, nb, InArray(q, ResultLatency))
      /\ PartialLast <=> q = TileClocks(c) - 1 /\ nb = c.n - 1
  BY StreamOut
<1>n. nb * c.rows \in Nat /\ (nb + 1) * c.rows = nb * c.rows + c.rows
  BY <1>c, NextMultiple
<1>i. /\ InArray(q + 1, ResultLatency) = InArray(q, ResultLatency) + 1
      /\ InArray(q, ResultLatency) \in Int /\ InArray(q, ResultLatency) <= c.rows - 1
      /\ InArray(0, ResultLatency) < 0
      /\ q = TileClocks(c) - 1 <=> InArray(q, ResultLatency) = c.rows - 1
  BY <1>c DEF InArray
<1>1. CASE ~PartialValid
  <2>1. InArray(q, ResultLatency) < 0
    BY <1>1, <1>o, <1>i, <1>c
  <2>2. RowsOut(q) = 0 /\ RowsOut(q + 1) = 0
    BY <2>1, <1>i DEF RowsOut
  <2>3. ~PartialLast /\ q # TileClocks(c) - 1
    BY <2>1, <1>o, <1>i, <1>c
  <2>4. (PartialLast) = FALSE
    BY <2>3 DEF PartialLast
  <2>5. ~PartialOut.valid
    BY <1>1 DEF PartialValid
  <2>6. OBClock(c, PartialOut, FALSE, rdy)
    BY <2>4
  <2>7. nb * c.rows + RowsOut(q) \in Nat
    BY <2>2, <1>n
  <2>8. Accumulating(c, b, nb * c.rows + RowsOut(q))' /\ PrefetchFresh'
    BY <2>5, <2>6, <2>7, AccumulatingIdles
  <2> QED
    BY <2>2, <2>3, <2>8
<1>2. CASE PartialValid
  <2> DEFINE m == InArray(q, ResultLatency)
  <2>1. m \in 0..c.rows-1 /\ m \in Nat /\ PartialOut.sum = RowSum(c, b, nb, m)
    BY <1>2, <1>o, <1>i
  <2>2. RowsOut(q) = m /\ RowsOut(q + 1) = m + 1 /\ RowsOut(0) = 0
    BY <2>1, <1>i DEF RowsOut
  <2> HIDE DEF m
  <2>3. nb * c.rows + RowsOut(q) = WordAddr(c, m, nb)
    BY <2>2 DEF WordAddr
  <2>4. WordAddr(c, m, nb) + 1 = nb * c.rows + RowsOut(q + 1)
    BY <2>1, <2>2, <1>n, <1>c DEF WordAddr
  <2>5. q = TileClocks(c) - 1 => WordAddr(c, m, nb) + 1 = (nb + 1) * c.rows + RowsOut(0)
    BY <2>1, <2>2, <1>n, <1>c, <1>i DEF WordAddr, m
  <2>6. q = TileClocks(c) - 1 /\ nb = c.n - 1 => WordAddr(c, m, nb) + 1 = ResultWords(c)
    <3> HAVE q = TileClocks(c) - 1 /\ nb = c.n - 1
    <3>1. nb + 1 = c.n /\ (nb + 1) * c.rows \in Nat
      BY <1>c
    <3>2. ResultWords(c) = (nb + 1) * c.rows
      BY <3>1, ResultSize
    <3> QED
      BY <3>1, <3>2, <2>2, <2>5
  <2>7. PartialOut.valid /\ PartialLast \in BOOLEAN
    BY <1>2 DEF PartialValid, PartialLast, PartialOut, Streaming, StreamControl, StreamArray
  <2>8. /\ ~PartialLast => Accumulating(c, b, WordAddr(c, m, nb) + 1)' /\ PrefetchFresh'
        /\ PartialLast /\ WordAddr(c, m, nb) + 1 = ResultWords(c) => Accumulating(c, b + 1, 0)'
    BY <2>1, <2>3, <2>7, AccumulatingAdds
  <2> QED
    BY <2>4, <2>5, <2>6, <2>8, <1>o
<1> QED
  BY <1>1, <1>2

(* The readout.  It advances on the clocks the result stream is ready on. *)

LEMMA ReadoutWires ==
  ASSUME NEW c, IsConfig(c), NEW x \in 0..ResultWords(c)+2, NEW rdy \in BOOLEAN,
         ReadoutFlags(c, x), ReadoutCounters(c, x), ReadoutAddresses(c, x),
         results_expected = ResultWords(c)
  PROVE  /\ MemAdvance(rdy) <=> x < ResultWords(c) /\ rdy
         /\ OutputEnd => x = ResultWords(c) + 1
         /\ ~OutputEnd /\ x = ResultWords(c) + 1 =>
              /\ mem_count_d1 = 0 /\ result_row = 0 /\ result_col = 0
              /\ clear_addr = ResultWords(c) - 1
         /\ ~AllKBlocksDone(c)
<1>c. ResultWords(c) \in Nat /\ ResultWords(c) >= 2 /\ c.k \in Nat /\ c.k >= 1 /\ x \in Nat
  BY ResultSize, ConfigSize
<1>1. MemAdvance(rdy) <=> x < ResultWords(c) /\ rdy
  BY DEF MemAdvance, ReadoutFlags
<1>2. OutputEnd => x = ResultWords(c) + 1
  BY <1>c DEF OutputEnd, ReadoutAddresses
<1>3. ~OutputEnd /\ x = ResultWords(c) + 1 =>
        /\ mem_count_d1 = 0 /\ result_row = 0 /\ result_col = 0
        /\ clear_addr = ResultWords(c) - 1
  BY <1>c DEF OutputEnd, ReadoutAddresses
<1>4. ~AllKBlocksDone(c)
  BY <1>c DEF AllKBlocksDone, ReadoutCounters
<1> QED
  BY <1>1, <1>2, <1>3, <1>4

LEMMA ReadoutFlagsNext ==
  ASSUME NEW c, IsConfig(c), NEW x \in 0..ResultWords(c)+2, NEW rdy \in BOOLEAN,
         ReadoutFlags(c, x), ReadoutCounters(c, x), ReadoutAddresses(c, x),
         results_expected = ResultWords(c), ~(x = ResultWords(c) + 2 /\ rdy),
         NEW p, OBClock(c, p, FALSE, rdy),
         NEW y, y = IF rdy THEN x + 1 ELSE x
  PROVE  ReadoutFlags(c, y)'
<1> DEFINE R == ResultWords(c)
<1>c. R \in Nat /\ R >= 2 /\ x \in Nat /\ results_expected = R /\ x <= R + 2
  BY ResultSize
<1>r. /\ start_result => x = 0
      /\ mem_valid <=> x < R
      /\ mem_valid_d1 <=> x \in 1..R
      /\ mem_valid_d2 <=> x \in 2..R+1
      /\ result_valid <=> x >= 3
  BY DEF ReadoutFlags
<1>w. (MemAdvance(rdy) <=> x < R /\ rdy) /\ ~AllKBlocksDone(c)
  BY ReadoutWires
<1>m. x < R => mem_count = x
  BY <1>c DEF ReadoutCounters
<1>d. x \in 1..R => mem_count_d1 = x - 1
  BY <1>c DEF ReadoutAddresses
<1> HIDE DEF R
<1>1. ~start_result'
  <2>1. start_result' <=> ~mem_valid /\ (start_result \/ AllKBlocksDone(c))
    BY DEF OBClock, NextStartResult
  <2>2. ~mem_valid => ~start_result
    BY <1>c, <1>r
  <2> QED
    BY <2>1, <2>2, <1>w
<1>2. mem_valid' <=> y < R
  <2>1. mem_valid' <=> NextMemValid(rdy)
    BY DEF OBClock
  <2> QED
    BY <2>1, <1>c, <1>r, <1>m DEF NextMemValid
<1>3. mem_valid_d1' <=> y \in 1..R
  <2>1. mem_valid_d1' <=> NextMemValidD1(rdy)
    BY DEF OBClock
  <2> QED
    BY <2>1, <1>c, <1>r, <1>d, <1>w DEF NextMemValidD1
<1>4. mem_valid_d2' <=> y \in 2..R+1
  <2>1. mem_valid_d2' <=> IF rdy THEN mem_valid_d1 ELSE mem_valid_d2
    BY DEF OBClock
  <2> QED
    BY <2>1, <1>c, <1>r
<1>5. result_valid' <=> y >= 3
  <2>1. result_valid' <=> IF rdy THEN mem_valid_d2 ELSE result_valid
    BY DEF OBClock, NextResultValid
  <2> QED
    BY <2>1, <1>c, <1>r
<1>6. ResultWords(c)' = R
  BY DEF R, ResultWords
<1> QED
  BY <1>1, <1>2, <1>3, <1>4, <1>5 DEF ReadoutFlags, R

LEMMA ReadoutCountersNext ==
  ASSUME NEW c, IsConfig(c), NEW x \in 0..ResultWords(c)+2, NEW rdy \in BOOLEAN,
         ReadoutFlags(c, x), ReadoutCounters(c, x), ReadoutAddresses(c, x),
         results_expected = ResultWords(c), ~(x = ResultWords(c) + 2 /\ rdy),
         NEW p, ~p.valid, OBClock(c, p, FALSE, rdy),
         received' = IF result_valid /\ rdy THEN received + 1 ELSE received,
         NEW y, y = IF rdy THEN x + 1 ELSE x
  PROVE  ReadoutCounters(c, y)'
<1> DEFINE R == ResultWords(c)
<1>c. R \in Nat /\ R >= 2 /\ x \in Nat /\ results_expected = R /\ x <= R + 2
  BY ResultSize
<1>r. /\ (mem_count = x /\ x <= R) \/ (mem_count = 0 /\ x >= R)
      /\ result_count = IF x < 3 THEN 0 ELSE x - 3
      /\ received = result_count /\ k_block_done = 0 /\ accum_write_addr = 0
      /\ result_valid <=> x >= 3
  BY DEF ReadoutFlags, ReadoutCounters
<1>w. (MemAdvance(rdy) <=> x < R /\ rdy) /\ ~AllKBlocksDone(c)
  BY ReadoutWires
<1> HIDE DEF R
<1>1. \/ mem_count' = y /\ y <= R
      \/ mem_count' = 0 /\ y >= R
  <2>1. mem_count' = NextMemCount(rdy)
    BY DEF OBClock
  <2> QED
    BY <2>1, <1>c, <1>r, <1>w DEF NextMemCount
<1>2. result_count' = IF y < 3 THEN 0 ELSE y - 3
  <2>1. result_count' = NextResultCount(rdy)
    BY DEF OBClock
  <2> QED
    BY <2>1, <1>c, <1>r DEF NextResultCount
<1>3. received' = result_count'
  <2>1. result_count' = NextResultCount(rdy)
    BY DEF OBClock
  <2> QED
    BY <2>1, <1>c, <1>r DEF NextResultCount
<1>4. k_block_done' = 0 /\ accum_write_addr' = 0
  BY <1>r, <1>w DEF OBClock, NextKBlockDone, NextAccumWriteAddr
<1> QED
  BY <1>1, <1>2, <1>3, <1>4 DEF ReadoutCounters, R

LEMMA ReadoutAddressesNext ==
  ASSUME NEW c, IsConfig(c), NEW x \in 0..ResultWords(c)+2, NEW rdy \in BOOLEAN,
         ReadoutFlags(c, x), ReadoutCounters(c, x), ReadoutAddresses(c, x),
         results_expected = ResultWords(c), ~(x = ResultWords(c) + 2 /\ rdy),
         NEW p, OBClock(c, p, FALSE, rdy),
         NEW y, y = IF rdy THEN x + 1 ELSE x
  PROVE  ReadoutAddresses(c, y)'
<1> DEFINE R == ResultWords(c)
<1>c. /\ R \in Nat /\ R >= 2 /\ x \in Nat /\ results_expected = R /\ x <= R + 2
      /\ c.rows \in Nat /\ c.rows >= 2 /\ c.n \in Nat /\ c.n >= 1
  BY ResultSize, ConfigSize
<1>r. mem_valid_d1 <=> x \in 1..R
  BY DEF ReadoutFlags
<1>w. MemAdvance(rdy) <=> x < R /\ rdy
  BY ReadoutWires
<1>a. \/ /\ x <= R + 1
         /\ mem_count_d1 = IF x = 0 THEN 0 ELSE x - 1
         /\ result_row \in 0..c.rows-1 /\ result_col \in 0..c.n-1
         /\ WordIndex(c, result_row, result_col) = AtMost(x, R - 1)
         /\ x > 0 => AddrOfWord(c, AtMost(x - 1, R - 2), clear_addr)
      \/ /\ x > R
         /\ mem_count_d1 = 0 /\ result_row = 0 /\ result_col = 0
         /\ clear_addr = R - 1
  BY DEF ReadoutAddresses
<1>n. /\ mem_count_d1' = NextMemCountD1(rdy) /\ result_col' = NextResultCol(c, rdy)
      /\ result_row' = NextResultRow(c, rdy) /\ clear_addr' = NextClearAddr(c, rdy)
  BY DEF OBClock
<1>x. (R = ResultWords(c)) /\ R' = ResultWords(c)
  BY DEF ResultWords
<1> HIDE DEF R
<1>1. CASE x > R /\ mem_count_d1 = 0 /\ result_row = 0 /\ result_col = 0 /\ clear_addr = R - 1
  <2>1. ~OutputEnd /\ ~MemAdvance(rdy) /\ ~mem_valid_d1
    BY <1>1, <1>c, <1>w, <1>r DEF OutputEnd
  <2>2. mem_count_d1' = 0 /\ result_row' = 0 /\ result_col' = 0 /\ clear_addr' = R - 1
    BY <2>1, <1>1, <1>n DEF NextMemCountD1, NextResultCol, NextResultRow, NextClearAddr
  <2>3. y > R
    BY <1>1, <1>c
  <2> QED
    BY <2>2, <2>3, <1>x DEF ReadoutAddresses
<1>2. CASE /\ x <= R + 1
           /\ mem_count_d1 = IF x = 0 THEN 0 ELSE x - 1
           /\ result_row \in 0..c.rows-1 /\ result_col \in 0..c.n-1
           /\ WordIndex(c, result_row, result_col) = AtMost(x, R - 1)
           /\ x > 0 => AddrOfWord(c, AtMost(x - 1, R - 2), clear_addr)
  <2>1. CASE OutputEnd
    <3>1. x = R + 1
      BY <1>2, <2>1, <1>c DEF OutputEnd
    <3>2. mem_count_d1' = 0 /\ result_row' = 0 /\ result_col' = 0 /\ clear_addr' = R - 1
      BY <2>1, <1>c, <1>n DEF NextMemCountD1, NextResultCol, NextResultRow, NextClearAddr
    <3>3. y > R
      BY <3>1, <1>c
    <3> QED
      BY <3>2, <3>3, <1>x DEF ReadoutAddresses
  <2>2. CASE ~OutputEnd
    <3>1. x <= R /\ y <= R + 1
      BY <1>2, <2>2, <1>c DEF OutputEnd
    <3>2. mem_count_d1' = IF y = 0 THEN 0 ELSE y - 1
      BY <2>2, <1>2, <1>c, <1>n, <1>r, <3>1 DEF NextMemCountD1
    <3>3. AtLastWord(c) <=> WordIndex(c, result_row, result_col) = R - 1
      <4>1. c.rows - 1 \in 0..c.rows-1 /\ c.n - 1 \in 0..c.n-1
        BY <1>c
      <4>2. WordIndex(c, c.rows - 1, c.n - 1) = R - 1
        <5>1. ((c.rows - 1) + 1) * c.n = (c.rows - 1) * c.n + c.n
          BY <1>c, NextMultiple
        <5>2. (c.rows - 1) + 1 = c.rows /\ (c.rows - 1) * c.n \in Int
          BY <1>c
        <5>3. R = (c.rows - 1) * c.n + c.n
          BY <5>1, <5>2, ResultSize, <1>x
        <5> QED
          BY <5>2, <5>3, <1>c DEF WordIndex
      <4>3. WordIndex(c, result_row, result_col) = WordIndex(c, c.rows - 1, c.n - 1)
              => result_row = c.rows - 1 /\ result_col = c.n - 1
        BY <1>2, <4>1, ResultPlacesDiffer
      <4> QED
        BY <4>2, <4>3 DEF AtLastWord
    <3>4. CASE ~MemAdvance(rdy)
      <4>1. result_row' = result_row /\ result_col' = result_col /\ clear_addr' = clear_addr
        BY <2>2, <3>4, <1>n DEF NextResultCol, NextResultRow, NextClearAddr
      <4>2. AtMost(y, R - 1) = AtMost(x, R - 1)
        BY <3>4, <3>1, <1>w, <1>c DEF AtMost
      <4>3. y > 0 => x > 0 /\ AtMost(y - 1, R - 2) = AtMost(x - 1, R - 2)
        BY <3>4, <3>1, <1>w, <1>c DEF AtMost
      <4>4. /\ result_row' \in 0..c.rows-1 /\ result_col' \in 0..c.n-1
            /\ WordIndex(c, result_row', result_col') = AtMost(y, R - 1)
        BY <1>2, <4>1, <4>2
      <4>5. y > 0 => AddrOfWord(c, AtMost(y - 1, R - 2), clear_addr')
        BY <1>2, <4>1, <4>3
      <4> QED
        BY <3>1, <3>2, <4>4, <4>5, <1>x DEF ReadoutAddresses, AddrOfWord, WordAddr, WordIndex, AtMost
    <3>5. CASE MemAdvance(rdy) /\ AtLastWord(c)
      <4>1. x = R - 1 /\ y = R
        BY <3>5, <3>3, <1>2, <1>w, <1>c DEF AtMost
      <4>2. result_row' = result_row /\ result_col' = result_col /\ clear_addr' = clear_addr
        BY <2>2, <3>5, <1>n DEF NextResultCol, NextResultRow, NextClearAddr, AtLastWord
      <4>3. AtMost(y, R - 1) = AtMost(x, R - 1) /\ AtMost(y - 1, R - 2) = AtMost(x - 1, R - 2) /\ x > 0
        BY <4>1, <1>c DEF AtMost
      <4>4. /\ result_row' \in 0..c.rows-1 /\ result_col' \in 0..c.n-1
            /\ WordIndex(c, result_row', result_col') = AtMost(y, R - 1)
        BY <1>2, <4>2, <4>3
      <4>5. y > 0 => AddrOfWord(c, AtMost(y - 1, R - 2), clear_addr')
        BY <1>2, <4>2, <4>3
      <4> QED
        BY <3>1, <3>2, <4>4, <4>5, <1>x DEF ReadoutAddresses, AddrOfWord, WordAddr, WordIndex, AtMost
    <3>6. CASE MemAdvance(rdy) /\ ~AtLastWord(c)
      <4>1. x < R - 1 /\ y = x + 1 /\ WordIndex(c, result_row, result_col) = x
        BY <3>6, <3>3, <1>2, <1>w, <1>c DEF AtMost
      <4>2. AtMost(y, R - 1) = x + 1 /\ AtMost(y - 1, R - 2) = x
        BY <4>1, <1>c DEF AtMost
      <4>3. clear_addr' = WordAddr(c, result_row, result_col)
        BY <2>2, <3>6, <1>n DEF NextClearAddr, ResultReadAddr, WordAddr
      <4>4. y > 0 => AddrOfWord(c, AtMost(y - 1, R - 2), clear_addr')
        BY <4>1, <4>2, <4>3, <1>2 DEF AddrOfWord
      <4>5. /\ result_row' \in 0..c.rows-1 /\ result_col' \in 0..c.n-1
            /\ WordIndex(c, result_row', result_col') = x + 1
        <5>1. CASE result_col = c.n - 1
          <6>1. result_row # c.rows - 1
            BY <5>1, <3>6 DEF AtLastWord
          <6>2. result_col' = 0 /\ result_row' = result_row + 1
            BY <5>1, <6>1, <3>6, <2>2, <1>n DEF NextResultCol, NextResultRow
          <6>3. (result_row + 1) * c.n = result_row * c.n + c.n /\ result_row * c.n \in Int
            BY <1>2, <1>c, NextMultiple
          <6>4. WordIndex(c, result_row + 1, 0) = WordIndex(c, result_row, result_col) + 1
            <7> DEFINE w == result_row * c.n
            <7>1. (result_row + 1) * c.n = w + c.n /\ w \in Int
              BY <6>3
            <7>2. WordIndex(c, result_row, result_col) = w + (c.n - 1)
              BY <5>1 DEF WordIndex
            <7>3. WordIndex(c, result_row + 1, 0) = (w + c.n) + 0
              BY <7>1 DEF WordIndex
            <7> HIDE DEF w
            <7> QED
              BY <7>1, <7>2, <7>3, <1>c
          <6> QED
            BY <6>1, <6>2, <6>4, <4>1, <1>2, <1>c
        <5>2. CASE result_col # c.n - 1
          <6>1. c.n # 1
            BY <5>2, <1>2, <1>c
          <6>2. result_col' = result_col + 1 /\ result_row' = result_row
            BY <5>2, <6>1, <3>6, <2>2, <1>n DEF NextResultCol, NextResultRow
          <6>3. WordIndex(c, result_row, result_col + 1) = WordIndex(c, result_row, result_col) + 1
            <7>1. result_row * c.n \in Int
              BY <1>2, <1>c
            <7> QED
              BY <7>1, <1>2 DEF WordIndex
          <6> QED
            BY <6>2, <6>3, <5>2, <4>1, <1>2, <1>c
        <5> QED
          BY <5>1, <5>2
      <4> QED
        BY <3>1, <3>2, <4>2, <4>4, <4>5, <1>x DEF ReadoutAddresses, AddrOfWord, WordAddr, WordIndex, AtMost
    <3> QED
      BY <3>4, <3>5, <3>6
  <2> QED
    BY <2>1, <2>2
<1> QED
  BY <1>1, <1>2, <1>a

\* While words remain, the read address is that of word x of the result.
LEMMA ReadoutReads ==
  ASSUME NEW c, IsConfig(c), NEW x \in 0..ResultWords(c), NEW i,
         i = AtMost(x, ResultWords(c) - 1),
         ReadoutAddresses(c, x), ReadoutMemory(c, x)
  PROVE  Complete(c, i, AccumWord(ResultReadAddr(c)))
<1>c. ResultWords(c) \in Nat /\ ResultWords(c) >= 2 /\ x \in Nat
  BY ResultSize
<1>1. /\ result_row \in 0..c.rows-1 /\ result_col \in 0..c.n-1
      /\ WordIndex(c, result_row, result_col) = i
  BY <1>c DEF ReadoutAddresses
<1>2. ResultReadAddr(c) = WordAddr(c, result_row, result_col)
  BY DEF ResultReadAddr, WordAddr
<1>3. accum_mem[WordAddr(c, result_row, result_col)] = Sums(c, result_col, result_row, c.k)
  <2>1. WordIndex(c, result_row, result_col) >= AtMost(x, ResultWords(c) - 1)
    <3>1. i \in Int
      BY <1>c DEF AtMost
    <3> QED
      BY <3>1, <1>1
  <2> QED
    BY <2>1, <1>1, <1>c DEF ReadoutMemory
<1>4. AccumWord(ResultReadAddr(c)) = Sums(c, result_col, result_row, c.k)
  BY <1>1, <1>2, <1>3, ResultPlaces DEF AccumWord
<1>5. ASSUME NEW m \in 0..c.rows-1, NEW nb \in 0..c.n-1, i = WordIndex(c, m, nb)
      PROVE  AccumWord(ResultReadAddr(c)) = Sums(c, nb, m, c.k)
  <2>1. m = result_row /\ nb = result_col
    BY <1>1, <1>5, ResultPlacesDiffer
  <2> QED
    BY <2>1, <1>4
<1> QED
  BY <1>5 DEF Complete

LEMMA ReadoutDataNext ==
  ASSUME NEW c, IsConfig(c), NEW x \in 0..ResultWords(c)+2, NEW rdy \in BOOLEAN,
         ReadingOut(c, x),
         results_expected = ResultWords(c), ~(x = ResultWords(c) + 2 /\ rdy),
         NEW p, OBClock(c, p, FALSE, rdy),
         NEW y, y = IF rdy THEN x + 1 ELSE x
  PROVE  ReadoutData(c, y)'
<1> DEFINE R == ResultWords(c)
<1>c. R \in Nat /\ R >= 2 /\ x \in Nat /\ x <= R + 2 /\ ~(x = R + 2 /\ rdy)
  BY ResultSize
<1>r. /\ mem_valid <=> x < R
      /\ mem_valid_d1 <=> x \in 1..R
      /\ mem_valid_d2 <=> x \in 2..R+1
  BY DEF ReadingOut, ReadoutFlags
<1>d. /\ x \in 1..R => Complete(c, x - 1, read_data)
      /\ x \in 2..R+1 => Complete(c, x - 2, mem_data_d1)
      /\ x >= 3 => /\ result_data = [acc |-> result_data.acc, shift |-> c.shift]
                   /\ Complete(c, x - 3, result_data.acc)
  BY DEF ReadingOut, ReadoutData
<1>x. R = ResultWords(c) /\ R' = ResultWords(c)
  BY DEF ResultWords
<1>e. \A i : x <= R /\ i = AtMost(x, R - 1) => Complete(c, i, AccumWord(ResultReadAddr(c)))
  <2> TAKE i
  <2> HAVE x <= R /\ i = AtMost(x, R - 1)
  <2>1. x \in 0..ResultWords(c) /\ ReadoutAddresses(c, x) /\ ReadoutMemory(c, x)
    BY <1>c DEF ReadingOut
  <2> QED
    BY <2>1, ReadoutReads
<1> HIDE DEF R
<1>1. ASSUME y \in 1..R PROVE Complete(c, y - 1, read_data')
  <2>1. read_data' = IF mem_valid /\ ~rdy THEN read_data ELSE AccumWord(MemReadAddr(c, p))
    BY DEF OBClock, NextReadData
  <2>2. CASE x < R /\ ~rdy
    BY <2>1, <2>2, <1>1, <1>r, <1>d, <1>c
  <2>3. CASE x < R /\ rdy
    <3>1. AtMost(x, R - 1) = x /\ x <= R /\ y - 1 = x
      BY <2>3, <1>c DEF AtMost
    <3>2. read_data' = AccumWord(ResultReadAddr(c))
      BY <2>1, <2>3, <1>r DEF MemReadAddr
    <3> QED
      BY <3>1, <3>2, <1>e
  <2>4. CASE x >= R
    <3>1. x = R /\ y = R
      BY <2>4, <1>1, <1>c
    <3>2. AtMost(x, R - 1) = R - 1 /\ x <= R
      BY <3>1, <1>c DEF AtMost
    <3>3. mem_valid_d2 /\ ~mem_valid
      BY <3>1, <1>r, <1>c
    <3>4. read_data' = AccumWord(ResultReadAddr(c))
      BY <2>1, <3>3 DEF MemReadAddr
    <3> QED
      BY <3>1, <3>2, <3>4, <1>e
  <2> QED
    BY <2>2, <2>3, <2>4, <1>c
<1>2. ASSUME y \in 2..R+1 PROVE Complete(c, y - 2, mem_data_d1')
  <2>1. mem_data_d1' = IF mem_valid_d1 /\ rdy THEN read_data ELSE mem_data_d1
    BY DEF OBClock
  <2>2. CASE rdy
    <3>1. x \in 1..R /\ y - 2 = x - 1
      BY <2>2, <1>2, <1>c
    <3> QED
      BY <2>1, <2>2, <3>1, <1>r, <1>d
  <2>3. CASE ~rdy
    BY <2>1, <2>3, <1>2, <1>d
  <2> QED
    BY <2>2, <2>3
<1>3. ASSUME y >= 3
      PROVE  /\ result_data' = [acc |-> result_data'.acc, shift |-> c.shift]
             /\ Complete(c, y - 3, result_data'.acc)
  <2>1. result_data' = IF mem_valid_d2 /\ rdy
                       THEN [acc |-> mem_data_d1, shift |-> c.shift] ELSE result_data
    BY DEF OBClock
  <2>2. CASE rdy
    <3>1. x \in 2..R+1 /\ y - 3 = x - 2
      BY <2>2, <1>3, <1>c
    <3>2. result_data' = [acc |-> mem_data_d1, shift |-> c.shift]
      BY <2>1, <2>2, <3>1, <1>r
    <3>3. result_data'.acc = mem_data_d1
      BY <3>2
    <3> QED
      BY <3>1, <3>2, <3>3, <1>d
  <2>3. CASE ~rdy
    BY <2>1, <2>3, <1>3, <1>d
  <2> QED
    BY <2>2, <2>3
<1>4. ReadoutData(c, y)' <=>
        /\ y \in 1..R => Complete(c, y - 1, read_data')
        /\ y \in 2..R+1 => Complete(c, y - 2, mem_data_d1')
        /\ y >= 3 => /\ result_data' = [acc |-> result_data'.acc, shift |-> c.shift]
                     /\ Complete(c, y - 3, result_data'.acc)
  BY <1>x DEF ReadoutData, Complete, WordIndex, Sums, RowSum, Tile, WeightWord, Beats, ReplayBeats
<1> QED
  BY <1>1, <1>2, <1>3, <1>4

LEMMA ReadoutMemoryNext ==
  ASSUME NEW c, IsConfig(c), NEW x \in 0..ResultWords(c)+2, NEW rdy \in BOOLEAN,
         ReadingOut(c, x), Memories,
         results_expected = ResultWords(c), ~(x = ResultWords(c) + 2 /\ rdy),
         NEW p, ~p.valid, OBClock(c, p, FALSE, rdy),
         NEW y, y = IF rdy THEN x + 1 ELSE x
  PROVE  ReadoutMemory(c, y)'
<1> DEFINE R == ResultWords(c)
<1>c. /\ R \in Nat /\ R >= 2 /\ x \in Nat /\ x <= R + 2 /\ y \in Nat /\ x <= y
      /\ OutputDepth \in Nat /\ R <= OutputDepth
  BY ResultSize
<1>r. /\ mem_valid_d1 <=> x \in 1..R
      /\ result_valid <=> x >= 3
  BY DEF ReadingOut, ReadoutFlags
<1>m. /\ \A m \in 0..c.rows-1, nb \in 0..c.n-1 :
           /\ x <= R /\ WordIndex(c, m, nb) >= AtMost(x, R - 1)
                => accum_mem[WordAddr(c, m, nb)] = Sums(c, nb, m, c.k)
           /\ WordIndex(c, m, nb) <= AtMost(x, R) - 2
                => accum_mem[WordAddr(c, m, nb)] = Zero
      /\ \A a \in 0..OutputDepth-1 : a >= R => accum_mem[a] = Zero
  BY DEF ReadingOut, ReadoutMemory, Unused
<1>a. x > 0 /\ x <= R => AddrOfWord(c, AtMost(x - 1, R - 2), clear_addr)
  BY <1>c DEF ReadingOut, ReadoutAddresses
<1>w. accum_mem' = IF ClearWord(rdy) THEN [accum_mem EXCEPT ![clear_addr] = Zero] ELSE accum_mem
  BY DEF OBClock, NextAccumMem
<1>x. DOMAIN accum_mem = 0..OutputDepth-1
  BY DEF Memories
<1>z. \A a \in 0..OutputDepth-1 : accum_mem[a] = Zero => accum_mem'[a] = Zero
  BY <1>w, <1>x
<1>p. \A m \in 0..c.rows-1, nb \in 0..c.n-1 :
        /\ WordAddr(c, m, nb) \in 0..OutputDepth-1
        /\ WordIndex(c, m, nb) \in 0..R-1
  BY ResultPlaces
<1>i. \A m \in 0..c.rows-1, nb \in 0..c.n-1 : \A m1 \in 0..c.rows-1, nb1 \in 0..c.n-1 :
        /\ WordAddr(c, m, nb) = WordAddr(c, m1, nb1) => m = m1 /\ nb = nb1
        /\ WordIndex(c, m, nb) = WordIndex(c, m1, nb1) => m = m1 /\ nb = nb1
  BY ResultPlacesDiffer
<1>y. R = ResultWords(c) /\ R' = ResultWords(c)
  BY DEF ResultWords
<1> HIDE DEF R
<1>1. ASSUME NEW m \in 0..c.rows-1, NEW nb \in 0..c.n-1,
             y <= R, WordIndex(c, m, nb) >= AtMost(y, R - 1)
      PROVE  accum_mem'[WordAddr(c, m, nb)] = Sums(c, nb, m, c.k)
  <2>0. WordIndex(c, m, nb) \in Int
    BY <1>p
  <2>1. x <= R /\ WordIndex(c, m, nb) >= AtMost(x, R - 1)
    BY <2>0, <1>1, <1>c DEF AtMost
  <2>2. accum_mem[WordAddr(c, m, nb)] = Sums(c, nb, m, c.k)
    BY <2>1, <1>m
  <2>3. CASE x = 0
    <3>1. ~ClearWord(rdy)
      BY <2>3, <1>r, <1>c DEF ClearWord
    <3> QED
      BY <3>1, <2>2, <1>w
  <2>4. CASE x > 0
    <3>1. WordIndex(c, m, nb) # AtMost(x - 1, R - 2)
      BY <2>0, <2>1, <2>4, <1>c DEF AtMost
    <3>2. PICK m1 \in 0..c.rows-1, nb1 \in 0..c.n-1 :
            AtMost(x - 1, R - 2) = WordIndex(c, m1, nb1) /\ clear_addr = WordAddr(c, m1, nb1)
      BY <2>1, <2>4, <1>a DEF AddrOfWord
    <3>3. WordAddr(c, m, nb) # clear_addr
      <4> SUFFICES ASSUME WordAddr(c, m, nb) = WordAddr(c, m1, nb1) PROVE FALSE
        BY <3>2
      <4>1. m = m1 /\ nb = nb1
        BY <1>i
      <4> QED
        BY <4>1, <3>1, <3>2
    <3> QED
      BY <3>3, <2>2, <1>w, <1>x, <1>p
  <2> QED
    BY <2>3, <2>4, <1>c
<1>2. ASSUME NEW m \in 0..c.rows-1, NEW nb \in 0..c.n-1,
             WordIndex(c, m, nb) <= AtMost(y, R) - 2
      PROVE  accum_mem'[WordAddr(c, m, nb)] = Zero
  <2>0. WordIndex(c, m, nb) \in Int /\ WordIndex(c, m, nb) >= 0
    BY <1>p, <1>c
  <2>1. CASE WordIndex(c, m, nb) <= AtMost(x, R) - 2
    BY <2>1, <1>m, <1>z, <1>p
  <2>2. CASE ~(WordIndex(c, m, nb) <= AtMost(x, R) - 2)
    <3>1. x < R /\ y = x + 1 /\ WordIndex(c, m, nb) = x - 1 /\ x > 0
      BY <2>0, <2>2, <1>2, <1>c DEF AtMost
    <3>2. AtMost(x - 1, R - 2) = x - 1 /\ ClearWord(rdy)
      BY <3>1, <1>c, <1>r DEF AtMost, ClearWord
    <3>a. AddrOfWord(c, x - 1, clear_addr)
      <4>1. x > 0 /\ x <= R
        BY <3>1, <1>c
      <4> QED
        BY <4>1, <3>2, <1>a
    <3>3. PICK m1 \in 0..c.rows-1, nb1 \in 0..c.n-1 :
            x - 1 = WordIndex(c, m1, nb1) /\ clear_addr = WordAddr(c, m1, nb1)
      BY <3>a DEF AddrOfWord
    <3>4. m = m1 /\ nb = nb1
      BY <3>1, <3>3, <1>i
    <3> QED
      BY <3>2, <3>3, <3>4, <1>w, <1>x, <1>p
  <2> QED
    BY <2>1, <2>2
<1>3. \A a \in 0..OutputDepth-1 : a >= R => accum_mem'[a] = Zero
  BY <1>m, <1>z
<1>4. ReadoutMemory(c, y)' <=>
        /\ \A m \in 0..c.rows-1, nb \in 0..c.n-1 :
             /\ y <= R /\ WordIndex(c, m, nb) >= AtMost(y, R - 1)
                  => accum_mem'[WordAddr(c, m, nb)] = Sums(c, nb, m, c.k)
             /\ WordIndex(c, m, nb) <= AtMost(y, R) - 2
                  => accum_mem'[WordAddr(c, m, nb)] = Zero
        /\ \A a \in 0..OutputDepth-1 : a >= R => accum_mem'[a] = Zero
  BY <1>y DEF ReadoutMemory, Unused, AtMost
<1> QED
  BY <1>1, <1>2, <1>3, <1>4

\* One clock of the readout.
LEMMA ReadoutNext ==
  ASSUME NEW c, IsConfig(c), NEW x \in 0..ResultWords(c)+2, NEW rdy \in BOOLEAN,
         ReadingOut(c, x), Memories,
         results_expected = ResultWords(c), ~(x = ResultWords(c) + 2 /\ rdy),
         NEW p, ~p.valid, OBClock(c, p, FALSE, rdy),
         received' = IF result_valid /\ rdy THEN received + 1 ELSE received,
         NEW y, y = IF rdy THEN x + 1 ELSE x
  PROVE  ReadingOut(c, y)'
<1>1. /\ ReadoutFlags(c, x) /\ ReadoutCounters(c, x) /\ ReadoutAddresses(c, x)
  BY DEF ReadingOut
<1>2. ReadoutFlags(c, y)'
  BY <1>1, ReadoutFlagsNext
<1>3. ReadoutCounters(c, y)'
  BY <1>1, ReadoutCountersNext
<1>4. ReadoutAddresses(c, y)'
  BY <1>1, ReadoutAddressesNext
<1>5. ReadoutData(c, y)'
  BY ReadoutDataNext
<1>6. ReadoutMemory(c, y)'
  BY ReadoutMemoryNext
<1> QED
  BY <1>2, <1>3, <1>4, <1>5, <1>6 DEF ReadingOut

\* After the last K block the readout is requested, and starts when the result
\* stream is ready.
LEMMA ReadoutRequested ==
  ASSUME NEW c, IsConfig(c), NEW rdy \in BOOLEAN, Accumulating(c, c.k, 0),
         results_expected = ResultWords(c),
         NEW p, ~p.valid, OBClock(c, p, FALSE, rdy), received' = received
  PROVE  ReadoutAwaited(c)'
<1>c. c.k \in Nat /\ c.k >= 1 /\ results_expected # 0
  BY ConfigSize, ResultSize
<1>r. ReadoutAtRest /\ k_block_done = c.k /\ accum_write_addr = 0 /\ result_count = 0 /\ received = 0
  BY DEF Accumulating
<1>1. AllKBlocksDone(c)
  BY <1>r, <1>c DEF AllKBlocksDone
<1>2. /\ start_result' /\ ~mem_valid' /\ ~mem_valid_d1' /\ ~mem_valid_d2' /\ ~result_valid'
      /\ mem_count' = 0 /\ mem_count_d1' = 0 /\ result_col' = 0 /\ result_row' = 0
      /\ accum_mem' = accum_mem
  BY <1>r, <1>1, OBRests
<1>3. k_block_done' = 0 /\ accum_write_addr' = 0
  BY <1>1, <1>r DEF OBClock, NextKBlockDone, NextAccumWriteAddr
<1>4. result_count' = 0 /\ received' = 0
  BY <1>r, <1>c DEF OBClock, NextResultCount, ReadoutAtRest
<1>5. Accumulated(c, c.k, 0)'
  BY <1>2 DEF Accumulating, Accumulated, Unused
<1> QED
  BY <1>2, <1>3, <1>4, <1>5 DEF ReadoutAwaited

LEMMA ReadoutStarts ==
  ASSUME NEW c, IsConfig(c), NEW rdy \in BOOLEAN, ReadoutAwaited(c),
         results_expected = ResultWords(c),
         NEW p, ~p.valid, OBClock(c, p, FALSE, rdy), received' = received
  PROVE  IF rdy THEN ReadingOut(c, 0)' ELSE ReadoutAwaited(c)'
<1> DEFINE R == ResultWords(c)
<1>c. c.k \in Nat /\ c.k >= 1 /\ R \in Nat /\ R >= 2 /\ results_expected = R
  BY ConfigSize, ResultSize
<1>s. c.rows \in Nat /\ c.rows >= 2 /\ c.n \in Nat /\ c.n >= 1
  BY ConfigSize
<1>r. /\ start_result /\ ~mem_valid /\ ~mem_valid_d1 /\ ~mem_valid_d2 /\ ~result_valid
      /\ mem_count = 0 /\ mem_count_d1 = 0 /\ result_col = 0 /\ result_row = 0
      /\ result_count = 0 /\ received = 0 /\ k_block_done = 0 /\ accum_write_addr = 0
  BY DEF ReadoutAwaited
<1>x. R = ResultWords(c) /\ R' = ResultWords(c)
  BY DEF ResultWords
<1> HIDE DEF R
<1>1. ~AllKBlocksDone(c) /\ ~MemAdvance(rdy) /\ ~OutputEnd /\ ~ClearWord(rdy)
  BY <1>r, <1>c DEF AllKBlocksDone, MemAdvance, OutputEnd, ClearWord
<1>2. /\ start_result' /\ (mem_valid' <=> rdy)
      /\ ~mem_valid_d1' /\ ~mem_valid_d2' /\ ~result_valid'
  BY <1>r, <1>1 DEF OBClock, NextStartResult, NextMemValid, NextMemValidD1, NextResultValid
<1>3. mem_count' = 0 /\ mem_count_d1' = 0 /\ result_count' = 0
  BY <1>r, <1>1 DEF OBClock, NextMemCount, NextMemCountD1, NextResultCount
<1>4. result_col' = 0 /\ result_row' = 0
  BY <1>r, <1>1 DEF OBClock, NextResultCol, NextResultRow
<1>5. k_block_done' = 0 /\ accum_write_addr' = 0
  BY <1>r, <1>1 DEF OBClock, NextKBlockDone, NextAccumWriteAddr
<1>6. accum_mem' = accum_mem
  BY <1>1 DEF OBClock, NextAccumMem
<1>7. Accumulated(c, c.k, 0)'
  BY <1>6 DEF ReadoutAwaited, Accumulated, Unused
<1>8. CASE ~rdy
  BY <1>8, <1>r, <1>2, <1>3, <1>4, <1>5, <1>7 DEF ReadoutAwaited
<1>9. CASE rdy
  <2>1. ReadoutFlags(c, 0)'
    BY <1>9, <1>2, <1>c, <1>x DEF ReadoutFlags
  <2>2. ReadoutCounters(c, 0)'
    BY <1>r, <1>3, <1>5, <1>c, <1>x DEF ReadoutCounters
  <2>3. ReadoutAddresses(c, 0)'
    <3>1. WordIndex(c, 0, 0) = 0
      BY <1>s DEF WordIndex
    <3>2. AtMost(0, R - 1) = 0
      BY <1>c DEF AtMost
    <3>3. 0 \in 0..c.rows-1 /\ 0 \in 0..c.n-1 /\ 0 <= R + 1 /\ ~(0 > 0)
      BY <1>s, <1>c
    <3> QED
      BY <1>3, <1>4, <1>x, <3>1, <3>2, <3>3 DEF ReadoutAddresses, WordIndex, AtMost
  <2>4. ReadoutData(c, 0)'
    BY <1>c, <1>x DEF ReadoutData
  <2>5. ReadoutMemory(c, 0)'
    <3>1. \A m \in 0..c.rows-1, nb \in 0..c.n-1 :
            accum_mem'[WordAddr(c, m, nb)] = Sums(c, nb, m, c.k)
      <4> TAKE m \in 0..c.rows-1, nb \in 0..c.n-1
      <4>1. ~(WordAddr(c, m, nb) < 0)
        BY ResultPlaces
      <4> QED
        BY <4>1, <1>7 DEF Accumulated
    <3>2. \A m \in 0..c.rows-1, nb \in 0..c.n-1 : ~(WordIndex(c, m, nb) <= AtMost(0, R) - 2)
      <4> TAKE m \in 0..c.rows-1, nb \in 0..c.n-1
      <4>1. WordIndex(c, m, nb) \in 0..R-1
        BY ResultPlaces, <1>x
      <4> QED
        BY <4>1, <1>c DEF AtMost
    <3> QED
      BY <3>1, <3>2, <1>7, <1>x DEF Accumulated, ReadoutMemory, WordIndex, AtMost
  <2> QED
    BY <1>9, <2>1, <2>2, <2>3, <2>4, <2>5 DEF ReadingOut
<1> QED
  BY <1>8, <1>9

\* The word of the last row and N block is the last in both orders.
LEMMA LastWord ==
  ASSUME NEW c, IsConfig(c)
  PROVE  /\ c.rows - 1 \in 0..c.rows-1 /\ c.n - 1 \in 0..c.n-1
         /\ WordIndex(c, c.rows - 1, c.n - 1) = ResultWords(c) - 1
         /\ WordAddr(c, c.rows - 1, c.n - 1) = ResultWords(c) - 1
<1>1. \A X, Y \in Nat \ {0} : (X - 1) * Y + (Y - 1) = X * Y - 1
  <2> TAKE X \in Nat \ {0}, Y \in Nat \ {0}
  <2>1. ((X - 1) + 1) * Y = (X - 1) * Y + Y
    BY NextMultiple
  <2>2. (X - 1) + 1 = X /\ (X - 1) * Y \in Int /\ X * Y \in Int
    OBVIOUS
  <2> QED
    BY <2>1, <2>2
<1>2. c.rows \in Nat \ {0} /\ c.n \in Nat \ {0}
  BY ConfigSize
<1>3. ResultWords(c) = c.rows * c.n /\ ResultWords(c) = c.n * c.rows
  BY ResultSize
<1> QED
  BY <1>1, <1>2, <1>3 DEF WordIndex, WordAddr

\* With the last result word the memory is empty again.
LEMMA ReadoutEnds ==
  ASSUME NEW c, IsConfig(c), ReadingOut(c, ResultWords(c) + 2), Memories,
         results_expected = ResultWords(c),
         NEW p, ~p.valid, OBClock(c, p, FALSE, TRUE), received' = 0
  PROVE  OutputAtRest' /\ result_valid /\ ResultLast
<1> DEFINE R == ResultWords(c)
<1> DEFINE x == R + 2
<1>c. /\ c.k \in Nat /\ c.k >= 1 /\ R \in Nat /\ R >= 2 /\ results_expected = R /\ x \in Nat
      /\ x = R + 2 /\ OutputDepth \in Nat /\ R <= OutputDepth
  BY ConfigSize, ResultSize
<1>f. /\ start_result => x = 0
      /\ mem_valid <=> x < R
      /\ mem_valid_d1 <=> x \in 1..R
      /\ mem_valid_d2 <=> x \in 2..R+1
      /\ result_valid <=> x >= 3
  BY DEF ReadingOut, ReadoutFlags
<1>m. /\ (mem_count = x /\ x <= R) \/ (mem_count = 0 /\ x >= R)
      /\ result_count = IF x < 3 THEN 0 ELSE x - 3
      /\ received = result_count /\ k_block_done = 0 /\ accum_write_addr = 0
  BY DEF ReadingOut, ReadoutCounters
<1>d. /\ mem_count_d1 = 0 /\ result_row = 0 /\ result_col = 0
      /\ clear_addr = R - 1
  BY <1>c DEF ReadingOut, ReadoutAddresses
<1>z. /\ \A m \in 0..c.rows-1, nb \in 0..c.n-1 :
           WordIndex(c, m, nb) <= AtMost(x, R) - 2 => accum_mem[WordAddr(c, m, nb)] = Zero
      /\ \A a \in 0..OutputDepth-1 : a >= R => accum_mem[a] = Zero
  BY DEF ReadingOut, ReadoutMemory, Unused
<1>y. R = ResultWords(c) /\ results_expected' = R
  BY DEF OBClock, ResultWords
<1> HIDE DEF R, x
<1>r. /\ ~start_result /\ ~mem_valid /\ ~mem_valid_d1 /\ ~mem_valid_d2 /\ result_valid
      /\ mem_count = 0 /\ result_count = R - 1
  BY <1>c, <1>f, <1>m
<1>1. ~AllKBlocksDone(c) /\ ~MemAdvance(TRUE) /\ ~OutputEnd /\ ClearWord(TRUE)
  BY <1>r, <1>m, <1>d, <1>c DEF AllKBlocksDone, MemAdvance, OutputEnd, ClearWord
<1>2. ~start_result' /\ ~mem_valid' /\ ~mem_valid_d1' /\ ~mem_valid_d2' /\ ~result_valid'
  BY <1>r, <1>1 DEF OBClock, NextStartResult, NextMemValid, NextMemValidD1, NextResultValid
<1>3. mem_count' = 0 /\ mem_count_d1' = 0 /\ result_col' = 0 /\ result_row' = 0
  BY <1>r, <1>d, <1>1 DEF OBClock, NextMemCount, NextMemCountD1, NextResultCol, NextResultRow
<1>4. result_count' = results_expected'
  <2>1. result_count' = NextResultCount(TRUE)
    BY DEF OBClock
  <2> QED
    BY <2>1, <1>r, <1>c, <1>y DEF NextResultCount
<1>5. k_block_done' = 0 /\ accum_write_addr' = 0
  BY <1>m, <1>1 DEF OBClock, NextKBlockDone, NextAccumWriteAddr
<1>6. accum_mem' = [accum_mem EXCEPT ![R - 1] = Zero]
  BY <1>1, <1>d DEF OBClock, NextAccumMem
<1>w. \A a \in 0..OutputDepth-1 : a # R - 1 => accum_mem[a] = Zero
  <2> SUFFICES ASSUME NEW a \in 0..OutputDepth-1, a # R - 1, a < R
               PROVE  accum_mem[a] = Zero
    BY <1>z, <1>c
  <2>1. a \in 0..ResultWords(c)-1
    BY <1>y, <1>c
  <2>2. PICK m \in 0..c.rows-1, nb \in 0..c.n-1 : a = WordAddr(c, m, nb)
    BY <2>1, ResultPlacesCover
  <2>3. WordIndex(c, m, nb) # R - 1
    <3> SUFFICES ASSUME WordIndex(c, m, nb) = R - 1 PROVE FALSE
      OBVIOUS
    <3>1. m = c.rows - 1 /\ nb = c.n - 1
      BY LastWord, ResultPlacesDiffer, <1>y
    <3> QED
      BY <3>1, <2>2, LastWord, <1>y
  <2>4. WordIndex(c, m, nb) \in 0..R-1
    BY ResultPlaces, <1>y
  <2>5. WordIndex(c, m, nb) <= AtMost(x, R) - 2
    BY <2>3, <2>4, <1>c DEF AtMost
  <2> QED
    BY <2>2, <2>5, <1>z
<1>7. AllZero'
  <2>1. DOMAIN accum_mem = 0..OutputDepth-1
    BY DEF Memories
  <2> QED
    BY <2>1, <1>6, <1>w DEF AllZero
<1>8. read_data' = Zero
  <2>1. read_data' = AccumWord(0)
    BY <1>r, <1>m DEF OBClock, NextReadData, MemReadAddr, AccumReadAddr
  <2>2. 0 # R - 1
    BY <1>c
  <2> QED
    BY <2>1, <2>2, <1>w DEF AccumWord
<1>9. ResultLast
  BY <1>r, <1>c DEF ResultLast
<1> QED
  BY <1>2, <1>3, <1>4, <1>5, <1>7, <1>8, <1>9, <1>r DEF OutputAtRest, ReadoutAtRest

-----------------------------------------------------------------------------
(* One clock of a running job, phase by phase *)

\* What a clock does with the beats of job c: in are the words the host
\* offers, rdy says whether it takes a result word.
DataClock(c, in, rdy) ==
  /\ IBClock(c, in, PartialLast, FeederReady)
  /\ BFClock(c)
  /\ OBClock(c, PartialOut, PartialLast, rdy)
  /\ \A ch \in Channels : in[ch].valid =>
       /\ sent[ch] < StreamWords(c, ch) /\ in[ch].data = <<c.shift, sent[ch]>>
       /\ in[ch].last <=> sent[ch] = StreamWords(c, ch) - 1
  /\ \A ch \in Channels :
       sent'[ch] = IF StreamAccept(in, ch) THEN sent[ch] + 1 ELSE sent[ch]
  /\ received' = IF result_valid /\ rdy THEN received + 1 ELSE received

\* Nothing leaves a feeder at rest.
LEMMA RestClock ==
  ASSUME NEW c, NEW in, NEW rdy, NEW flag, FeederAtRest(flag), DataClock(c, in, rdy)
  PROVE  /\ IBClock(c, in, FALSE, FeederReady) /\ BFClock(c)
         /\ OBClock(c, PartialOut, FALSE, rdy) /\ ~PartialOut.valid
<1>1. ~PartialLast /\ ~PartialValid
  BY RestIsSilent
<1>2. (PartialLast) = FALSE
  BY <1>1 DEF PartialLast
<1> QED
  BY <1>1, <1>2 DEF DataClock, PartialValid

LEMMA NothingAhead ==
  ASSUME NEW c, IsConfig(c), Running(c), NoTileStored
  PROVE  ~StartAhead /\ ~BothFull
<1>1. \A ch \in Channels : tile_count[ch] # total_words[ch]
  BY RunningSizes, ConfigSize DEF NoTileStored
<1> QED
  BY <1>1 DEF StartAhead, BothFull, Channels

LEMMA NotStored ==
  ASSUME NEW c, IsConfig(c), Running(c), NothingWritten
  PROVE  ~AllWordsStored
BY RunningSizes DEF NothingWritten, AllWordsStored, Channels

\* After the last beat of the job the stream memories stand still.
LEMMA AllStoredNext ==
  ASSUME NEW c, IsConfig(c), NEW in, NEW rdy, ib_state # "IN_DATA", AllStored(c),
         DataClock(c, in, rdy)
  PROVE  AllStored(c)'
<1>1. /\ NothingWritten'
      /\ \A ch \in Channels : buffer_mem'[ch] = buffer_mem[ch]
      /\ \A ch \in Channels : ~StreamAccept(in, ch)
  BY IBKeepsWords DEF AllStored, DataClock
<1>2. \A ch \in Channels : sent'[ch] = sent[ch]
  BY <1>1 DEF DataClock
<1> QED
  BY <1>1, <1>2 DEF AllStored, Stored, StreamWords, Beats, ReplayBeats

LEMMA LoadNext ==
  ASSUME NEW c, IsConfig(c), NEW in, NEW rdy \in BOOLEAN, Memories, Running(c),
         LoadPhase(c), DataClock(c, in, rdy)
  PROVE  LoadPhase(c)' \/ FillPhase(c, 0, 0)'
<1>r. /\ Loading(c) /\ FeederAtRest(FALSE) /\ NoTileStored /\ ~both_full_d1
      /\ JobStarted /\ Accumulating(c, 0, 0) /\ PrefetchFresh
  BY DEF LoadPhase
<1>c. /\ results_expected = ResultWords(c) /\ 0 \in 0..c.k-1 /\ 0 \in Nat
      /\ \A ch \in Channels : Beats(c, ch) \in Nat /\ Beats(c, ch) >= 2
  BY RunningSizes, ConfigSize
<1>1. /\ IBClock(c, in, FALSE, FeederReady) /\ BFClock(c)
      /\ OBClock(c, PartialOut, FALSE, rdy) /\ ~PartialOut.valid
  BY <1>r, RestClock
<1>2. ~StartAhead /\ ~BothFull
  BY <1>r, NothingAhead
<1>3. FeederAtRest(FALSE)' /\ ~both_full_d1'
  <2>1. FeederAtRest(FALSE)'
    BY <1>1, <1>2, <1>r, FeederRests
  <2>2. both_full_d1' = BothFull
    BY <1>1 DEF BFClock
  <2> QED
    BY <2>1, <2>2, <1>2
<1>4. NoTileStored'
  BY <1>1, <1>r, NothingToStore DEF Loading, NothingReplayed
<1>5. received' = received
  BY <1>r DEF DataClock, Accumulating, ReadoutAtRest
<1>6. Accumulating(c, 0, 0)' /\ PrefetchFresh'
  BY <1>1, <1>5, <1>r, <1>c, AccumulatingIdles
<1>7. \A ch \in Channels : in[ch].valid =>
         /\ sent[ch] < StreamWords(c, ch) /\ in[ch].data = <<c.shift, sent[ch]>>
         /\ in[ch].last <=> sent[ch] = StreamWords(c, ch) - 1
  BY DEF DataClock
<1>8. \A ch \in Channels :
         sent'[ch] = IF StreamAccept(in, ch) THEN sent[ch] + 1 ELSE sent[ch]
  BY DEF DataClock
<1>9. CASE ~AllWordsStored
  <2>1. Loading(c)'
    BY <1>1, <1>7, <1>8, <1>9, <1>r, IBLoads
  <2>2. JobStarted'
    <3>1. \A ch \in Channels : sent[ch] \in Nat
      BY <1>r, StreamSize DEF Loading
    <3>2. PICK ch \in Channels : sent[ch] > 0
      BY <1>r DEF JobStarted
    <3>3. sent'[ch] > 0
      BY <3>1, <3>2, <1>8
    <3> QED
      BY <3>3 DEF JobStarted, Channels
  <2> QED
    BY <2>1, <2>2, <1>3, <1>4, <1>6 DEF LoadPhase
<1>10. CASE AllWordsStored
  <2>1. AllStored(c)' /\ Replaying(c, 0, 0)'
    <3>1. \A ch \in Channels : in[ch].valid => sent[ch] < StreamWords(c, ch)
      BY <1>7
    <3> QED
      BY <3>1, <1>1, <1>8, <1>10, <1>r, IBLoaded
  <2>2. Filling(c, 0, 0)'
    <3>1. \A ch \in Channels : tile_count'[ch] = 0 /\ tile_addr'[ch] = 0
      BY <1>4 DEF NoTileStored
    <3>2. \A ch \in Channels : (IF 0 < Beats(c, ch) THEN 0 ELSE Beats(c, ch)) = 0 /\ Beats(c, ch)' = Beats(c, ch)
      BY <1>c DEF Beats, ReplayBeats
    <3>3. \A a : a \notin 0..0-1
      OBVIOUS
    <3>4. (0 = 0 /\ 0 > 0) = FALSE
      OBVIOUS
    <3> QED
      BY <1>3, <3>1, <3>2, <3>3, <3>4 DEF Filling, TileStored
  <2> QED
    BY <2>1, <2>2, <1>6 DEF FillPhase
<1> QED
  BY <1>9, <1>10

LEMMA FillNext ==
  ASSUME NEW c, IsConfig(c), NEW in, NEW rdy \in BOOLEAN, Memories, Running(c),
         NEW b \in 0..c.k-1, NEW i \in 0..FillClocks(c),
         FillPhase(c, b, i), DataClock(c, in, rdy)
  PROVE  IF i = FillClocks(c) THEN TilePhase(c, b, 0, 0)' ELSE FillPhase(c, b, i + 1)'
<1>r. /\ AllStored(c) /\ Replaying(c, b, i) /\ Filling(c, b, i) /\ Accumulating(c, b, 0)
      /\ \E flag \in BOOLEAN : FeederAtRest(flag)
      /\ ib_state = "CAL" /\ NothingWritten
      /\ \A ch \in Channels : tile_count[ch] = IF i < Beats(c, ch) THEN i ELSE Beats(c, ch)
  BY DEF FillPhase, Filling, Replaying, AllStored
<1>c. /\ results_expected = ResultWords(c) /\ 0 \in Nat /\ i \in Nat /\ FillClocks(c) \in Nat
      /\ \A ch \in Channels : total_words[ch] = Beats(c, ch)
      /\ words_expected["weight"] = StreamWords(c, "weight")
      /\ \A ch \in Channels : Beats(c, ch) \in Nat /\ Beats(c, ch) >= 2
      /\ 0 \in 0..c.n-1
  BY RunningSizes, ConfigSize, FillSize DEF Channels
<1>1. /\ IBClock(c, in, FALSE, FeederReady) /\ BFClock(c)
      /\ OBClock(c, PartialOut, FALSE, rdy) /\ ~PartialOut.valid
  BY <1>r, RestClock
<1>2. ~AllWordsStored
  BY <1>r, NotStored
<1>3. \A ch \in Channels : i < Beats(c, ch) => FeederReady[ch]
  <2> TAKE ch \in Channels
  <2> HAVE i < Beats(c, ch)
  <2>1. total_words[ch] # 0 /\ tile_count[ch] < total_words[ch]
    BY <1>r, <1>c
  <2> QED
    BY <2>1 DEF FeederReady, TileReady
<1>4. AllStored(c)'
  BY <1>r, AllStoredNext
<1>5. Replaying(c, b, i + 1)'
  <2>1. \A ch \in Channels : Stored(c, ch, StreamWords(c, ch))
    BY <1>r DEF AllStored
  <2> QED
    BY <2>1, <1>1, <1>2, <1>3, <1>c, <1>r, IBReplays
<1>6. received' = received
  BY <1>r DEF DataClock, Accumulating, ReadoutAtRest
<1>7. Accumulating(c, b, 0)' /\ PrefetchFresh'
  BY <1>1, <1>6, <1>r, <1>c, AccumulatingIdles
<1>8. CASE i = FillClocks(c)
  <2>1. Replayed(c, b)'
    BY <1>5, <1>8, IBReplayEnds
  <2>2. Streaming(c, b, 0, 0)'
    BY <1>8, <1>1, <1>c, <1>r, FeederFull
  <2>3. 0 * c.rows + RowsOut(0) = 0
    <3>1. RowsOut(0) = 0 /\ c.rows \in Nat
      BY ConfigSize DEF RowsOut, InArray
    <3> QED
      BY <3>1
  <2>4. Accumulating(c, b, 0 * c.rows + RowsOut(0))'
    BY <2>3, <1>7 DEF RowsOut, InArray, ResultLatency
  <2> QED
    BY <1>8, <1>4, <1>7, <2>1, <2>2, <2>4 DEF TilePhase
<1>9. CASE i # FillClocks(c)
  <2>1. i \in 0..FillClocks(c)-1
    BY <1>9, <1>c
  <2>2. Filling(c, b, i + 1)'
    BY <2>1, <1>1, <1>c, <1>r, FeederFills
  <2> QED
    BY <1>9, <1>4, <1>5, <1>7, <2>2 DEF FillPhase
<1> QED
  BY <1>8, <1>9

LEMMA TileNext ==
  ASSUME NEW c, IsConfig(c), NEW in, NEW rdy \in BOOLEAN, Memories, Running(c),
         NEW b \in 0..c.k-1, NEW nb \in 0..c.n-1, NEW q \in 0..TileClocks(c)-1,
         q # TileClocks(c) - 1 \/ nb # c.n - 1,
         TilePhase(c, b, nb, q), DataClock(c, in, rdy)
  PROVE  IF q = TileClocks(c) - 1 THEN TilePhase(c, b, nb + 1, 0)'
                                  ELSE TilePhase(c, b, nb, q + 1)'
<1>r. /\ AllStored(c) /\ Replayed(c, b) /\ Streaming(c, b, nb, q)
      /\ Accumulating(c, b, nb * c.rows + RowsOut(q)) /\ PrefetchFresh
      /\ ib_state = "CAL" /\ NothingReplayed /\ NothingWritten
  BY DEF TilePhase, Replayed, AllStored
<1>c. /\ results_expected = ResultWords(c)
      /\ \A ch \in Channels : total_words[ch] = Beats(c, ch)
      /\ words_expected["weight"] = StreamWords(c, "weight")
      /\ \A ch \in Channels : ~buffer_valid[ch]
  BY <1>r, RunningSizes DEF NothingReplayed, Channels
<1>1. (PartialLast) = FALSE
  BY <1>r, StreamOut DEF PartialLast
<1>2. /\ IBClock(c, in, FALSE, FeederReady) /\ BFClock(c)
      /\ OBClock(c, PartialOut, PartialLast, rdy)
  BY <1>1 DEF DataClock
<1>3. ~AllWordsStored
  BY <1>r, NotStored
<1>4. AllStored(c)'
  BY <1>r, AllStoredNext
<1>5. Replayed(c, b)'
  <2>1. weight_read_addr = 0 \/ weight_read_addr # words_expected["weight"] - 1
    BY <1>r, <1>c, ReplayedAddr
  <2>2. /\ NothingReplayed'
        /\ read_k_block' = read_k_block /\ weight_read_addr' = weight_read_addr
        /\ ib_state' = "CAL"
    BY <1>2, <1>3, <1>r, <2>1, IBQuiet
  <2> QED
    BY <2>2, <1>r DEF Replayed, WrapWeights, StreamWords, Beats, ReplayBeats
<1>6. received' = received
  BY <1>r DEF DataClock, Accumulating, ReadoutAtRest
<1>7. CASE q = TileClocks(c) - 1
  <2>1. Streaming(c, b, nb + 1, 0)'
    BY <1>2, <1>7, <1>c, <1>r, StreamTileEnds
  <2>2. Accumulating(c, b, (nb + 1) * c.rows + RowsOut(0))' /\ PrefetchFresh'
    BY <1>2, <1>6, <1>7, <1>c, <1>r, TileAccumulates
  <2> QED
    BY <1>7, <1>4, <1>5, <2>1, <2>2 DEF TilePhase
<1>8. CASE q # TileClocks(c) - 1
  <2>1. Streaming(c, b, nb, q + 1)'
    BY <1>2, <1>8, <1>c, <1>r, StreamNext
  <2>2. Accumulating(c, b, nb * c.rows + RowsOut(q + 1))' /\ PrefetchFresh'
    BY <1>2, <1>6, <1>8, <1>c, <1>r, TileAccumulates
  <2> QED
    BY <1>8, <1>4, <1>5, <2>1, <2>2 DEF TilePhase
<1> QED
  BY <1>7, <1>8

\* The last clock of the last tile of a K block.
LEMMA BlockNext ==
  ASSUME NEW c, IsConfig(c), NEW in, NEW rdy \in BOOLEAN, Memories, Running(c),
         NEW b \in 0..c.k-1, NEW nb, nb = c.n - 1, NEW q, q = TileClocks(c) - 1,
         TilePhase(c, b, nb, q), DataClock(c, in, rdy)
  PROVE  IF b = c.k - 1 THEN EndPhase(c)' ELSE FillPhase(c, b + 1, 0)'
<1>r. /\ AllStored(c) /\ Replayed(c, b) /\ Streaming(c, b, nb, q)
      /\ Accumulating(c, b, nb * c.rows + RowsOut(q)) /\ PrefetchFresh
      /\ ib_state = "CAL" /\ NothingReplayed /\ NothingWritten
      /\ read_k_block = b + 1
      /\ weight_read_addr = WrapWeights(c, (b + 1) * Beats(c, "weight"))
  BY DEF TilePhase, Replayed, AllStored
<1>c. /\ results_expected = ResultWords(c)
      /\ \A ch \in Channels : total_words[ch] = Beats(c, ch)
      /\ \A ch \in Channels : Beats(c, ch) \in Nat /\ Beats(c, ch) >= 2
      /\ words_expected["weight"] = StreamWords(c, "weight")
      /\ \A ch \in Channels : ~buffer_valid[ch]
      /\ b \in Nat /\ c.k \in Nat /\ c.k >= 1 /\ b <= c.k - 1
  BY <1>r, RunningSizes, ConfigSize DEF NothingReplayed, Channels
<1>q. nb \in 0..c.n-1 /\ q \in 0..TileClocks(c)-1
  <2>1. c.n \in Nat /\ c.n >= 1 /\ TileClocks(c) \in Nat /\ TileClocks(c) >= 1
    BY ConfigSize DEF TileClocks
  <2> QED
    BY <2>1
<1>1. (PartialLast) = TRUE
  <2>1. PartialLast
    BY <1>r, <1>q, StreamOut
  <2> QED
    BY <2>1 DEF PartialLast
<1>2. /\ IBClock(c, in, TRUE, FeederReady) /\ BFClock(c)
      /\ OBClock(c, PartialOut, PartialLast, rdy)
  BY <1>1 DEF DataClock
<1>3. ~AllWordsStored
  BY <1>r, NotStored
<1>4. AllStored(c)'
  BY <1>r, AllStoredNext
<1>6. received' = received
  BY <1>r DEF DataClock, Accumulating, ReadoutAtRest
<1>7. Accumulating(c, b + 1, 0)'
  BY <1>2, <1>6, <1>q, <1>c, <1>r, TileAccumulates
<1>8. FeederAtRest(TRUE)' /\ NoTileStored' /\ both_full_d1'
  BY <1>2, <1>c, <1>r, StreamBlockEnds
<1>9. CASE b = c.k - 1
  <2>1. Replayed(c, c.k - 1)
    BY <1>9, <1>r
  <2>2. /\ ib_state' = "IDLE" /\ NothingReplayed'
        /\ read_k_block' = 0 /\ weight_read_addr' = 0
    BY <2>1, <1>2, <1>3, <1>c, IBFinishes
  <2>3. b + 1 = c.k
    BY <1>9, <1>c
  <2>4. Accumulating(c, c.k, 0)'
    BY <1>7, <2>3
  <2> QED
    BY <1>9, <1>4, <1>8, <2>2, <2>4 DEF EndPhase, Computed
<1>10. CASE b # c.k - 1
  <2>0. b + 1 \in 0..c.k-1 /\ b + 1 # c.k /\ b + 1 > 0 /\ c.k # 0
    BY <1>10, <1>c
  <2>1. StartReadout(c, TRUE) /\ ~LastKBlockDone(c, TRUE)
    BY <2>0, <1>r DEF StartReadout, LastKBlockDone
  <2>2. \A ch \in Channels : Stored(c, ch, StreamWords(c, ch))
    BY <1>r DEF AllStored
  <2>3. Replaying(c, b + 1, 0)'
    BY <2>0, <2>1, <2>2, <1>2, <1>c, <1>r, IBStarts
  <2>4. Filling(c, b + 1, 0)'
    <3>1. \A ch \in Channels : tile_count'[ch] = 0 /\ tile_addr'[ch] = 0
      BY <1>8 DEF NoTileStored
    <3>2. \A ch \in Channels : (IF 0 < Beats(c, ch) THEN 0 ELSE Beats(c, ch)) = 0 /\ Beats(c, ch)' = Beats(c, ch)
      BY <1>c DEF Beats, ReplayBeats
    <3>3. \A a : a \notin 0..0-1
      OBVIOUS
    <3>4. (0 = 0 /\ b + 1 > 0) = TRUE
      BY <2>0
    <3> QED
      BY <1>8, <3>1, <3>2, <3>3, <3>4 DEF Filling, TileStored
  <2> QED
    BY <1>10, <1>4, <1>7, <2>3, <2>4 DEF FillPhase
<1> QED
  BY <1>9, <1>10

\* After the last K block, everything but OutputBuffer waits for the next job.
LEMMA ComputedNext ==
  ASSUME NEW c, IsConfig(c), NEW in, NEW rdy, Running(c),
         NEW flag, Computed(c, flag), DataClock(c, in, rdy)
  PROVE  Computed(c, FALSE)'
<1>r. /\ AllStored(c) /\ ib_state = "IDLE" /\ NothingReplayed /\ NothingWritten
      /\ read_k_block = 0 /\ weight_read_addr = 0
      /\ FeederAtRest(flag) /\ NoTileStored
      /\ \A ch \in Channels : ~buffer_valid[ch]
  BY DEF Computed, AllStored, NothingReplayed
<1>1. IBClock(c, in, FALSE, FeederReady) /\ BFClock(c)
  BY <1>r, RestClock
<1>2. ~AllWordsStored /\ ~StartAhead
  BY <1>r, NotStored, NothingAhead
<1>3. AllStored(c)'
  BY <1>r, AllStoredNext
<1>4. \A ch \in Channels : ~in[ch].valid
  <2>1. \A ch \in Channels : sent[ch] = StreamWords(c, ch) /\ StreamWords(c, ch) \in Nat
    BY <1>r, StreamSize DEF AllStored
  <2> QED
    BY <2>1 DEF DataClock
<1>5. /\ NothingReplayed'
      /\ read_k_block' = read_k_block /\ weight_read_addr' = weight_read_addr
      /\ ib_state' = "IDLE"
  BY <1>1, <1>2, <1>4, <1>r, IBQuiet
<1>6. FeederAtRest(FALSE)' /\ NoTileStored'
  BY <1>1, <1>2, <1>r, FeederRests, NothingToStore
<1> QED
  BY <1>3, <1>5, <1>6, <1>r DEF Computed

LEMMA EndNext ==
  ASSUME NEW c, IsConfig(c), NEW in, NEW rdy \in BOOLEAN, Running(c),
         EndPhase(c), DataClock(c, in, rdy)
  PROVE  AwaitPhase(c)'
<1>1. Computed(c, TRUE) /\ Accumulating(c, c.k, 0) /\ FeederAtRest(TRUE)
  BY DEF EndPhase, Computed
<1>2. Computed(c, FALSE)'
  BY <1>1, ComputedNext
<1>3. received' = received
  BY <1>1 DEF DataClock, Accumulating, ReadoutAtRest
<1>4. OBClock(c, PartialOut, FALSE, rdy) /\ ~PartialOut.valid
  BY <1>1, RestClock
<1>5. ReadoutAwaited(c)'
  BY <1>1, <1>3, <1>4, RunningSizes, ReadoutRequested
<1> QED
  BY <1>2, <1>5 DEF AwaitPhase

LEMMA AwaitNext ==
  ASSUME NEW c, IsConfig(c), NEW in, NEW rdy \in BOOLEAN, Running(c),
         AwaitPhase(c), DataClock(c, in, rdy)
  PROVE  IF rdy THEN ReadoutPhase(c, 0)' ELSE AwaitPhase(c)'
<1>1. Computed(c, FALSE) /\ ReadoutAwaited(c) /\ FeederAtRest(FALSE)
  BY DEF AwaitPhase, Computed
<1>2. Computed(c, FALSE)'
  BY <1>1, ComputedNext
<1>3. received' = received
  BY <1>1 DEF DataClock, ReadoutAwaited
<1>4. OBClock(c, PartialOut, FALSE, rdy) /\ ~PartialOut.valid
  BY <1>1, RestClock
<1>5. IF rdy THEN ReadingOut(c, 0)' ELSE ReadoutAwaited(c)'
  BY <1>1, <1>3, <1>4, RunningSizes, ReadoutStarts
<1> QED
  BY <1>2, <1>5 DEF AwaitPhase, ReadoutPhase

LEMMA ReadoutPhaseNext ==
  ASSUME NEW c, IsConfig(c), NEW in, NEW rdy \in BOOLEAN, Running(c), Memories,
         NEW x \in 0..ResultWords(c)+2, ~(x = ResultWords(c) + 2 /\ rdy),
         ReadoutPhase(c, x), DataClock(c, in, rdy)
  PROVE  IF rdy THEN ReadoutPhase(c, x + 1)' ELSE ReadoutPhase(c, x)'
<1>1. Computed(c, FALSE) /\ ReadingOut(c, x) /\ FeederAtRest(FALSE)
  BY DEF ReadoutPhase, Computed
<1>2. Computed(c, FALSE)'
  BY <1>1, ComputedNext
<1>3. received' = IF result_valid /\ rdy THEN received + 1 ELSE received
  BY DEF DataClock
<1>4. OBClock(c, PartialOut, FALSE, rdy) /\ ~PartialOut.valid
  BY <1>1, RestClock
<1>5. \A y : y = (IF rdy THEN x + 1 ELSE x) => ReadingOut(c, y)'
  BY <1>1, <1>3, <1>4, RunningSizes, ReadoutNext
<1> QED
  BY <1>2, <1>5 DEF ReadoutPhase

-----------------------------------------------------------------------------
(* One clock of the accelerator and its host *)

\* The configuration of the running job.
LEMMA JobConfigs ==
  ASSUME PlainJobs, HostInv, job <= Jobs, NEW c, c = JobConfig(job)
  PROVE  /\ IsConfig(c) /\ c.shift = job
         /\ c.rows = shapes[job].rows /\ c.k = shapes[job].k /\ c.n = shapes[job].n
         /\ \A ch \in Channels : StreamBeats(job, ch) = StreamWords(c, ch)
         /\ ResultBeats(job) = ResultWords(c)
         /\ job \in 1..Jobs
<1> DEFINE s == shapes[job]
<1>1. job \in 1..Jobs /\ Jobs \in Nat
  BY JobsAssumption DEF HostInv
<1>2. s \in Shapes
  BY <1>1 DEF HostInv
<1>3. /\ s \in [rows : Nat \ {0}, k : Nat \ {0}, n : Nat \ {0}]
      /\ s.rows * s.k <= InputDepth /\ s.k * ArraySize * s.n <= InputDepth
      /\ s.rows * s.n <= OutputDepth /\ s.rows >= 2
  BY <1>2, ShapesAssumption DEF PlainJobs
<1>4. c = [rows |-> s.rows, k |-> s.k, n |-> s.n, shift |-> job]
  BY DEF JobConfig
<1>5. c.rows = s.rows /\ c.k = s.k /\ c.n = s.n /\ c.shift = job
  BY <1>4
<1>6. /\ s.rows \in Nat \ {0, 1} /\ s.k \in Nat \ {0} /\ s.n \in Nat \ {0}
      /\ ArraySize \in Nat \ {0}
  BY <1>3, ArraySizeAssumption
<1>7. /\ StreamWords(c, "feature") = s.rows * s.k
      /\ StreamWords(c, "weight") = s.k * ArraySize * s.n
  <2>1. \A x, y \in Nat : x * y = y * x
    OBVIOUS
  <2>2. \A x, y, z \in Nat : x * (z * y) = x * y * z
    OBVIOUS
  <2> QED
    BY <2>1, <2>2, <1>5, <1>6 DEF StreamWords, Beats, ReplayBeats
<1>8. ResultWords(c) = s.rows * s.n
  BY <1>5 DEF ResultWords
<1> HIDE DEF s
<1>9. IsConfig(c)
  <2>1. c \in [rows : Nat \ {0, 1}, k : Nat \ {0}, n : Nat \ {0}, shift : 1..Jobs]
    BY <1>4, <1>6, <1>1
  <2>2. \A ch \in Channels : StreamWords(c, ch) <= InputDepth
    BY <1>3, <1>7 DEF Channels
  <2> QED
    BY <2>1, <2>2, <1>3, <1>8 DEF IsConfig
<1> QED
  BY <1>1, <1>5, <1>7, <1>8, <1>9 DEF StreamBeats, ResultBeats, Channels, s

\* The beats the host may offer are the next ones of the running job.
LEMMA HostOffers ==
  ASSUME PlainJobs, HostInv, NEW c, c = JobConfig(job),
         NEW v \in [Channels -> BOOLEAN], \A ch \in Channels : MayOffer(v, ch),
         NEW ch \in Channels, InputStreams(v)[ch].valid
  PROVE  /\ job <= Jobs /\ MayStream
         /\ sent[ch] < StreamWords(c, ch)
         /\ InputStreams(v)[ch].data = <<c.shift, sent[ch]>>
         /\ InputStreams(v)[ch].last <=> sent[ch] = StreamWords(c, ch) - 1
<1>1. /\ InputStreams(v)[ch].valid <=> v[ch]
      /\ InputStreams(v)[ch].last <=> v[ch] /\ sent[ch] = StreamBeats(job, ch) - 1
      /\ InputStreams(v)[ch].data = IF v[ch] THEN <<job, sent[ch]>> ELSE NoWord
  BY DEF InputStreams
<1>2. v[ch] /\ MayStream /\ sent[ch] < StreamBeats(job, ch)
  BY <1>1 DEF MayOffer
<1>3. job <= Jobs
  BY <1>2 DEF MayStream
<1>4. StreamBeats(job, ch) = StreamWords(c, ch) /\ c.shift = job
  BY <1>3, JobConfigs
<1> QED
  BY <1>1, <1>2, <1>3, <1>4

\* The parts of a clock.
LEMMA ClockParts ==
  ASSUME NEW v \in [Channels -> BOOLEAN], NEW rdy \in BOOLEAN, NEW clear \in BOOLEAN,
         Clock(v, rdy, clear), NEW in, in = InputStreams(v),
         NEW jobStarts \in BOOLEAN, jobStarts <=> ~JobStarted /\ InputAccept(in)
  PROVE  /\ \A ch \in Channels : MayOffer(v, ch)
         /\ IBClock(cfg, in, PartialLast, FeederReady) /\ BFClock(cfg)
         /\ OBClock(cfg, PartialOut, PartialLast, rdy)
         /\ core_active' = NextCoreActive(in, rdy) /\ cfg' = NextCfg(in, regs)
         /\ job_busy' = NextJobBusy(in, rdy)
         /\ WriteRegister(clear, jobStarts)
         /\ settled' = IF jobStarts THEN 0
                       ELSE IF written = 4 /\ ~JobStarted /\ settled < SettleClocks
                            THEN settled + 1 ELSE settled
         /\ \A ch \in Channels :
              sent'[ch] = IF FinalResultAccept(rdy) THEN 0
                          ELSE IF StreamAccept(in, ch) THEN sent[ch] + 1 ELSE sent[ch]
         /\ received' = IF FinalResultAccept(rdy) THEN 0
                        ELSE IF result_valid /\ rdy THEN received + 1 ELSE received
         /\ job' = IF FinalResultAccept(rdy) THEN job + 1 ELSE job
         /\ shapes' = shapes
<1>1. TopClock(in, rdy, regs, clear)
  BY DEF Clock
<1>2. jobStarts = (~JobStarted /\ InputAccept(in))
  BY DEF InputAccept
<1>3. WriteRegister(clear, jobStarts)
  BY <1>2 DEF Clock
<1>4. settled' = IF jobStarts THEN 0
                 ELSE IF written = 4 /\ ~JobStarted /\ settled < SettleClocks
                      THEN settled + 1 ELSE settled
  BY DEF Clock
<1>5. \A ch \in Channels :
        sent'[ch] = IF FinalResultAccept(rdy) THEN 0
                    ELSE IF StreamAccept(in, ch) THEN sent[ch] + 1 ELSE sent[ch]
  BY DEF Clock
<1>6. /\ received' = IF FinalResultAccept(rdy) THEN 0
                     ELSE IF result_valid /\ rdy THEN received + 1 ELSE received
      /\ job' = IF FinalResultAccept(rdy) THEN job + 1 ELSE job
      /\ shapes' = shapes
  BY DEF Clock
<1>7. \A ch \in Channels : MayOffer(v, ch)
  BY DEF Clock
<1> QED
  BY <1>1, <1>3, <1>4, <1>5, <1>6, <1>7 DEF TopClock

LEMMA MemoriesNext ==
  ASSUME NEW v \in [Channels -> BOOLEAN], NEW rdy \in BOOLEAN, NEW clear \in BOOLEAN,
         Clock(v, rdy, clear), Memories
  PROVE  Memories'
<1>1. /\ IBClock(cfg, InputStreams(v), PartialLast, FeederReady) /\ BFClock(cfg)
      /\ OBClock(cfg, PartialOut, PartialLast, rdy)
  BY DEF Clock, TopClock
<1>2. \A c, in, plast, ready : IBClock(c, in, plast, ready) =>
        /\ DOMAIN buffer_mem' = Channels
        /\ \A ch \in Channels : DOMAIN buffer_mem'[ch] = 0..InputDepth-1
  BY IBKeepsMemory
<1>3. \A c : BFClock(c) =>
        /\ DOMAIN tile_mem' = Channels
        /\ \A ch \in Channels : DOMAIN tile_mem'[ch] = 0..InputDepth-1
        /\ shift_reg' = [i \in 1..ArraySize |-> shift_reg'[i]]
  BY BFKeepsMemory
<1>4. \A c, p, plast, r : OBClock(c, p, plast, r) => DOMAIN accum_mem' = 0..OutputDepth-1
  BY OBKeepsMemory
<1>5. /\ DOMAIN buffer_mem' = Channels
      /\ \A ch \in Channels : DOMAIN buffer_mem'[ch] = 0..InputDepth-1
  BY <1>1, <1>2
<1>6. /\ DOMAIN tile_mem' = Channels
      /\ \A ch \in Channels : DOMAIN tile_mem'[ch] = 0..InputDepth-1
      /\ shift_reg' = [i \in 1..ArraySize |-> shift_reg'[i]]
  BY <1>1, <1>3
<1>7. DOMAIN accum_mem' = 0..OutputDepth-1
  BY <1>1, <1>4
<1> QED
  BY <1>5, <1>6, <1>7 DEF Memories

\* The host writes the registers of the coming job, in order.
LEMMA HostNext ==
  ASSUME NEW v \in [Channels -> BOOLEAN], NEW rdy \in BOOLEAN, NEW clear \in BOOLEAN,
         Clock(v, rdy, clear), HostInv, NEW jobStarts \in BOOLEAN,
         jobStarts <=> ~JobStarted /\ InputAccept(InputStreams(v)),
         FinalResultAccept(rdy) => job <= Jobs,
         jobStarts => written = 4, jobStarts \/ NextToWrite' = NextToWrite
  PROVE  HostInv' /\ (written = 4 /\ ~jobStarts => written' = 4 /\ regs' = regs)
<1>c. /\ Jobs \in Nat /\ job \in 1..Jobs+1 /\ written \in 0..4 /\ settled \in 0..SettleClocks
      /\ SettleClocks \in Nat /\ shapes \in [1..Jobs -> Shapes]
      /\ written > 0 => NextToWrite <= Jobs
      /\ regs = [r \in {"rows", "k", "n", "shift"} |-> regs[r]]
      /\ \A i \in 1..written : regs[RegisterOrder[i]] = JobConfig(NextToWrite)[RegisterOrder[i]]
  BY JobsAssumption, SettleClocksAssumption DEF HostInv
<1>p. /\ WriteRegister(clear, jobStarts) /\ shapes' = shapes
      /\ settled' = IF jobStarts THEN 0
                    ELSE IF written = 4 /\ ~JobStarted /\ settled < SettleClocks
                         THEN settled + 1 ELSE settled
      /\ job' = IF FinalResultAccept(rdy) THEN job + 1 ELSE job
  BY ClockParts
<1>1. job' \in 1..Jobs+1 /\ settled' \in 0..SettleClocks /\ shapes' \in [1..Jobs -> Shapes]
  BY <1>c, <1>p
<1>j. \A j : JobConfig(j)' = JobConfig(j)
  BY <1>p DEF JobConfig
<1>2. CASE jobStarts
  <2>1. written' = 0 /\ regs' = regs
    BY <1>2, <1>p DEF WriteRegister
  <2>2. written' \in 0..4 /\ ~(written' > 0) /\ \A i : i \notin 1..written'
    BY <2>1
  <2> QED
    BY <1>1, <1>2, <2>1, <2>2, <1>c DEF HostInv
<1>3. CASE ~jobStarts /\ written' = written /\ regs' = regs
  <2>1. NextToWrite' = NextToWrite
    BY <1>3
  <2>2. \A i \in 1..written' : regs'[RegisterOrder[i]] = JobConfig(NextToWrite)[RegisterOrder[i]]
    BY <1>3, <1>c
  <2>3. JobConfig(NextToWrite)' = JobConfig(NextToWrite)
    BY <2>1, <1>p DEF JobConfig
  <2>4. written' > 0 => NextToWrite' <= Jobs
    BY <2>1, <1>3, <1>c
  <2>5. \A i \in 1..written' : regs'[RegisterOrder[i]] = JobConfig(NextToWrite)'[RegisterOrder[i]]
    BY <2>2, <2>3
  <2>6. \A i : RegisterOrder[i]' = RegisterOrder[i]
    BY DEF RegisterOrder
  <2> QED
    BY <1>1, <1>3, <2>4, <2>5, <1>c DEF HostInv, RegisterOrder
<1>4. CASE /\ ~jobStarts /\ NextToWrite <= Jobs /\ written < 4 /\ written' = written + 1
           /\ LET r == RegisterOrder[written + 1]
              IN  regs' = [regs EXCEPT ![r] = JobConfig(NextToWrite)[r]]
  <2>1. NextToWrite' = NextToWrite
    BY <1>4
  <2>2. JobConfig(NextToWrite)' = JobConfig(NextToWrite)
    BY <2>1, <1>p DEF JobConfig
  <2>3. \A i \in 1..4 : RegisterOrder[i] \in DOMAIN regs
    BY <1>c DEF RegisterOrder
  <2>4. \A i, k \in 1..4 : i # k => RegisterOrder[i] # RegisterOrder[k]
    BY DEF RegisterOrder
  <2>5. written' \in 0..4 /\ written + 1 \in 1..4
    BY <1>4, <1>c
  <2>6. ASSUME NEW i \in 1..written'
        PROVE  regs'[RegisterOrder[i]] = JobConfig(NextToWrite)[RegisterOrder[i]]
    <3>1. i \in 1..4 /\ (i = written + 1 \/ i \in 1..written)
      BY <1>4, <1>c
    <3>2. CASE i = written + 1
      BY <3>1, <3>2, <2>3, <1>4
    <3>3. CASE i \in 1..written /\ i # written + 1
      <4>1. RegisterOrder[i] # RegisterOrder[written + 1]
        BY <3>1, <3>3, <2>4, <2>5
      <4>2. regs'[RegisterOrder[i]] = regs[RegisterOrder[i]]
        BY <4>1, <3>1, <2>3, <1>4
      <4> QED
        BY <4>2, <3>3, <1>c
    <3> QED
      BY <3>1, <3>2, <3>3
  <2>7. regs' = [r \in {"rows", "k", "n", "shift"} |-> regs'[r]]
    <3>1. DOMAIN regs = {"rows", "k", "n", "shift"}
      BY <1>c
    <3> QED
      BY <3>1, <1>4
  <2>8. written' > 0 => NextToWrite' <= Jobs
    BY <2>1, <1>4
  <2>9. written # 4
    BY <1>4, <1>c
  <2> QED
    BY <1>1, <2>2, <2>5, <2>6, <2>7, <2>8, <2>9 DEF HostInv, RegisterOrder
<1>5. \/ jobStarts
      \/ ~jobStarts /\ written' = written /\ regs' = regs
      \/ /\ ~jobStarts /\ NextToWrite <= Jobs /\ written < 4 /\ written' = written + 1
         /\ LET r == RegisterOrder[written + 1]
            IN  regs' = [regs EXCEPT ![r] = JobConfig(NextToWrite)[r]]
  BY <1>p DEF WriteRegister
<1> QED
  BY <1>2, <1>3, <1>4, <1>5

\* Some beat of the job has been taken.
LEMMA JobRuns ==
  ASSUME NEW c, IsConfig(c), RunPhase(c)
  PROVE  JobStarted
<1>1. \A ch \in Channels : StreamWords(c, ch) \in Nat /\ StreamWords(c, ch) > 0
  BY StreamSize, ConfigSize
<1>2. AllStored(c) => JobStarted
  BY <1>1 DEF AllStored, JobStarted, Channels
<1>3. LoadPhase(c) => JobStarted
  BY DEF LoadPhase
<1> QED
  BY <1>2, <1>3 DEF RunPhase, FillPhase, TilePhase, EndPhase, AwaitPhase, ReadoutPhase, Computed

LEMMA JobRunsOn ==
  ASSUME NEW c, IsConfig(c), RunPhase(c)'
  PROVE  JobStarted'
<1>1. \A ch \in Channels : /\ StreamWords(c, ch) \in Nat /\ StreamWords(c, ch) > 0
                           /\ StreamWords(c, ch)' = StreamWords(c, ch)
  BY StreamSize, ConfigSize DEF StreamWords, Beats, ReplayBeats
<1>2. AllStored(c)' => JobStarted'
  BY <1>1 DEF AllStored, JobStarted, Channels
<1>3. LoadPhase(c)' => JobStarted'
  BY DEF LoadPhase
<1> QED
  BY <1>2, <1>3 DEF RunPhase, FillPhase, TilePhase, EndPhase, AwaitPhase, ReadoutPhase, Computed

\* Only the last clock of the readout ends the job.
LEMMA JobEnds ==
  ASSUME NEW c, IsConfig(c), NEW rdy \in BOOLEAN, Running(c), RunPhase(c),
         FinalResultAccept(rdy)
  PROVE  rdy /\ ReadoutPhase(c, ResultWords(c) + 2)
<1>1. rdy /\ result_valid /\ ResultLast
  BY DEF FinalResultAccept
<1>2. ~LoadPhase(c) /\ ~EndPhase(c) /\ ~AwaitPhase(c)
  BY <1>1 DEF LoadPhase, EndPhase, AwaitPhase, Accumulating, ReadoutAtRest, ReadoutAwaited
<1>3. \A b, i : ~FillPhase(c, b, i)
  BY <1>1 DEF FillPhase, Accumulating, ReadoutAtRest
<1>4. \A b, nb, q : ~TilePhase(c, b, nb, q)
  BY <1>1 DEF TilePhase, Accumulating, ReadoutAtRest
<1>5. PICK x \in 0..ResultWords(c)+2 : ReadoutPhase(c, x)
  BY <1>2, <1>3, <1>4 DEF RunPhase
<1>6. /\ result_valid <=> x >= 3
      /\ result_count = IF x < 3 THEN 0 ELSE x - 3
  BY <1>5 DEF ReadoutPhase, ReadingOut, ReadoutFlags, ReadoutCounters
<1>7. result_count = ResultWords(c) - 1 /\ ResultWords(c) \in Nat
  BY <1>1, RunningSizes, ResultSize DEF ResultLast
<1>8. x = ResultWords(c) + 2
  BY <1>1, <1>6, <1>7
<1> QED
  BY <1>1, <1>5, <1>8

\* A clock that does not end the job.
LEMMA PhaseNext ==
  ASSUME NEW c, IsConfig(c), NEW in, NEW rdy \in BOOLEAN, Memories, Running(c),
         RunPhase(c), ~FinalResultAccept(rdy), DataClock(c, in, rdy)
  PROVE  RunPhase(c)'
<1>c. /\ c.k \in Nat /\ c.k >= 1 /\ c.n \in Nat /\ c.n >= 1
      /\ FillClocks(c) \in Nat /\ ResultWords(c) \in Nat
      /\ TileClocks(c) \in Nat /\ TileClocks(c) >= 1
  <2>1. TileClocks(c) \in Nat /\ TileClocks(c) >= 1
    BY ConfigSize DEF TileClocks
  <2> QED
    BY <2>1, ConfigSize, FillSize, ResultSize
<1>p. /\ FillClocks(c)' = FillClocks(c) /\ TileClocks(c)' = TileClocks(c)
      /\ ResultWords(c)' = ResultWords(c)
  BY DEF FillClocks, TileClocks, ResultWords, ResultLatency, Beats, ReplayBeats
<1>n. /\ LoadPhase(c)' => RunPhase(c)'
      /\ \A b \in 0..c.k-1, i \in 0..FillClocks(c) : FillPhase(c, b, i)' => RunPhase(c)'
      /\ \A b \in 0..c.k-1, nb \in 0..c.n-1, q \in 0..TileClocks(c)-1 :
           TilePhase(c, b, nb, q)' => RunPhase(c)'
      /\ EndPhase(c)' => RunPhase(c)'
      /\ AwaitPhase(c)' => RunPhase(c)'
      /\ \A x \in 0..ResultWords(c)+2 : ReadoutPhase(c, x)' => RunPhase(c)'
  BY <1>p DEF RunPhase
<1>1. CASE LoadPhase(c)
  <2>1. 0 \in 0..c.k-1 /\ 0 \in 0..FillClocks(c)
    BY <1>c
  <2> QED
    BY <1>1, <2>1, <1>n, LoadNext
<1>2. ASSUME NEW b \in 0..c.k-1, NEW i \in 0..FillClocks(c), FillPhase(c, b, i)
      PROVE  RunPhase(c)'
  <2>1. IF i = FillClocks(c) THEN TilePhase(c, b, 0, 0)' ELSE FillPhase(c, b, i + 1)'
    BY <1>2, FillNext
  <2>2. 0 \in 0..c.n-1 /\ 0 \in 0..TileClocks(c)-1
    BY <1>c
  <2>3. i # FillClocks(c) => i + 1 \in 0..FillClocks(c)
    BY <1>c
  <2> QED
    BY <2>1, <2>2, <2>3, <1>n
<1>3. ASSUME NEW b \in 0..c.k-1, NEW nb \in 0..c.n-1, NEW q \in 0..TileClocks(c)-1,
             TilePhase(c, b, nb, q)
      PROVE  RunPhase(c)'
  <2>1. CASE q # TileClocks(c) - 1 \/ nb # c.n - 1
    <3>1. IF q = TileClocks(c) - 1 THEN TilePhase(c, b, nb + 1, 0)'
                                   ELSE TilePhase(c, b, nb, q + 1)'
      BY <1>3, <2>1, TileNext
    <3>2. /\ 0 \in 0..TileClocks(c)-1
          /\ nb # c.n - 1 => nb + 1 \in 0..c.n-1
          /\ q # TileClocks(c) - 1 => q + 1 \in 0..TileClocks(c)-1
      BY <1>c
    <3> QED
      BY <2>1, <3>1, <3>2, <1>n
  <2>2. CASE q = TileClocks(c) - 1 /\ nb = c.n - 1
    <3>1. IF b = c.k - 1 THEN EndPhase(c)' ELSE FillPhase(c, b + 1, 0)'
      BY <1>3, <2>2, BlockNext
    <3>2. 0 \in 0..FillClocks(c) /\ (b # c.k - 1 => b + 1 \in 0..c.k-1)
      BY <1>c
    <3> QED
      BY <3>1, <3>2, <1>n
  <2> QED
    BY <2>1, <2>2
<1>4. CASE EndPhase(c)
  BY <1>4, <1>n, EndNext
<1>5. CASE AwaitPhase(c)
  <2>1. 0 \in 0..ResultWords(c)+2
    BY <1>c
  <2> QED
    BY <1>5, <2>1, <1>n, AwaitNext
<1>6. ASSUME NEW x \in 0..ResultWords(c)+2, ReadoutPhase(c, x)
      PROVE  RunPhase(c)'
  <2>1. ~(x = ResultWords(c) + 2 /\ rdy)
    <3> SUFFICES ASSUME x = ResultWords(c) + 2, rdy PROVE FALSE
      OBVIOUS
    <3>0. /\ result_valid <=> x >= 3
          /\ result_count = IF x < 3 THEN 0 ELSE x - 3
      BY <1>6 DEF ReadoutPhase, ReadingOut, ReadoutFlags, ReadoutCounters
    <3>1. result_valid /\ result_count = ResultWords(c) - 1
      <4>1. ResultWords(c) >= 2
        BY ResultSize
      <4> QED
        BY <4>1, <3>0, <1>c
    <3>2. ResultLast
      BY <3>1, RunningSizes DEF ResultLast
    <3> QED
      BY <3>1, <3>2 DEF FinalResultAccept
  <2>2. IF rdy THEN ReadoutPhase(c, x + 1)' ELSE ReadoutPhase(c, x)'
    BY <1>6, <2>1, ReadoutPhaseNext
  <2>3. rdy => x + 1 \in 0..ResultWords(c)+2
    BY <2>1, <1>c
  <2> QED
    BY <2>2, <2>3, <1>n
<1> QED
  BY <1>1, <1>2, <1>3, <1>4, <1>5, <1>6 DEF RunPhase

LEMMA RunNext ==
  ASSUME PlainJobs, NEW c, c = JobConfig(job), job <= Jobs, HostInv, Memories,
         Running(c), RunPhase(c),
         NEW v \in [Channels -> BOOLEAN], NEW rdy \in BOOLEAN, NEW clear \in BOOLEAN,
         Clock(v, rdy, clear), ~FinalResultAccept(rdy)
  PROVE  Running(c)' /\ RunPhase(c)' /\ job' = job /\ JobConfig(job)' = c /\ JobStarted'
<1> DEFINE in == InputStreams(v)
<1>1. IsConfig(c)
  BY JobConfigs
<1>2. JobStarted
  BY <1>1, JobRuns
<1>r. /\ cfg = c /\ core_active /\ job_busy /\ settled = 0
      /\ k_elements = c.k * ArraySize
  BY DEF Running, Sized
<1>p. /\ \A ch \in Channels : MayOffer(v, ch)
      /\ IBClock(c, in, PartialLast, FeederReady) /\ BFClock(c)
      /\ OBClock(c, PartialOut, PartialLast, rdy)
      /\ core_active' = NextCoreActive(in, rdy) /\ cfg' = NextCfg(in, regs)
      /\ job_busy' = NextJobBusy(in, rdy)
      /\ settled' = settled
      /\ \A ch \in Channels :
           sent'[ch] = IF StreamAccept(in, ch) THEN sent[ch] + 1 ELSE sent[ch]
      /\ received' = IF result_valid /\ rdy THEN received + 1 ELSE received
      /\ job' = job /\ shapes' = shapes
  <2>2. FALSE <=> ~JobStarted /\ InputAccept(in)
    BY <1>2
  <2> QED
    BY <2>2, <1>2, <1>r, ClockParts
<1>3. DataClock(c, in, rdy)
  BY <1>p, HostOffers DEF DataClock
<1>4. RunPhase(c)'
  BY <1>1, <1>3, PhaseNext
<1>5. core_active' /\ cfg' = c /\ job_busy' /\ settled' = 0
  BY <1>p, <1>r DEF NextCoreActive, NextCfg, NextJobBusy
<1>6. Sized(c)' /\ words_expected'["weight"] = c.n * (c.k * ArraySize)
  BY <1>p, <1>r DEF IBClock, BFClock, OBClock, Sized
<1>7. JobConfig(job)' = c
  BY <1>p DEF JobConfig
<1>8. JobStarted'
  BY <1>1, <1>4, JobRunsOn
<1> QED
  BY <1>4, <1>5, <1>6, <1>7, <1>8, <1>p DEF Running

\* The last result word is taken.
LEMMA RunEnds ==
  ASSUME PlainJobs, NEW c, c = JobConfig(job), job <= Jobs, HostInv, Memories,
         Running(c), RunPhase(c),
         NEW v \in [Channels -> BOOLEAN], NEW rdy \in BOOLEAN, NEW clear \in BOOLEAN,
         Clock(v, rdy, clear), FinalResultAccept(rdy)
  PROVE  Resting' /\ job' = job + 1
<1> DEFINE in == InputStreams(v)
<1>1. IsConfig(c)
  BY JobConfigs
<1>2. JobStarted /\ rdy /\ ReadoutPhase(c, ResultWords(c) + 2)
  BY <1>1, JobRuns, JobEnds
<1>r. /\ cfg = c /\ settled = 0 /\ results_expected = ResultWords(c)
  BY <1>1, RunningSizes DEF Running
<1>p. /\ \A ch \in Channels : MayOffer(v, ch)
      /\ IBClock(c, in, PartialLast, FeederReady) /\ BFClock(c)
      /\ OBClock(c, PartialOut, PartialLast, rdy)
      /\ core_active' = NextCoreActive(in, rdy) /\ job_busy' = NextJobBusy(in, rdy)
      /\ settled' = settled
      /\ \A ch \in Channels : sent'[ch] = 0
      /\ received' = 0 /\ job' = job + 1
  <2>2. FALSE <=> ~JobStarted /\ InputAccept(in)
    BY <1>2
  <2> QED
    BY <2>2, <1>2, <1>r, ClockParts
<1>c. /\ AllStored(c) /\ ib_state = "IDLE" /\ NothingReplayed /\ NothingWritten
      /\ read_k_block = 0 /\ weight_read_addr = 0
      /\ FeederAtRest(FALSE) /\ NoTileStored /\ ReadingOut(c, ResultWords(c) + 2)
      /\ \A ch \in Channels : ~buffer_valid[ch]
  BY <1>2 DEF ReadoutPhase, Computed, AllStored, NothingReplayed
<1>3. ~PartialLast /\ ~PartialValid
  BY <1>c, RestIsSilent
<1>4. (PartialLast) = FALSE /\ (rdy) = TRUE
  BY <1>2, <1>3 DEF PartialLast
<1>5. /\ IBClock(c, in, FALSE, FeederReady) /\ OBClock(c, PartialOut, FALSE, TRUE)
      /\ ~PartialOut.valid
  BY <1>p, <1>3, <1>4 DEF PartialValid
<1>6. ~AllWordsStored /\ ~StartAhead
  BY <1>1, <1>c, NotStored, NothingAhead
<1>7. NothingWritten'
  BY <1>5, <1>c, IBKeepsWords
<1>8. \A ch \in Channels : ~in[ch].valid
  <2>1. \A ch \in Channels : sent[ch] = StreamWords(c, ch) /\ StreamWords(c, ch) \in Nat
    BY <1>1, <1>c, StreamSize DEF AllStored
  <2>2. \A ch \in Channels : in[ch].valid => sent[ch] < StreamWords(c, ch)
    BY <1>p, HostOffers
  <2> QED
    BY <2>1, <2>2
<1>9. /\ NothingReplayed'
      /\ read_k_block' = read_k_block /\ weight_read_addr' = weight_read_addr
      /\ ib_state' = "IDLE"
  BY <1>5, <1>6, <1>8, <1>c, IBQuiet
<1>10. FeederAtRest(FALSE)' /\ NoTileStored'
  BY <1>p, <1>6, <1>c, FeederRests, NothingToStore
<1>11. OutputAtRest'
  BY <1>1, <1>5, <1>c, <1>p, <1>r, ReadoutEnds
<1>12. ~core_active' /\ ~job_busy'
  BY <1>p DEF NextCoreActive, NextJobBusy
<1>13. ~(settled' > 0)
  BY <1>p, <1>r
<1> QED
  BY <1>7, <1>9, <1>10, <1>11, <1>12, <1>13, <1>c, <1>p DEF Resting

\* Between two jobs nothing but the first state of InputBuffer and the
\* configuration moves.
LEMMA RestingNext ==
  ASSUME Resting, NEW v \in [Channels -> BOOLEAN], NEW rdy \in BOOLEAN, NEW clear \in BOOLEAN,
         Clock(v, rdy, clear), NEW in, in = InputStreams(v)
  PROVE  /\ ~FinalResultAccept(rdy) /\ ~JobStarted
         /\ FeederAtRest(FALSE)' /\ NoTileStored' /\ OutputAtRest' /\ result_count' = 0
         /\ NothingReplayed' /\ read_k_block' = 0 /\ weight_read_addr' = 0
         /\ ib_state' = IF ib_state = "IDLE" /\ (\E ch \in Channels : in[ch].valid)
                        THEN "IN_DATA" ELSE ib_state
         /\ ~InputAccept(in) => NothingWritten'
         /\ core_active' <=> InputAccept(in)
         /\ job_busy' <=> InputAccept(in)
         /\ ~InputAccept(in) => cfg' = regs
         /\ IBClock(cfg, in, FALSE, FeederReady) /\ ~AllWordsStored
<1>r. /\ ~core_active /\ ~job_busy /\ \A ch \in Channels : sent[ch] = 0
      /\ ib_state \in {"IDLE", "IN_DATA"}
      /\ NothingWritten /\ NothingReplayed /\ read_k_block = 0 /\ weight_read_addr = 0
      /\ FeederAtRest(FALSE) /\ NoTileStored /\ OutputAtRest
      /\ \A ch \in Channels : ~buffer_valid[ch]
  BY DEF Resting, NothingReplayed
<1>o. /\ ReadoutAtRest /\ AllZero /\ received = 0
      /\ result_count = 0 \/ result_count = results_expected
      /\ k_block_done = 0 /\ accum_write_addr = 0 /\ ~result_valid
  BY <1>r DEF OutputAtRest, ReadoutAtRest
<1>1. ~FinalResultAccept(rdy) /\ ~JobStarted
  <2>1. ~JobStarted
    BY <1>r DEF JobStarted, Channels
  <2> QED
    BY <2>1, <1>o DEF FinalResultAccept
<1>p. /\ IBClock(cfg, in, PartialLast, FeederReady) /\ BFClock(cfg)
      /\ OBClock(cfg, PartialOut, PartialLast, rdy)
      /\ core_active' = NextCoreActive(in, rdy) /\ job_busy' = NextJobBusy(in, rdy)
      /\ cfg' = NextCfg(in, regs)
      /\ received' = IF FinalResultAccept(rdy) THEN 0
                     ELSE IF result_valid /\ rdy THEN received + 1 ELSE received
  BY DEF Clock, TopClock
<1>2. ~PartialLast /\ ~PartialValid
  BY <1>r, RestIsSilent
<1>3. /\ IBClock(cfg, in, FALSE, FeederReady) /\ OBClock(cfg, PartialOut, FALSE, rdy)
      /\ ~PartialOut.valid
  <2>1. (PartialLast) = FALSE
    BY <1>2 DEF PartialLast
  <2> QED
    BY <1>p, <1>2, <2>1 DEF PartialValid
<1>4. ~AllWordsStored /\ ~StartAhead
  BY <1>r DEF AllWordsStored, NothingWritten, StartAhead, BothFull, NoTileStored, Channels
<1>5. FeederAtRest(FALSE)' /\ NoTileStored'
  <2>1. \A c : BFClock(c) => FeederAtRest(FALSE)' /\ NoTileStored'
    BY <1>4, <1>r, FeederRests, NothingToStore
  <2> QED
    BY <1>p, <2>1
<1>6. /\ NothingReplayed'
      /\ read_k_block' = read_k_block /\ weight_read_addr' = weight_read_addr
      /\ ib_state' = IF ib_state = "IDLE" /\ (\E ch \in Channels : in[ch].valid)
                     THEN "IN_DATA" ELSE ib_state
  <2>1. \A c, ready : IBClock(c, in, FALSE, ready) =>
          /\ NothingReplayed'
          /\ read_k_block' = read_k_block /\ weight_read_addr' = weight_read_addr
          /\ ib_state' = IF ib_state = "IDLE" /\ (\E ch \in Channels : in[ch].valid)
                         THEN "IN_DATA" ELSE ib_state
    BY <1>4, <1>r, IBQuiet
  <2> QED
    BY <1>3, <2>1
<1>7. ~AllKBlocksDone(cfg)
  BY <1>o DEF AllKBlocksDone
<1>8. OutputAtRest' /\ result_count' = 0
  <2>1. \A c, p : ~p.valid /\ ~AllKBlocksDone(c) /\ OBClock(c, p, FALSE, rdy) =>
          /\ ~start_result' /\ ~mem_valid' /\ ~mem_valid_d1' /\ ~mem_valid_d2' /\ ~result_valid'
          /\ mem_count' = 0 /\ mem_count_d1' = 0 /\ result_col' = 0 /\ result_row' = 0
          /\ accum_mem' = accum_mem /\ read_data' = AccumWord(accum_write_addr)
    BY <1>o, OBRests DEF AccumReadAddr
  <2>2. /\ ~start_result' /\ ~mem_valid' /\ ~mem_valid_d1' /\ ~mem_valid_d2' /\ ~result_valid'
        /\ mem_count' = 0 /\ mem_count_d1' = 0 /\ result_col' = 0 /\ result_row' = 0
        /\ accum_mem' = accum_mem /\ read_data' = AccumWord(accum_write_addr)
    BY <2>1, <1>3, <1>7
  <2>3. result_count' = 0
    BY <1>3, <1>o DEF OBClock, NextResultCount
  <2>4. k_block_done' = 0 /\ accum_write_addr' = 0
    BY <1>3, <1>7, <1>o DEF OBClock, NextKBlockDone, NextAccumWriteAddr
  <2>5. received' = 0
    BY <1>p, <1>o
  <2>6. read_data' = Zero
    BY <2>2, <1>o DEF AllZero, AccumWord
  <2>7. AllZero'
    BY <2>2, <1>o DEF AllZero
  <2> QED
    BY <2>2, <2>3, <2>4, <2>5, <2>6, <2>7 DEF OutputAtRest, ReadoutAtRest
<1>9. ~InputAccept(in) => NothingWritten'
  <2> SUFFICES ASSUME ~InputAccept(in) PROVE NothingWritten'
    OBVIOUS
  <2>1. \A ch \in Channels : ~StreamAccept(in, ch)
    BY DEF InputAccept
  <2>2. ~StartReadout(cfg, FALSE)
    BY <1>4 DEF StartReadout
  <2>3. \A ch \in Channels : write_count'[ch] = write_count[ch] /\ write_addr'[ch] = write_addr[ch]
    BY <1>3, <2>1, <2>2 DEF IBClock, NextWriteCount, NextWriteAddr
  <2> QED
    BY <2>3, <1>r DEF NothingWritten
<1>10. CoreActivity(in) <=> InputAccept(in)
  BY <1>2, <1>r, <1>o DEF CoreActivity
<1>11. core_active' <=> InputAccept(in)
  BY <1>p, <1>1, <1>10, <1>r DEF NextCoreActive
<1>12. ~InputAccept(in) => cfg' = regs
  BY <1>p, <1>10, <1>r DEF NextCfg
<1>13. job_busy' <=> InputAccept(in)
  BY <1>p, <1>1, <1>r, <1>o DEF NextJobBusy
<1> QED
  BY <1>13, <1>1, <1>3, <1>4, <1>5, <1>6, <1>8, <1>9, <1>11, <1>12, <1>r

\* A beat is accepted only for the job that is configured.
LEMMA StartIsConfigured ==
  ASSUME PlainJobs, HostInv, Resting, NEW c, c = JobConfig(job),
         NEW v \in [Channels -> BOOLEAN], \A ch \in Channels : MayOffer(v, ch),
         NEW in, in = InputStreams(v), \E ch \in Channels : in[ch].valid
  PROVE  job <= Jobs /\ settled = SettleClocks /\ settled > 0 /\ written = 4 /\ cfg = c
<1>1. PICK ch \in Channels : in[ch].valid
  OBVIOUS
<1>2. job <= Jobs /\ MayStream
  BY <1>1, HostOffers
<1>3. ~JobStarted
  BY DEF Resting, JobStarted, Channels
<1>4. settled = SettleClocks /\ settled > 0
  BY <1>2, <1>3, SettleClocksAssumption DEF MayStream, PlainJobs
<1> QED
  BY <1>2, <1>4 DEF Resting

LEMMA RestNext ==
  ASSUME PlainJobs, NEW c, c = JobConfig(job), HostInv, Memories, Resting,
         NEW v \in [Channels -> BOOLEAN], NEW rdy \in BOOLEAN, NEW clear \in BOOLEAN,
         Clock(v, rdy, clear), ~InputAccept(InputStreams(v)), HostInv',
         written = 4 => written' = 4 /\ regs' = regs
  PROVE  Resting' /\ job' = job
<1> DEFINE in == InputStreams(v)
<1>s. in = InputStreams(v) /\ ~InputAccept(in)
  OBVIOUS
<1> HIDE DEF in
<1>1. /\ ~FinalResultAccept(rdy) /\ ~JobStarted
      /\ FeederAtRest(FALSE)' /\ NoTileStored' /\ OutputAtRest' /\ result_count' = 0
      /\ NothingReplayed' /\ read_k_block' = 0 /\ weight_read_addr' = 0
      /\ ib_state' = IF ib_state = "IDLE" /\ (\E ch \in Channels : in[ch].valid)
                     THEN "IN_DATA" ELSE ib_state
      /\ NothingWritten' /\ ~core_active' /\ ~job_busy' /\ cfg' = regs
      /\ IBClock(cfg, in, FALSE, FeederReady)
  BY <1>s, RestingNext
<1>p. /\ \A ch \in Channels : MayOffer(v, ch)
      /\ BFClock(cfg) /\ OBClock(cfg, PartialOut, PartialLast, rdy)
      /\ settled' = IF written = 4 /\ ~JobStarted /\ settled < SettleClocks
                    THEN settled + 1 ELSE settled
      /\ \A ch \in Channels : sent'[ch] = sent[ch]
      /\ job' = job /\ shapes' = shapes
  <2>1. FALSE <=> ~JobStarted /\ InputAccept(in)
    BY <1>s
  <2>2. \A ch \in Channels : ~StreamAccept(in, ch)
    BY <1>s DEF InputAccept
  <2> QED
    BY <2>1, <2>2, <1>1, <1>s, ClockParts
<1>r. /\ \A ch \in Channels : sent[ch] = 0
      /\ ib_state \in {"IDLE", "IN_DATA"}
      /\ settled > 0 => written = 4 /\ cfg = JobConfig(job)
      /\ ib_state = "IN_DATA" =>
           job <= Jobs /\ settled > 0 /\ Sized(JobConfig(job)) /\ result_count = 0
      /\ settled \in Nat /\ SettleClocks \in Nat
  <2>1. settled \in Nat
    BY SettleClocksAssumption DEF HostInv
  <2> QED
    BY <2>1, SettleClocksAssumption DEF Resting
<1>2. \A ch \in Channels : sent'[ch] = 0
  BY <1>p, <1>r
<1>3. JobConfig(job)' = c
  BY <1>p DEF JobConfig
<1>4. written = 4 => regs = c
  <2> SUFFICES ASSUME written = 4 PROVE regs = c
    OBVIOUS
  <2>1. NextToWrite = job
    BY <1>1 DEF NextToWrite
  <2>2. \A i \in 1..4 : regs[RegisterOrder[i]] = c[RegisterOrder[i]]
    BY <2>1 DEF HostInv
  <2>3. /\ regs["shift"] = c["shift"] /\ regs["rows"] = c["rows"]
        /\ regs["k"] = c["k"] /\ regs["n"] = c["n"]
    BY <2>2 DEF RegisterOrder
  <2>4. regs = [r \in {"rows", "k", "n", "shift"} |-> regs[r]]
    BY DEF HostInv
  <2>5. c = [r \in {"rows", "k", "n", "shift"} |-> c[r]]
    BY DEF JobConfig
  <2> QED
    BY <2>3, <2>4, <2>5
<1>5. settled' > 0 => written' = 4 /\ cfg' = JobConfig(job)'
  <2> SUFFICES ASSUME settled' > 0 PROVE written' = 4 /\ cfg' = JobConfig(job)'
    OBVIOUS
  <2>1. written = 4
    BY <1>p, <1>r
  <2> QED
    BY <2>1, <1>1, <1>3, <1>4
<1>6. ib_state' = "IN_DATA" =>
        job' <= Jobs /\ settled' > 0 /\ Sized(JobConfig(job))'
  <2> SUFFICES ASSUME ib_state' = "IN_DATA"
               PROVE  job' <= Jobs /\ settled' > 0 /\ Sized(JobConfig(job))'
    OBVIOUS
  <2>1. job <= Jobs /\ settled > 0 /\ cfg = c
    <3>1. CASE ib_state = "IN_DATA"
      BY <3>1, <1>r
    <3>2. CASE ib_state # "IN_DATA"
      <4>1. \E ch \in Channels : in[ch].valid
        BY <3>2, <1>1, <1>r
      <4> QED
        BY <4>1, <1>p, <1>s, StartIsConfigured
    <3> QED
      BY <3>1, <3>2
  <2>2. Sized(c)'
    BY <2>1, <1>1, <1>p DEF IBClock, BFClock, OBClock, Sized
  <2>3. settled' > 0
    BY <2>1, <1>p, <1>r
  <2>4. Sized(JobConfig(job))'
    BY <2>2, <1>3 DEF Sized
  <2> QED
    BY <2>1, <2>3, <2>4, <1>p
<1>7. ib_state' \in {"IDLE", "IN_DATA"}
  BY <1>1, <1>r
<1> QED
  BY <1>1, <1>2, <1>5, <1>6, <1>7, <1>p DEF Resting

\* The first beat of a job.
LEMMA JobStarts ==
  ASSUME PlainJobs, NEW c, c = JobConfig(job), HostInv, Memories, Resting,
         NEW v \in [Channels -> BOOLEAN], NEW rdy \in BOOLEAN, NEW clear \in BOOLEAN,
         Clock(v, rdy, clear), InputAccept(InputStreams(v))
  PROVE  /\ job <= Jobs /\ written = 4 /\ cfg = c
         /\ job' = job /\ JobConfig(job)' = c
         /\ Running(c)' /\ LoadPhase(c)'
<1> DEFINE in == InputStreams(v)
<1>s. in = InputStreams(v) /\ InputAccept(in)
  OBVIOUS
<1> HIDE DEF in
<1>1. /\ ~FinalResultAccept(rdy) /\ ~JobStarted
      /\ FeederAtRest(FALSE)' /\ NoTileStored' /\ OutputAtRest' /\ result_count' = 0
      /\ core_active' /\ ~AllWordsStored
      /\ IBClock(cfg, in, FALSE, FeederReady)
  BY <1>s, RestingNext
<1>p. /\ \A ch \in Channels : MayOffer(v, ch)
      /\ BFClock(cfg) /\ OBClock(cfg, PartialOut, PartialLast, rdy)
      /\ settled' = 0 /\ cfg' = NextCfg(in, regs) /\ job_busy' = NextJobBusy(in, rdy)
      /\ \A ch \in Channels :
           sent'[ch] = IF StreamAccept(in, ch) THEN sent[ch] + 1 ELSE sent[ch]
      /\ job' = job /\ shapes' = shapes
  <2>1. TRUE <=> ~JobStarted /\ InputAccept(in)
    BY <1>1, <1>s
  <2> QED
    BY <2>1, <1>1, <1>s, ClockParts
<1>2. PICK ch \in Channels : StreamAccept(in, ch)
  BY <1>s DEF InputAccept
<1>3. in[ch].valid /\ ib_state = "IN_DATA"
  BY <1>2 DEF StreamAccept, StreamReady
<1>4. job <= Jobs /\ written = 4 /\ cfg = c
  BY <1>3, <1>p, <1>s, StartIsConfigured
<1>r. /\ \A x \in Channels : sent[x] = 0
      /\ NothingWritten /\ NothingReplayed /\ read_k_block = 0 /\ weight_read_addr = 0
      /\ FeederAtRest(FALSE) /\ NoTileStored /\ Sized(c)
  BY <1>3 DEF Resting
<1>5. IsConfig(c)
  BY <1>4, JobConfigs
<1>6. Loading(c)
  <2>1. \A x \in Channels : StreamWords(c, x) \in Nat
    BY <1>5, StreamSize
  <2>2. \A x \in Channels : /\ write_count[x] = sent[x] /\ sent[x] \in 0..StreamWords(c, x)
                            /\ write_addr[x] = IF sent[x] = StreamWords(c, x) THEN 0 ELSE sent[x]
    BY <2>1, <1>r DEF NothingWritten
  <2>3. \A x \in Channels : Stored(c, x, sent[x])
    BY <1>r DEF Stored
  <2> QED
    BY <2>2, <2>3, <1>3, <1>r DEF Loading
<1>7. Loading(c)'
  <2>1. \A x \in Channels : in[x].valid =>
          /\ sent[x] < StreamWords(c, x) /\ in[x].data = <<c.shift, sent[x]>>
          /\ in[x].last <=> sent[x] = StreamWords(c, x) - 1
    BY <1>p, <1>s, HostOffers
  <2>2. IBClock(c, in, FALSE, FeederReady)
    BY <1>1, <1>4
  <2> QED
    BY <2>1, <2>2, <1>1, <1>p, <1>5, <1>6, IBLoads
<1>8. ~both_full_d1'
  <2>1. tile_count["feature"] = 0 /\ total_words["feature"] = c.rows /\ c.rows >= 2
    BY <1>r, <1>5, ConfigSize DEF NoTileStored, Sized, Channels
  <2>2. ~BothFull
    BY <2>1 DEF BothFull, Channels
  <2> QED
    BY <2>2, <1>p DEF BFClock
<1>9. JobStarted'
  <2>1. sent'[ch] = 1
    BY <1>2, <1>p, <1>r
  <2> QED
    BY <2>1 DEF JobStarted, Channels
<1>10. Accumulating(c, 0, 0)' /\ PrefetchFresh'
  <2>1. /\ ReadoutAtRest' /\ AllZero' /\ received' = 0
        /\ k_block_done' = 0 /\ accum_write_addr' = 0 /\ read_data' = Zero
    BY <1>1 DEF OutputAtRest
  <2>2. \A a \in 0..OutputDepth-1 : accum_mem'[a] = Zero
    BY <2>1 DEF AllZero
  <2>3. Accumulated(c, 0, 0)'
    <3>1. ASSUME NEW m \in 0..c.rows-1, NEW nb \in 0..c.n-1
          PROVE  accum_mem'[WordAddr(c, m, nb)] =
                   Sums(c, nb, m, IF WordAddr(c, m, nb) < 0 THEN 0 + 1 ELSE 0)
      <4>1. WordAddr(c, m, nb) \in 0..OutputDepth-1 /\ ~(WordAddr(c, m, nb) < 0)
        BY <1>5, ResultPlaces
      <4>2. Sums(c, nb, m, 0) = Zero
        BY DEF Sums, Zero
      <4> QED
        BY <4>1, <4>2, <2>2
    <3> QED
      BY <3>1, <2>2 DEF Accumulated, Unused
  <2>4. PrefetchFresh'
    BY <2>1, <2>2 DEF PrefetchFresh, AccumWord
  <2> QED
    BY <2>1, <2>3, <2>4, <1>1 DEF Accumulating
<1>11. LoadPhase(c)'
  BY <1>1, <1>7, <1>8, <1>9, <1>10 DEF LoadPhase
<1>12. Running(c)'
  <2>1. cfg' = c
    BY <1>p, <1>4, <1>s DEF NextCfg, CoreActivity
  <2>2. job_busy'
    BY <1>p, <1>1, <1>s DEF NextJobBusy
  <2>3. Sized(c)' /\ words_expected'["weight"] = c.n * (c.k * ArraySize)
    BY <1>1, <1>4, <1>p, <1>r DEF IBClock, BFClock, OBClock, Sized
  <2> QED
    BY <2>1, <2>2, <2>3, <1>1, <1>p DEF Running
<1>13. JobConfig(job)' = c
  BY <1>p DEF JobConfig
<1> QED
  BY <1>4, <1>11, <1>12, <1>13, <1>p

-----------------------------------------------------------------------------
(* Scheduled is an invariant *)

LEMMA InitScheduled == Init => Scheduled
<1> SUFFICES ASSUME Init PROVE Scheduled
  OBVIOUS
<1>i. TopInit /\ IBInit /\ BFInit /\ OBInit
  BY DEF Init, TopInit
<1>1. HostInv
  <2>1. \A i : i \notin 1..0
    OBVIOUS
  <2>2. regs = [r \in {"rows", "k", "n", "shift"} |-> regs[r]]
    BY DEF Init, ResetConfig
  <2> QED
    BY <2>1, <2>2, JobsAssumption, SettleClocksAssumption DEF Init, HostInv
<1>2. Memories
  <2>1. shift_reg = [i \in 1..ArraySize |-> shift_reg[i]]
    BY <1>i DEF BFInit, NoTile
  <2> QED
    BY <2>1, <1>i DEF IBInit, BFInit, OBInit, Memories
<1>3. /\ NothingWritten /\ NothingReplayed /\ read_k_block = 0 /\ weight_read_addr = 0
      /\ ib_state = "IDLE"
  BY <1>i DEF IBInit, NothingWritten, NothingReplayed
<1>4. FeederAtRest(FALSE) /\ NoTileStored
  BY <1>i DEF BFInit, FeederAtRest, NoTileStored
<1>5. OutputAtRest
  BY <1>i DEF Init, OBInit, OutputAtRest, ReadoutAtRest, AllZero
<1>6. ~core_active /\ ~job_busy /\ (\A ch \in Channels : sent[ch] = 0) /\ ~(settled > 0)
  BY DEF Init, TopInit
<1> QED
  BY <1>1, <1>2, <1>3, <1>4, <1>5, <1>6 DEF Scheduled, Resting

LEMMA ScheduledNext ==
  ASSUME PlainJobs, Scheduled,
         NEW v \in [Channels -> BOOLEAN], NEW rdy \in BOOLEAN, NEW clear \in BOOLEAN,
         Clock(v, rdy, clear)
  PROVE  Scheduled'
<1> DEFINE in == InputStreams(v)
<1>0. PICK c : c = JobConfig(job)
  OBVIOUS
<1>h. HostInv /\ Memories /\ Memories'
  BY MemoriesNext DEF Scheduled
<1>1. CASE Resting /\ InputAccept(in)
  <2>1. /\ job <= Jobs /\ written = 4 /\ job' = job /\ JobConfig(job)' = c
        /\ Running(c)' /\ LoadPhase(c)'
    BY <1>0, <1>1, <1>h, JobStarts
  <2>2. ~JobStarted /\ ~FinalResultAccept(rdy)
    BY <1>1, RestingNext
  <2>3. TRUE <=> ~JobStarted /\ InputAccept(in)
    BY <1>1, <2>2
  <2>4. HostInv'
    BY <1>h, <2>1, <2>2, <2>3, HostNext
  <2>5. RunPhase(c)'
    BY <2>1 DEF RunPhase
  <2>6. Running(JobConfig(job))' /\ RunPhase(JobConfig(job))'
    BY <2>1, <2>5
  <2> QED
    BY <1>h, <2>1, <2>4, <2>6 DEF Scheduled
<1>2. CASE Resting /\ ~InputAccept(in)
  <2>1. ~JobStarted /\ ~FinalResultAccept(rdy)
    BY <1>2, RestingNext
  <2>2. FALSE <=> ~JobStarted /\ InputAccept(in)
    BY <1>2
  <2>3. \A ch \in Channels : ~StreamAccept(in, ch)
    BY <1>2 DEF InputAccept
  <2>4. job' = job /\ \A ch \in Channels : sent'[ch] = 0
    BY <1>2, <2>1, <2>2, <2>3, ClockParts DEF Resting
  <2>5. ~JobStarted'
    BY <2>4 DEF JobStarted, Channels
  <2>6. NextToWrite' = NextToWrite
    BY <2>1, <2>4, <2>5 DEF NextToWrite
  <2>7. HostInv' /\ (written = 4 => written' = 4 /\ regs' = regs)
    BY <1>h, <2>1, <2>2, <2>6, HostNext
  <2>8. Resting'
    BY <1>0, <1>2, <1>h, <2>7, RestNext
  <2> QED
    BY <1>h, <2>7, <2>8 DEF Scheduled
<1>3. CASE ~Resting
  <2>1. job <= Jobs /\ Running(c) /\ RunPhase(c)
    BY <1>0, <1>3 DEF Scheduled
  <2>2. IsConfig(c) /\ JobStarted
    BY <1>0, <1>h, <2>1, JobConfigs, JobRuns
  <2>3. FALSE <=> ~JobStarted /\ InputAccept(in)
    BY <2>2
  <2>4. CASE ~FinalResultAccept(rdy)
    <3>1. Running(c)' /\ RunPhase(c)' /\ job' = job /\ JobConfig(job)' = c /\ JobStarted'
      BY <1>0, <1>h, <2>1, <2>4, RunNext
    <3>2. NextToWrite' = NextToWrite
      BY <2>2, <3>1 DEF NextToWrite
    <3>3. HostInv'
      BY <1>h, <2>1, <2>3, <3>2, HostNext
    <3>4. Running(JobConfig(job))' /\ RunPhase(JobConfig(job))' /\ job' <= Jobs
      BY <2>1, <3>1
    <3> QED
      BY <1>h, <3>3, <3>4 DEF Scheduled
  <2>5. CASE FinalResultAccept(rdy)
    <3>1. Resting' /\ job' = job + 1
      BY <1>0, <1>h, <2>1, <2>5, RunEnds
    <3>2. ~JobStarted'
      BY <3>1 DEF Resting, JobStarted, Channels
    <3>3. NextToWrite' = NextToWrite
      BY <2>2, <3>1, <3>2 DEF NextToWrite
    <3>4. HostInv'
      BY <1>h, <2>1, <2>3, <3>3, HostNext
    <3> QED
      BY <1>h, <3>1, <3>4 DEF Scheduled
  <2> QED
    BY <2>4, <2>5
<1> QED
  BY <1>1, <1>2, <1>3

\* A clock on which nothing changes changes no phase.
LEMMA PhasesStutter ==
  ASSUME UNCHANGED vars, NEW c
  PROVE  (Running(c)' <=> Running(c)) /\ (RunPhase(c)' <=> RunPhase(c))
<1>1. UNCHANGED <<ibVars, bfVars, obVars, topVars, hostVars>>
  BY DEF vars
<1>i. /\ UNCHANGED <<ib_state, words_expected, k_elements, write_count, write_addr, buffer_mem>>
      /\ UNCHANGED <<buffer_valid, buffer_count, buffer_data, read_row, read_k_block, weight_read_addr>>
  BY <1>1 DEF ibVars
<1>f. UNCHANGED <<bf_state, start, weight_loaded_d1, w_end, weight_flag_up, both_full_d1,
                  total_words, tile_count, tile_addr, tile_mem, input_valid, input_data,
                  input_cnt, feature_addr, weight_row, weight_col, shift_reg, shift_cnt,
                  loading_weights, pe_weights, pipe>>
  BY <1>1 DEF bfVars
<1>o. UNCHANGED <<accum_mem, read_data, results_expected, accum_write_addr, k_block_done,
                  start_result, mem_valid, mem_valid_d1, mem_valid_d2, mem_count, mem_count_d1,
                  mem_data_d1, result_col, result_row, clear_addr, result_valid, result_data,
                  result_count>>
  BY <1>1 DEF obVars
<1>t. UNCHANGED <<core_active, cfg, job_busy, sent, received, settled>>
  BY <1>1 DEF topVars, hostVars
<1>c. /\ \A ch : StreamWords(c, ch)' = StreamWords(c, ch) /\ Beats(c, ch)' = Beats(c, ch)
      /\ FillClocks(c)' = FillClocks(c) /\ TileClocks(c)' = TileClocks(c)
      /\ ResultWords(c)' = ResultWords(c)
      /\ \A a : WrapWeights(c, a)' = WrapWeights(c, a)
  BY DEF StreamWords, FillClocks, TileClocks, ResultWords, ResultLatency, Beats, ReplayBeats,
         WrapWeights
<1>2. Running(c)' <=> Running(c)
  BY <1>i, <1>f, <1>o, <1>t DEF Running, Sized
<1>s. \A ch, n : Stored(c, ch, n)' <=> Stored(c, ch, n)
  BY <1>i DEF Stored
<1>n. (NothingReplayed' <=> NothingReplayed) /\ (NothingWritten' <=> NothingWritten)
  BY <1>i DEF NothingReplayed, NothingWritten
<1>3. Loading(c)' <=> Loading(c)
  BY <1>i, <1>t, <1>c, <1>s, <1>n DEF Loading, Stored
<1>4. AllStored(c)' <=> AllStored(c)
  BY <1>i, <1>t, <1>c, <1>s, <1>n DEF AllStored, Stored
<1>5. \A b, i : Replaying(c, b, i)' <=> Replaying(c, b, i)
  BY <1>i, <1>c DEF Replaying
<1>6. \A b : Replayed(c, b)' <=> Replayed(c, b)
  BY <1>i, <1>c, <1>n DEF Replayed
<1>7. /\ \A flag : FeederAtRest(flag)' <=> FeederAtRest(flag)
      /\ NoTileStored' <=> NoTileStored
  BY <1>f DEF FeederAtRest, NoTileStored
<1>8. \A b, ch, n : TileStored(c, b, ch, n)' <=> TileStored(c, b, ch, n)
  BY <1>f, <1>c DEF TileStored, TileSource
<1>9. \A b, i : Filling(c, b, i)' <=> Filling(c, b, i)
  BY <1>f, <1>7, <1>8, <1>c DEF Filling
<1>10. \A b, nb, q : Streaming(c, b, nb, q)' <=> Streaming(c, b, nb, q)
  <2>1. \A nb, q : StreamControl(c, nb, q)' <=> StreamControl(c, nb, q)
    BY <1>f DEF StreamControl
  <2>2. \A b : TilesHeld(c, b)' <=> TilesHeld(c, b)
    BY <1>f, <1>8, <1>c DEF TilesHeld
  <2>3. \A b, nb, q : StreamWeights(c, b, nb, q)' <=> StreamWeights(c, b, nb, q)
    BY <1>f DEF StreamWeights, Shifting, WeightWord, Tile, Beats, ReplayBeats
  <2>4. \A b, q : StreamRows(c, b, q)' <=> StreamRows(c, b, q)
    BY <1>f DEF StreamRows, RowEntering
  <2>5. \A b, nb, q : StreamArray(c, b, nb, q)' <=> StreamArray(c, b, nb, q)
    BY <1>f DEF StreamArray, InArray, RowSum, Tile, WeightWord, Beats, ReplayBeats, ResultLatency, Bubble
  <2> QED
    BY <2>1, <2>2, <2>3, <2>4, <2>5 DEF Streaming
<1>11. /\ ReadoutAtRest' <=> ReadoutAtRest
       /\ \A b, done : Accumulated(c, b, done)' <=> Accumulated(c, b, done)
  BY <1>o DEF ReadoutAtRest, Accumulated, Unused, WordAddr, Sums, RowSum, Tile, WeightWord,
              Beats, ReplayBeats, ResultWords
<1>12. \A b, done : Accumulating(c, b, done)' <=> Accumulating(c, b, done)
  BY <1>o, <1>t, <1>11 DEF Accumulating
<1>13. PrefetchFresh' <=> PrefetchFresh
  BY <1>o DEF PrefetchFresh, AccumWord
<1>14. ReadoutAwaited(c)' <=> ReadoutAwaited(c)
  BY <1>o, <1>t, <1>11 DEF ReadoutAwaited
<1>15. \A x : ReadingOut(c, x)' <=> ReadingOut(c, x)
  <2>1. \A x : ReadoutFlags(c, x)' <=> ReadoutFlags(c, x)
    BY <1>o, <1>c DEF ReadoutFlags
  <2>2. \A x : ReadoutCounters(c, x)' <=> ReadoutCounters(c, x)
    BY <1>o, <1>t, <1>c DEF ReadoutCounters
  <2>3. \A x : ReadoutAddresses(c, x)' <=> ReadoutAddresses(c, x)
    BY <1>o, <1>c DEF ReadoutAddresses, AddrOfWord, WordAddr, WordIndex, AtMost
  <2>5. \A x : ReadoutData(c, x)' <=> ReadoutData(c, x)
    BY <1>o, <1>c DEF ReadoutData, Complete, WordIndex, Sums, RowSum, Tile, WeightWord, Beats,
                      ReplayBeats
  <2>6. \A x : ReadoutMemory(c, x)' <=> ReadoutMemory(c, x)
    BY <1>o, <1>c DEF ReadoutMemory, Unused, AtMost, WordAddr, WordIndex, Sums, RowSum, Tile,
                      WeightWord, Beats, ReplayBeats
  <2> QED
    BY <2>1, <2>2, <2>3, <2>5, <2>6 DEF ReadingOut
<1>16. \A flag : Computed(c, flag)' <=> Computed(c, flag)
  BY <1>i, <1>4, <1>7, <1>n DEF Computed
<1>17. LoadPhase(c)' <=> LoadPhase(c)
  BY <1>f, <1>t, <1>3, <1>7, <1>12, <1>13 DEF LoadPhase, JobStarted, Channels
<1>18. \A b, i : FillPhase(c, b, i)' <=> FillPhase(c, b, i)
  BY <1>4, <1>5, <1>9, <1>12, <1>13 DEF FillPhase
<1>19. \A b, nb, q : TilePhase(c, b, nb, q)' <=> TilePhase(c, b, nb, q)
  BY <1>4, <1>6, <1>10, <1>12, <1>13 DEF TilePhase, RowsOut, InArray, ResultLatency
<1>20. (EndPhase(c)' <=> EndPhase(c)) /\ (AwaitPhase(c)' <=> AwaitPhase(c))
  BY <1>12, <1>14, <1>16 DEF EndPhase, AwaitPhase
<1>21. \A x : ReadoutPhase(c, x)' <=> ReadoutPhase(c, x)
  BY <1>15, <1>16 DEF ReadoutPhase
<1>22. RunPhase(c)' <=> RunPhase(c)
  BY <1>c, <1>17, <1>18, <1>19, <1>20, <1>21 DEF RunPhase
<1> QED
  BY <1>2, <1>22

LEMMA ScheduledStutter ==
  ASSUME UNCHANGED vars, Scheduled
  PROVE  Scheduled'
<1>1. UNCHANGED <<ibVars, bfVars, obVars, topVars, hostVars>>
  BY DEF vars
<1>2. HostInv'
  BY <1>1 DEF Scheduled, HostInv, NextToWrite, JobStarted, JobConfig, RegisterOrder, hostVars,
              Channels
<1>3. Memories'
  BY <1>1 DEF Scheduled, Memories, ibVars, bfVars, obVars
<1>4. JobConfig(job)' = JobConfig(job) /\ job' = job
  BY <1>1 DEF JobConfig, hostVars
<1>5. Resting => Resting'
  <2>1. OutputAtRest' <=> OutputAtRest
    BY <1>1 DEF OutputAtRest, ReadoutAtRest, AllZero, obVars, hostVars
  <2>2. FeederAtRest(FALSE)' <=> FeederAtRest(FALSE)
    BY <1>1 DEF FeederAtRest, bfVars
  <2> QED
    BY <1>1, <1>4, <2>1, <2>2 DEF Resting, NothingWritten, NothingReplayed, NoTileStored, Sized,
       ibVars, bfVars, obVars, topVars, hostVars
<1>6. \A c : (Running(c)' <=> Running(c)) /\ (RunPhase(c)' <=> RunPhase(c))
  BY PhasesStutter
<1>7. PICK c : c = JobConfig(job)
  OBVIOUS
<1>8. Running(JobConfig(job)) /\ RunPhase(JobConfig(job))
        => Running(JobConfig(job))' /\ RunPhase(JobConfig(job))'
  <2>1. Running(c) /\ RunPhase(c) => Running(c)' /\ RunPhase(c)'
    BY <1>6
  <2>2. JobConfig(job)' = c
    BY <1>4, <1>7
  <2> QED
    BY <1>7, <2>1, <2>2
<1> QED
  BY <1>2, <1>3, <1>4, <1>5, <1>8 DEF Scheduled

\* The hypothesis on the jobs is carried along: it never changes.
ScheduleInv == PlainJobs /\ Scheduled

LEMMA ScheduleInvNext == ScheduleInv /\ [Next]_vars => ScheduleInv'
<1> SUFFICES ASSUME ScheduleInv, [Next]_vars PROVE ScheduleInv'
  OBVIOUS
<1>p. PlainJobs' <=> PlainJobs
  BY DEF PlainJobs
<1>1. CASE Next
  BY <1>1, <1>p, ScheduledNext DEF Next, ScheduleInv
<1>2. CASE UNCHANGED vars
  BY <1>2, <1>p, ScheduledStutter DEF ScheduleInv
<1> QED
  BY <1>1, <1>2

\* In every state of a run the schedule holds.
LEMMA SpecScheduled == PlainJobs /\ Spec => []ScheduleInv
<1>1. PlainJobs /\ Init => ScheduleInv
  BY InitScheduled DEF ScheduleInv
<1> QED
  BY <1>1, ScheduleInvNext, PTL DEF Spec

-----------------------------------------------------------------------------
(* What the schedule implies *)

LEMMA RestingNotStarted ==
  ASSUME Resting
  PROVE  ~JobStarted
BY DEF Resting, JobStarted, Channels

LEMMA StartedRuns ==
  ASSUME ScheduleInv, JobStarted, NEW c, c = JobConfig(job)
  PROVE  /\ job <= Jobs /\ Running(c) /\ RunPhase(c) /\ IsConfig(c) /\ HostInv
<1>1. ~Resting
  BY RestingNotStarted
<1>2. job <= Jobs /\ Running(c) /\ RunPhase(c) /\ HostInv
  BY <1>1 DEF ScheduleInv, Scheduled
<1> QED
  BY <1>2, JobConfigs DEF ScheduleInv

LEMMA ScheduleConfig == ScheduleInv => ConfigFrozen
<1> SUFFICES ASSUME ScheduleInv, JobStarted PROVE cfg = JobConfig(job)
  BY DEF ConfigFrozen
<1>1. Running(JobConfig(job))
  <2>1. ~Resting
    BY RestingNotStarted
  <2> QED
    BY <2>1 DEF ScheduleInv, Scheduled
<1> QED
  BY <1>1 DEF Running

\* What is silent in each phase.
LEMMA SilentPhases ==
  ASSUME NEW c, RunPhase(c)
  PROVE  /\ \/ \A ch \in Channels : ~buffer_valid[ch]
            \/ \E b \in 0..c.k-1, i \in 0..FillClocks(c) : FillPhase(c, b, i)
         /\ \/ \A d \in 0..ResultLatency : ~pipe[d].valid
            \/ \E b \in 0..c.k-1, nb \in 0..c.n-1, q \in 0..TileClocks(c)-1 :
                 TilePhase(c, b, nb, q)
         /\ result_valid => \E x \in 0..ResultWords(c)+2 : ReadoutPhase(c, x)
<1>r. \A flag : FeederAtRest(flag) => \A d \in 0..ResultLatency : ~pipe[d].valid
  BY DEF FeederAtRest, Bubble
<1>1. CASE LoadPhase(c)
  BY <1>1, <1>r DEF LoadPhase, Loading, NothingReplayed, Accumulating, ReadoutAtRest
<1>2. ASSUME NEW b \in 0..c.k-1, NEW i \in 0..FillClocks(c), FillPhase(c, b, i)
      PROVE  (\A d \in 0..ResultLatency : ~pipe[d].valid) /\ ~result_valid
  BY <1>2, <1>r DEF FillPhase, Filling, Accumulating, ReadoutAtRest
<1>3. ASSUME NEW b \in 0..c.k-1, NEW nb \in 0..c.n-1, NEW q \in 0..TileClocks(c)-1,
             TilePhase(c, b, nb, q)
      PROVE  (\A ch \in Channels : ~buffer_valid[ch]) /\ ~result_valid
  BY <1>3 DEF TilePhase, Replayed, NothingReplayed, Accumulating, ReadoutAtRest
<1>4. CASE EndPhase(c) \/ AwaitPhase(c)
  <2>1. \E flag : Computed(c, flag)
    BY <1>4 DEF EndPhase, AwaitPhase
  <2>2. ~result_valid
    BY <1>4 DEF EndPhase, AwaitPhase, Accumulating, ReadoutAtRest, ReadoutAwaited
  <2> QED
    BY <2>1, <2>2, <1>r DEF Computed, NothingReplayed
<1>5. ASSUME NEW x \in 0..ResultWords(c)+2, ReadoutPhase(c, x)
      PROVE  /\ \A ch \in Channels : ~buffer_valid[ch]
             /\ \A d \in 0..ResultLatency : ~pipe[d].valid
  BY <1>5, <1>r DEF ReadoutPhase, Computed, NothingReplayed
<1> QED
  BY <1>1, <1>2, <1>3, <1>4, <1>5 DEF RunPhase

LEMMA RestingIsSilent ==
  ASSUME Resting
  PROVE  /\ \A ch \in Channels : ~buffer_valid[ch]
         /\ \A d \in 0..ResultLatency : ~pipe[d].valid
         /\ ~result_valid
BY DEF Resting, NothingReplayed, FeederAtRest, Bubble, OutputAtRest, ReadoutAtRest

LEMMA ScheduleReplay == ScheduleInv => ReplayNeverStalls
<1> SUFFICES ASSUME ScheduleInv, NEW ch \in Channels, buffer_valid[ch] PROVE TileReady(ch)
  BY DEF ReplayNeverStalls
<1>1. PICK c : c = JobConfig(job)
  OBVIOUS
<1>2. job <= Jobs /\ Running(c) /\ RunPhase(c) /\ HostInv
  BY <1>1, RestingIsSilent DEF ScheduleInv, Scheduled
<1>3. IsConfig(c)
  BY <1>1, <1>2, JobConfigs DEF ScheduleInv
<1>4. PICK b \in 0..c.k-1, i \in 0..FillClocks(c) : FillPhase(c, b, i)
  BY <1>2, SilentPhases
<1>5. i < Beats(c, ch) /\ tile_count[ch] = i
  <2>1. i < Beats(c, ch)
    BY <1>4 DEF FillPhase, Replaying
  <2> QED
    BY <2>1, <1>4 DEF FillPhase, Filling
<1>6. total_words[ch] = Beats(c, ch) /\ Beats(c, ch) \in Nat /\ Beats(c, ch) >= 2
  BY <1>2, <1>3, RunningSizes, ConfigSize
<1> QED
  BY <1>5, <1>6 DEF TileReady

LEMMA ScheduleWeights == ScheduleInv => WeightsStationary
<1> SUFFICES ASSUME ScheduleInv, NEW d \in 0..ResultLatency, pipe[d].valid
             PROVE  pipe[d].sum[2] = pe_weights
  BY DEF WeightsStationary
<1>1. PICK c : c = JobConfig(job)
  OBVIOUS
<1>2. job <= Jobs /\ Running(c) /\ RunPhase(c) /\ HostInv
  BY <1>1, RestingIsSilent DEF ScheduleInv, Scheduled
<1>3. IsConfig(c)
  BY <1>1, <1>2, JobConfigs DEF ScheduleInv
<1>4. PICK b \in 0..c.k-1, nb \in 0..c.n-1, q \in 0..TileClocks(c)-1 : TilePhase(c, b, nb, q)
  BY <1>2, SilentPhases
<1>5. StreamArray(c, b, nb, q) /\ StreamWeights(c, b, nb, q)
  BY <1>4 DEF TilePhase, Streaming
<1>6. InArray(q, d) \in 0..c.rows-1 /\ pipe[d].sum = RowSum(c, b, nb, InArray(q, d))
  <2>1. pipe[d] = IF InArray(q, d) \in 0..c.rows-1
                  THEN [valid |-> TRUE, last |-> InArray(q, d) = c.rows - 1,
                        sum |-> RowSum(c, b, nb, InArray(q, d))]
                  ELSE Bubble
    BY <1>5 DEF StreamArray
  <2>2. ~Bubble.valid
    BY DEF Bubble
  <2>3. InArray(q, d) \in 0..c.rows-1
    BY <2>1, <2>2
  <2> QED
    BY <2>1, <2>3
<1>7. q >= ArraySize + 2
  <2>1. q \in Int /\ d \in Nat /\ ArraySize \in Nat
    BY <1>3, ConfigSize, ClockRange
  <2> QED
    BY <2>1, <1>6 DEF InArray
<1>8. pe_weights = Tile(c, b, nb)
  BY <1>5, <1>7 DEF StreamWeights
<1> QED
  BY <1>6, <1>8 DEF RowSum

LEMMA ScheduleAccumulators == ScheduleInv => NothingLeftInAccumulators
<1> SUFFICES ASSUME ScheduleInv, ~JobStarted PROVE \A a \in 0..OutputDepth-1 : accum_mem[a] = Zero
  BY DEF NothingLeftInAccumulators
<1>1. PICK c : c = JobConfig(job)
  OBVIOUS
<1>2. Resting
  <2> SUFFICES ASSUME ~Resting PROVE FALSE
    OBVIOUS
  <2>1. job <= Jobs /\ RunPhase(c) /\ HostInv
    BY <1>1 DEF ScheduleInv, Scheduled
  <2>2. IsConfig(c)
    BY <1>1, <2>1, JobConfigs DEF ScheduleInv
  <2> QED
    BY <2>1, <2>2, JobRuns
<1> QED
  BY <1>2 DEF Resting, OutputAtRest, AllZero

LEMMA SchedulePrefetch == ScheduleInv => AccumulatorReadIsFresh
<1> SUFFICES ASSUME ScheduleInv, PartialValid PROVE read_data = AccumWord(accum_write_addr)
  BY DEF AccumulatorReadIsFresh
<1>1. PICK c : c = JobConfig(job)
  OBVIOUS
<1>2. ResultLatency \in 0..ResultLatency /\ pipe[ResultLatency].valid
  BY ArraySizeAssumption DEF ResultLatency, PartialValid, PartialOut
<1>3. RunPhase(c)
  BY <1>1, <1>2, RestingIsSilent DEF ScheduleInv, Scheduled
<1>4. PICK b \in 0..c.k-1, nb \in 0..c.n-1, q \in 0..TileClocks(c)-1 : TilePhase(c, b, nb, q)
  BY <1>2, <1>3, SilentPhases
<1> QED
  BY <1>4 DEF TilePhase, PrefetchFresh

\* The words of a complete accumulator are those of the exact sum.
LEMMA SumsAreExact ==
  ASSUME NEW c, NEW j, c = JobConfig(j), c.shift = j, c.rows \in Nat, c.k \in Nat, c.n \in Nat,
         c.k = shapes[j].k, c.n = shapes[j].n, NEW m \in Nat, NEW nb \in Nat
  PROVE  Sums(c, nb, m, c.k) = ExactSum(j, m, nb)
<1>a. ArraySize \in Nat
  BY ArraySizeAssumption
<1>1. \A x, A, n, i \in Nat : (x * A + i - 1) * n + nb = x * (n * A) + (i - 1) * n + nb
  <2> TAKE x \in Nat, A \in Nat, n \in Nat, i \in Nat
  <2>1. (x * A + i - 1) * n = x * (n * A) + (i - 1) * n
    OBVIOUS
  <2> QED
    BY <2>1
<1>2. ASSUME NEW t \in 1..c.k
      PROVE  RowSum(c, t - 1, nb, m) = <<<<j, m * shapes[j].k + t - 1>>, TileOf(j, t - 1, nb)>>
  <2>1. t - 1 \in Nat
    OBVIOUS
  <2>2. m * c.k + (t - 1) = m * shapes[j].k + t - 1
    <3>1. m * c.k \in Int
      OBVIOUS
    <3> QED
      BY <3>1
  <2>3. Beats(c, "weight") = c.n * ArraySize
    BY DEF Beats, ReplayBeats
  <2>4. \A i \in 1..ArraySize :
          (t - 1) * Beats(c, "weight") + (i - 1) * c.n + nb
            = ((t - 1) * ArraySize + i - 1) * shapes[j].n + nb
    BY <2>1, <2>3, <1>1, <1>a
  <2>5. Tile(c, t - 1, nb) = TileOf(j, t - 1, nb)
    BY <2>4 DEF Tile, TileOf, WeightWord
  <2> QED
    BY <2>2, <2>5 DEF RowSum
<1> QED
  BY <1>2 DEF Sums, ExactSum

\* What the result stream shows while the result is read out.
LEMMA ReadoutShows ==
  ASSUME ScheduleInv, result_valid, NEW c, c = JobConfig(job)
  PROVE  /\ job <= Jobs /\ HostInv /\ Running(c) /\ RunPhase(c) /\ IsConfig(c)
         /\ \E x \in 3..ResultWords(c)+2 :
              /\ ReadoutPhase(c, x)
              /\ received = x - 3 /\ result_count = x - 3
              /\ result_data = [acc |-> result_data.acc, shift |-> job]
              /\ Complete(c, x - 3, result_data.acc)
<1>2. job <= Jobs /\ Running(c) /\ RunPhase(c) /\ HostInv
  BY RestingIsSilent DEF ScheduleInv, Scheduled
<1>3. IsConfig(c) /\ c.shift = job
  BY <1>2, JobConfigs DEF ScheduleInv
<1>4. PICK x \in 0..ResultWords(c)+2 : ReadoutPhase(c, x)
  BY <1>2, SilentPhases
<1>c. ResultWords(c) \in Nat /\ ResultWords(c) >= 2
  BY <1>3, ResultSize
<1>5. x >= 3 /\ x \in 3..ResultWords(c)+2
  <2>1. x >= 3
    BY <1>4 DEF ReadoutPhase, ReadingOut, ReadoutFlags
  <2> QED
    BY <2>1, <1>c
<1>6. received = x - 3 /\ result_count = x - 3
  BY <1>4, <1>5, <1>c DEF ReadoutPhase, ReadingOut, ReadoutCounters
<1>7. /\ result_data = [acc |-> result_data.acc, shift |-> job]
      /\ Complete(c, x - 3, result_data.acc)
  BY <1>3, <1>4, <1>5 DEF ReadoutPhase, ReadingOut, ReadoutData
<1> QED
  BY <1>2, <1>3, <1>4, <1>5, <1>6, <1>7

LEMMA ScheduleResult == ScheduleInv => ResultBeatsExact
<1> SUFFICES ASSUME ScheduleInv, result_valid
             PROVE  /\ job <= Jobs
                    /\ received < ResultBeats(job)
                    /\ result_data = ExactBeat(job, received)
                    /\ ResultLast <=> received = ResultBeats(job) - 1
  BY DEF ResultBeatsExact
<1>1. PICK c : c = JobConfig(job)
  OBVIOUS
<1>2. /\ job <= Jobs /\ HostInv /\ Running(c) /\ IsConfig(c)
      /\ result_data = [acc |-> result_data.acc, shift |-> job]
  BY <1>1, ReadoutShows
<1>3. PICK x \in 3..ResultWords(c)+2 :
        /\ received = x - 3 /\ result_count = x - 3
        /\ Complete(c, x - 3, result_data.acc)
  BY <1>1, ReadoutShows
<1>j. /\ c.shift = job /\ c.rows = shapes[job].rows /\ c.k = shapes[job].k /\ c.n = shapes[job].n
      /\ ResultBeats(job) = ResultWords(c)
  BY <1>1, <1>2, JobConfigs DEF ScheduleInv
<1>c. /\ ResultWords(c) \in Nat /\ results_expected = ResultWords(c)
      /\ c.rows \in Nat /\ c.k \in Nat /\ c.n \in Nat
  BY <1>2, ResultSize, RunningSizes, ConfigSize
<1>4. received \in 0..ResultWords(c)-1 /\ received < ResultBeats(job)
  BY <1>3, <1>c, <1>j
<1>5. ResultLast <=> received = ResultBeats(job) - 1
  BY <1>3, <1>c, <1>j DEF ResultLast
<1> DEFINE m == received \div c.n
<1> DEFINE nb == received % c.n
<1>6. m \in 0..c.rows-1 /\ nb \in 0..c.n-1 /\ received = WordIndex(c, m, nb)
  BY <1>2, <1>4, ResultPlacesCover
<1> HIDE DEF m, nb
<1>7. result_data.acc = Sums(c, nb, m, c.k)
  BY <1>3, <1>6 DEF Complete
<1>8. result_data.acc = ExactSum(job, m, nb)
  <2>1. m \in Nat /\ nb \in Nat
    BY <1>6, <1>c
  <2> QED
    BY <2>1, <1>1, <1>7, <1>c, <1>j, SumsAreExact
<1>9. ExactBeat(job, received) = [acc |-> ExactSum(job, m, nb), shift |-> job]
  BY <1>j DEF ExactBeat, m, nb
<1> QED
  BY <1>2, <1>4, <1>5, <1>8, <1>9

\* A result word that is not taken stays.
LEMMA ResultStays ==
  ASSUME ScheduleInv, NEW v \in [Channels -> BOOLEAN], NEW rdy \in BOOLEAN,
         NEW clear \in BOOLEAN, Clock(v, rdy, clear),
         result_valid, received' = received, job' = job
  PROVE  result_valid' /\ result_data' = result_data /\ ResultLast' = ResultLast
<1>1. PICK c : c = JobConfig(job)
  OBVIOUS
<1>2. job <= Jobs /\ HostInv /\ Running(c) /\ RunPhase(c) /\ IsConfig(c)
  BY <1>1, ReadoutShows
<1>3. PICK x \in 3..ResultWords(c)+2 : received = x - 3 /\ result_count = x - 3
  BY <1>1, ReadoutShows
<1>c. /\ ResultWords(c) \in Nat /\ results_expected = ResultWords(c) /\ job \in Int /\ cfg = c
      /\ received \in Int /\ result_count # results_expected
  BY <1>2, <1>3, ResultSize, RunningSizes DEF HostInv, Running
<1>4. JobStarted
  BY <1>2, JobRuns
<1>p. /\ OBClock(c, PartialOut, PartialLast, rdy)
      /\ received' = IF FinalResultAccept(rdy) THEN 0
                     ELSE IF result_valid /\ rdy THEN received + 1 ELSE received
      /\ job' = IF FinalResultAccept(rdy) THEN job + 1 ELSE job
  BY <1>c DEF Clock, TopClock
<1>5. ~rdy
  BY <1>p, <1>c
<1>6. /\ result_valid' /\ result_data' = result_data
      /\ result_count' = result_count /\ results_expected' = results_expected
  <2>1. results_expected' = results_expected
    BY <1>p, <1>c DEF OBClock, ResultWords
  <2> QED
    BY <1>p, <1>5, <1>c, <2>1 DEF OBClock, NextResultValid, NextResultCount
<1>7. ResultLast' <=> ResultLast
  BY <1>6 DEF ResultLast
<1>8. ResultLast' = ResultLast
  BY <1>7 DEF ResultLast
<1> QED
  BY <1>6, <1>8

-----------------------------------------------------------------------------
(* The schedule implements the service *)

LEMMA JobStatusOf ==
  /\ job_done => JobStatus = "done"
  /\ job_busy /\ ~job_done => JobStatus = "busy"
  /\ ~job_busy /\ ~job_done => JobStatus = "idle"
BY DEF JobStatus

\* A clock that takes input beats.
LEMMA ServiceLoads ==
  ASSUME ScheduleInv, StatusInv, StatusInv', NEW v \in [Channels -> BOOLEAN],
         NEW rdy \in BOOLEAN, NEW clear \in BOOLEAN, Clock(v, rdy, clear),
         InputAccept(InputStreams(v))
  PROVE  Service!Next
<1> DEFINE in == InputStreams(v)
<1>s. in = InputStreams(v) /\ InputAccept(in)
  OBVIOUS
<1> HIDE DEF in
<1>1. PICK c : c = JobConfig(job)
  OBVIOUS
<1>2. PICK ch \in Channels : StreamAccept(in, ch)
  BY <1>s DEF InputAccept
<1>3. ib_state = "IN_DATA"
  BY <1>2 DEF StreamAccept, StreamReady
<1>h. HostInv /\ Memories
  BY DEF ScheduleInv, Scheduled
<1>4. ~result_valid
  <2> SUFFICES ASSUME result_valid PROVE FALSE
    OBVIOUS
  <2>1. PICK x : ReadoutPhase(c, x)
    BY <1>1, ReadoutShows
  <2> QED
    BY <2>1, <1>3 DEF ReadoutPhase, Computed
<1>5. ~FinalResultAccept(rdy)
  BY <1>4 DEF FinalResultAccept
<1>m. \A x \in Channels : MayOffer(v, x)
  BY DEF Clock
<1>6. \A x \in Channels : StreamAccept(in, x) => sent[x] < StreamBeats(job, x) /\ job <= Jobs
  <2> TAKE x \in Channels
  <2> HAVE StreamAccept(in, x)
  <2>1. in[x].valid
    BY DEF StreamAccept
  <2>2. v[x]
    BY <2>1, <1>s DEF InputStreams
  <2> QED
    BY <2>2, <1>m DEF MayOffer, MayStream
<1>7. job \in 1..Jobs /\ job <= Jobs
  BY <1>2, <1>6, <1>h, JobsAssumption DEF HostInv
<1>8. /\ sent' = [x \in Channels |-> IF StreamAccept(in, x) THEN sent[x] + 1 ELSE sent[x]]
      /\ received' = received /\ job' = job /\ shapes' = shapes
      /\ job_busy' /\ ~job_done'
  <2>1. job_busy' = NextJobBusy(in, rdy) /\ job_done' = NextJobDone(in, rdy, clear)
    BY <1>s DEF Clock, TopClock
  <2>2. job_busy' /\ ~job_done'
    BY <2>1, <1>5, <1>s DEF NextJobBusy, NextJobDone
  <2> QED
    BY <2>2, <1>4, <1>5, <1>s DEF Clock
<1>9. JobStatus' = "busy"
  BY <1>8 DEF JobStatus
<1> DEFINE S == {x \in Channels : StreamAccept(in, x)}
<1>10. S # {} /\ S \in SUBSET Channels /\ \A x \in Channels : x \in S <=> StreamAccept(in, x)
  BY <1>2
<1> HIDE DEF S
<1>11. Service!Load(S)
  <2>1. \A x \in S : sent[x] < [j \in 1..Jobs |-> [y \in Channels |-> StreamBeats(j, y)]][job][x]
    BY <1>6, <1>7, <1>10
  <2>2. sent' = [x \in Channels |-> IF x \in S THEN sent[x] + 1 ELSE sent[x]]
    BY <1>8, <1>10
  <2> QED
    BY <2>1, <2>2, <1>7, <1>8, <1>9, <1>10 DEF Service!Load, Service!Channels, Channels
<1>12. /\ [j \in 1..Jobs |-> [y \in Channels |-> StreamBeats(j, y)]]'
             = [j \in 1..Jobs |-> [y \in Channels |-> StreamBeats(j, y)]]
       /\ [j \in 1..Jobs |-> ResultBeats(j)]' = [j \in 1..Jobs |-> ResultBeats(j)]
  BY <1>8 DEF StreamBeats, ResultBeats, Channels
<1> QED
  BY <1>10, <1>11, <1>12 DEF Service!Next, Service!Channels, Channels

\* The beats of every job stay as chosen.
LEMMA ServiceBeatsStay ==
  ASSUME shapes' = shapes
  PROVE  /\ [j \in 1..Jobs |-> [y \in Channels |-> StreamBeats(j, y)]]'
              = [j \in 1..Jobs |-> [y \in Channels |-> StreamBeats(j, y)]]
         /\ [j \in 1..Jobs |-> ResultBeats(j)]' = [j \in 1..Jobs |-> ResultBeats(j)]
BY DEF StreamBeats, ResultBeats, Channels

\* A clock between two jobs that takes no beat: done may be cleared.
LEMMA ServiceRests ==
  ASSUME ScheduleInv, StatusInv, Resting, NEW v \in [Channels -> BOOLEAN],
         NEW rdy \in BOOLEAN, NEW clear \in BOOLEAN, Clock(v, rdy, clear),
         ~InputAccept(InputStreams(v))
  PROVE  [Service!Next]_(Service!vars)
<1> DEFINE in == InputStreams(v)
<1>s. in = InputStreams(v) /\ ~InputAccept(in)
  OBVIOUS
<1> HIDE DEF in
<1>1. ~FinalResultAccept(rdy) /\ ~job_busy' /\ ~job_busy /\ ~result_valid
  <2>1. ~FinalResultAccept(rdy) /\ (job_busy' <=> InputAccept(in))
    BY <1>s, RestingNext
  <2> QED
    BY <2>1, <1>s, RestingIsSilent DEF Resting
<1>2. /\ sent' = [ch \in Channels |-> IF FinalResultAccept(rdy) THEN 0
                                      ELSE IF StreamAccept(in, ch) THEN sent[ch] + 1
                                      ELSE sent[ch]]
      /\ received' = IF FinalResultAccept(rdy) THEN 0
                     ELSE IF result_valid /\ rdy THEN received + 1 ELSE received
      /\ job' = IF FinalResultAccept(rdy) THEN job + 1 ELSE job
      /\ shapes' = shapes /\ job_done' = NextJobDone(in, rdy, clear)
  BY <1>s DEF Clock, TopClock
<1>3. sent' = sent
  <2>1. \A ch \in Channels : ~StreamAccept(in, ch)
    BY <1>s DEF InputAccept
  <2>2. sent' = [ch \in Channels |-> sent[ch]]
    BY <2>1, <1>1, <1>2
  <2> QED
    BY <2>2 DEF StatusInv
<1>4. received' = received /\ job' = job /\ (job_done' => job_done)
  BY <1>1, <1>2, <1>s DEF NextJobDone
<1>5. /\ JobStatus = IF job_done THEN "done" ELSE "idle"
      /\ JobStatus' = IF job_done' THEN "done" ELSE "idle"
  BY <1>1 DEF JobStatus
<1>6. JobStatus' = JobStatus \/ (JobStatus = "done" /\ JobStatus' = "idle")
  BY <1>4, <1>5
<1>7. CASE JobStatus' = JobStatus
  BY <1>2, <1>3, <1>4, <1>7, ServiceBeatsStay DEF Service!vars
<1>8. CASE JobStatus = "done" /\ JobStatus' = "idle"
  <2>1. Service!ClearDone
    BY <1>3, <1>4, <1>8 DEF Service!ClearDone
  <2> QED
    BY <2>1, <1>2, ServiceBeatsStay DEF Service!Next
<1> QED
  BY <1>6, <1>7, <1>8

\* A clock of a running job that takes no input beat.
LEMMA ServiceRuns ==
  ASSUME ScheduleInv, StatusInv, ~Resting, NEW v \in [Channels -> BOOLEAN],
         NEW rdy \in BOOLEAN, NEW clear \in BOOLEAN, Clock(v, rdy, clear),
         ~InputAccept(InputStreams(v)), StatusInv'
  PROVE  [Service!Next]_(Service!vars)
<1> DEFINE in == InputStreams(v)
<1>s. in = InputStreams(v) /\ ~InputAccept(in)
  OBVIOUS
<1> HIDE DEF in
<1>1. PICK c : c = JobConfig(job)
  OBVIOUS
<1>2. job <= Jobs /\ Running(c) /\ RunPhase(c) /\ HostInv /\ Memories /\ PlainJobs
  BY <1>1 DEF ScheduleInv, Scheduled
<1>3. /\ IsConfig(c) /\ job \in 1..Jobs
      /\ \A ch \in Channels : StreamBeats(job, ch) = StreamWords(c, ch)
      /\ ResultBeats(job) = ResultWords(c)
  BY <1>1, <1>2, JobConfigs
<1>4. JobStarted
  BY <1>2, <1>3, JobRuns
<1>5. job_busy /\ ~job_done /\ JobStatus = "busy"
  BY <1>4 DEF StatusInv, StatusTruthful, JobStatus
<1>p. /\ sent' = [ch \in Channels |-> IF FinalResultAccept(rdy) THEN 0
                                      ELSE IF StreamAccept(in, ch) THEN sent[ch] + 1
                                      ELSE sent[ch]]
      /\ received' = IF FinalResultAccept(rdy) THEN 0
                     ELSE IF result_valid /\ rdy THEN received + 1 ELSE received
      /\ job' = IF FinalResultAccept(rdy) THEN job + 1 ELSE job
      /\ shapes' = shapes /\ job_done' = NextJobDone(in, rdy, clear)
  BY <1>s DEF Clock, TopClock
<1>b. /\ [j \in 1..Jobs |-> [y \in Channels |-> StreamBeats(j, y)]]'
           = [j \in 1..Jobs |-> [y \in Channels |-> StreamBeats(j, y)]]
      /\ [j \in 1..Jobs |-> ResultBeats(j)]' = [j \in 1..Jobs |-> ResultBeats(j)]
  BY <1>p, ServiceBeatsStay
<1>6. ASSUME result_valid
      PROVE  /\ sent = [j \in 1..Jobs |-> [y \in Channels |-> StreamBeats(j, y)]][job]
             /\ received \in Int /\ received <= ResultBeats(job) - 1
             /\ (received = ResultBeats(job) - 1 <=> ResultLast)
  <2>1. PICK x \in 3..ResultWords(c)+2 :
          ReadoutPhase(c, x) /\ received = x - 3 /\ result_count = x - 3
    BY <1>1, <1>6, ReadoutShows
  <2>2. \A ch \in Channels : sent[ch] = StreamBeats(job, ch)
    BY <2>1, <1>3 DEF ReadoutPhase, Computed, AllStored
  <2>3. sent = [ch \in Channels |-> StreamBeats(job, ch)]
    BY <2>2 DEF StatusInv
  <2>4. ResultWords(c) \in Nat /\ results_expected = ResultWords(c)
    BY <1>2, <1>3, ResultSize, RunningSizes
  <2>5. ResultLast <=> received = ResultBeats(job) - 1
    BY <2>1, <2>4, <1>3, <1>6 DEF ResultLast
  <2> QED
    BY <2>1, <2>3, <2>4, <2>5, <1>3
<1>7. CASE FinalResultAccept(rdy)
  <2>1. result_valid /\ ResultLast
    BY <1>7 DEF FinalResultAccept
  <2>2. /\ sent' = [ch \in Channels |-> 0] /\ received' = 0 /\ job' = job + 1
    BY <1>7, <1>p
  <2>3. JobStatus' = "done"
    BY <1>7, <1>p DEF NextJobDone, JobStatus
  <2>4. received = [j \in 1..Jobs |-> ResultBeats(j)][job] - 1
    BY <2>1, <1>3, <1>6
  <2>5. Service!DeliverLast
    BY <2>1, <2>2, <2>3, <2>4, <1>2, <1>5, <1>6
       DEF Service!DeliverLast, Service!Loaded, Service!Channels, Channels
  <2> QED
    BY <2>5, <1>b DEF Service!Next
<1>8. CASE ~FinalResultAccept(rdy)
  <2>1. sent' = sent /\ job' = job
    <3>1. \A ch \in Channels : ~StreamAccept(in, ch)
      BY <1>s DEF InputAccept
    <3>2. sent' = [ch \in Channels |-> sent[ch]]
      BY <3>1, <1>8, <1>p
    <3> QED
      BY <3>2, <1>8, <1>p DEF StatusInv
  <2>2. JobStatus' = "busy"
    <3>1. JobStarted'
      BY <2>1, <1>4 DEF JobStarted
    <3> QED
      BY <3>1 DEF StatusInv, StatusTruthful, JobStatus
  <2>3. CASE result_valid /\ rdy
    <3>1. received' = received + 1
      BY <2>3, <1>8, <1>p
    <3>2. ~ResultLast
      BY <2>3, <1>8 DEF FinalResultAccept
    <3>3. received < [j \in 1..Jobs |-> ResultBeats(j)][job] - 1
      <4>1. ResultBeats(job) \in Int
        BY <1>3, ResultSize
      <4>2. received < ResultBeats(job) - 1
        BY <2>3, <3>2, <4>1, <1>6
      <4> QED
        BY <4>2, <1>3
    <3>4. Service!Deliver
      BY <2>1, <2>2, <2>3, <3>1, <3>3, <1>2, <1>5, <1>6 DEF Service!Deliver, Service!Loaded
    <3> QED
      BY <3>4, <1>b DEF Service!Next
  <2>4. CASE ~(result_valid /\ rdy)
    <3>1. received' = received
      BY <2>4, <1>8, <1>p
    <3> QED
      BY <3>1, <2>1, <2>2, <1>5, <1>b DEF Service!vars
  <2> QED
    BY <2>3, <2>4
<1> QED
  BY <1>7, <1>8

LEMMA ServiceInit == Init => Service!Init
<1> SUFFICES ASSUME Init PROVE Service!Init
  OBVIOUS
<1>1. job = 1 /\ sent = [ch \in Channels |-> 0] /\ received = 0 /\ ~job_busy /\ ~job_done
  BY DEF Init, TopInit
<1>2. JobStatus = "idle"
  BY <1>1 DEF JobStatus
<1> QED
  BY <1>1, <1>2 DEF Service!Init, Service!Channels, Channels

LEMMA ServiceStep ==
  ASSUME ScheduleInv, StatusInv, StatusInv', [Next]_vars
  PROVE  [Service!Next]_(Service!vars)
<1>1. ASSUME NEW v \in [Channels -> BOOLEAN], NEW rdy \in BOOLEAN, NEW clear \in BOOLEAN,
             Clock(v, rdy, clear)
      PROVE  [Service!Next]_(Service!vars)
  BY <1>1, ServiceLoads, ServiceRests, ServiceRuns
<1>2. CASE UNCHANGED vars
  <2>1. UNCHANGED <<shapes, job, sent, received, job_busy, job_done>>
    BY <1>2 DEF vars, hostVars, topVars
  <2>2. JobStatus' = JobStatus
    BY <2>1 DEF JobStatus
  <2> QED
    BY <2>1, <2>2, ServiceBeatsStay DEF Service!vars
<1> QED
  BY <1>1, <1>2 DEF Next

-----------------------------------------------------------------------------
(* Types.  What the memories and pipelines hold, whatever the schedule: a  *)
(* word, a tile or a list of sums of words with tiles.                     *)

Words == (1..Jobs) \X Nat \cup {NoWord}
Tiles == [1..ArraySize -> Words]
Pairs == Words \X Tiles
Accums == Seq(Pairs)
Configs == [rows : Nat, k : Nat, n : Nat, shift : Nat]

IBKinds ==
  /\ words_expected \in [Channels -> Nat] /\ k_elements \in Nat
  /\ write_count \in [Channels -> Nat] /\ write_addr \in [Channels -> Nat]
  /\ buffer_count \in [Channels -> Nat] /\ buffer_valid \in [Channels -> BOOLEAN]
  /\ buffer_mem \in [Channels -> [0..InputDepth-1 -> Words]]
  /\ buffer_data \in [Channels -> Words]

FeederFlags ==
  /\ start \in BOOLEAN /\ weight_loaded_d1 \in BOOLEAN /\ w_end \in BOOLEAN
  /\ weight_flag_up \in BOOLEAN /\ both_full_d1 \in BOOLEAN /\ loading_weights \in BOOLEAN
  /\ input_valid \in [Channels -> BOOLEAN]

FeederCounts ==
  /\ total_words \in [Channels -> Nat] /\ tile_count \in [Channels -> Nat]
  /\ tile_addr \in [Channels -> Nat] /\ input_cnt \in [Channels -> Nat]

FeederWords ==
  /\ tile_mem \in [Channels -> [0..InputDepth-1 -> Words]]
  /\ input_data \in [Channels -> Words]
  /\ shift_reg \in Tiles /\ pe_weights \in Tiles
  /\ \A i \in 0..ResultLatency : pipe[i].valid \in BOOLEAN /\ (pipe[i].valid => pipe[i].sum \in Pairs)

OutputControl ==
  /\ start_result \in BOOLEAN /\ mem_valid \in BOOLEAN /\ mem_valid_d1 \in BOOLEAN
  /\ mem_valid_d2 \in BOOLEAN /\ result_valid \in BOOLEAN
  /\ results_expected \in Nat

OutputSums ==
  /\ accum_mem \in [0..OutputDepth-1 -> Accums]
  /\ read_data \in Accums /\ mem_data_d1 \in Accums /\ result_data.acc \in Accums

TopKinds ==
  /\ core_active \in BOOLEAN /\ job_busy \in BOOLEAN /\ job_done \in BOOLEAN
  /\ clear_accepted \in BOOLEAN /\ clear_busy_error \in BOOLEAN
  /\ cfg \in Configs /\ regs \in Configs

Kinds == IBKinds /\ FeederFlags /\ FeederCounts /\ FeederWords /\ OutputControl /\ OutputSums /\ TopKinds

LEMMA WordKinds ==
  /\ \A w \in Words : IsWord(w)
  /\ \A t \in Tiles : IsTile(t)
  /\ \A s \in Pairs : IsSum(s)
  /\ \A a \in Accums : IsAccum(a)
  /\ NoWord \in Words /\ NoTile \in Tiles /\ Zero \in Accums
<1>1. \A w \in Words : IsWord(w)
  BY DEF Words, IsWord
<1>2. \A t \in Tiles : IsTile(t)
  BY <1>1 DEF Tiles, IsTile
<1>3. \A s \in Pairs : IsSum(s)
  <2> TAKE s \in Pairs
  <2>1. Len(s) = 2 /\ s[1] \in Words /\ s[2] \in Tiles
    BY DEF Pairs
  <2> QED
    BY <2>1, <1>1, <1>2 DEF IsSum
<1>4. \A a \in Accums : IsAccum(a)
  <2> TAKE a \in Accums
  <2>1. \A b \in DOMAIN a : a[b] \in Pairs
    BY DEF Accums
  <2> QED
    BY <2>1, <1>3 DEF IsAccum
<1>5. NoWord \in Words
  BY DEF Words
<1>6. NoTile \in Tiles
  BY <1>5 DEF NoTile, Tiles
<1>7. Zero \in Accums
  BY DEF Zero, Accums
<1> QED
  BY <1>1, <1>2, <1>3, <1>4, <1>5, <1>6, <1>7

LEMMA InitKinds == Init => Kinds
<1> SUFFICES ASSUME Init PROVE Kinds
  OBVIOUS
<1> USE WordKinds
<1>1. IBKinds
  BY DEF Init, TopInit, IBInit, IBKinds
<1>2. FeederFlags
  BY DEF Init, TopInit, BFInit, FeederFlags
<1>3. FeederCounts
  BY DEF Init, TopInit, BFInit, FeederCounts
<1>4. FeederWords
  BY DEF Init, TopInit, BFInit, FeederWords, Bubble
<1>5. OutputControl
  BY DEF Init, TopInit, OBInit, OutputControl
<1>6. OutputSums
  BY DEF Init, TopInit, OBInit, OutputSums
<1>7. TopKinds
  <2>1. ResetConfig \in Configs
    BY DEF ResetConfig, Configs
  <2>2. cfg \in Configs /\ regs \in Configs
    BY <2>1 DEF Init, TopInit
  <2> QED
    BY <2>2 DEF Init, TopInit, TopKinds
<1> QED
  BY <1>1, <1>2, <1>3, <1>4, <1>5, <1>6, <1>7 DEF Kinds

LEMMA IBKindsNext ==
  ASSUME IBKinds, NEW c \in Configs, NEW in, NEW plast, NEW ready,
         IBClock(c, in, plast, ready),
         \A ch \in Channels : in[ch].valid => in[ch].data \in Words
  PROVE  IBKinds'
<1> USE DEF IBKinds
<1>1. ArraySize \in Nat /\ c.rows \in Nat /\ c.k \in Nat /\ c.n \in Nat
  BY ArraySizeAssumption DEF Configs
<1>2. words_expected' \in [Channels -> Nat] /\ k_elements' \in Nat
  <2>1. c.rows * c.k \in Nat /\ c.n * k_elements \in Nat /\ c.k * ArraySize \in Nat
    BY <1>1
  <2>2. words_expected' = [feature |-> c.rows * c.k, weight |-> c.n * k_elements]
        /\ k_elements' = c.k * ArraySize
    BY DEF IBClock
  <2> QED
    BY <2>1, <2>2 DEF Channels
<1>3. write_count' \in [Channels -> Nat] /\ write_addr' \in [Channels -> Nat]
  BY DEF IBClock, NextWriteCount, NextWriteAddr
<1>4. buffer_count' \in [Channels -> Nat]
  BY DEF IBClock, NextBufferCount
<1>5. buffer_valid' \in [Channels -> BOOLEAN]
  <2>1. \A ch \in Channels : NextBufferValid(c, plast, ready, ch) \in BOOLEAN
    BY DEF NextBufferValid
  <2> QED
    BY <2>1 DEF IBClock
<1>6. buffer_mem' \in [Channels -> [0..InputDepth-1 -> Words]]
  <2>1. ASSUME NEW ch \in Channels
        PROVE  NextBufferMem(in, ch) \in [0..InputDepth-1 -> Words]
    BY DEF NextBufferMem, StreamAccept
  <2> QED
    BY <2>1 DEF IBClock
<1>7. buffer_data' \in [Channels -> Words]
  <2>1. ASSUME NEW ch \in Channels
        PROVE  Word(ch, ReadAddr(c, ch)) \in Words
    BY WordKinds DEF Word
  <2> QED
    BY <2>1 DEF IBClock
<1> QED
  BY <1>2, <1>3, <1>4, <1>5, <1>6, <1>7

LEMMA FeederKindsNext ==
  ASSUME FeederFlags, FeederCounts, FeederWords, IBKinds, NEW c \in Configs, BFClock(c)
  PROVE  FeederFlags' /\ FeederCounts' /\ FeederWords'
<1>1. /\ ArraySize \in Nat \ {0} /\ c.rows \in Nat /\ c.n \in Nat /\ ResultLatency \in Nat
  BY ArraySizeAssumption DEF Configs, ResultLatency
<1>2. FeederFlags'
  <2>1. start' \in BOOLEAN /\ both_full_d1' \in BOOLEAN
    BY DEF BFClock, StartAhead, BothFull
  <2>2. weight_loaded_d1' \in BOOLEAN
    BY DEF BFClock, TileLoaded
  <2>3. w_end' \in BOOLEAN
    BY DEF BFClock, NextWEnd
  <2>4. weight_flag_up' \in BOOLEAN
    <3>1. weight_flag_up' = NextWeightFlagUp /\ weight_flag_up \in BOOLEAN
      BY DEF BFClock, FeederFlags
    <3> QED
      BY <3>1 DEF NextWeightFlagUp
  <2>5. loading_weights' \in BOOLEAN
    BY DEF BFClock, NextLoadingWeights, FeederFlags
  <2>6. input_valid' \in [Channels -> BOOLEAN]
    <3>1. \A ch \in Channels : NextInputValid(ch) \in BOOLEAN
      BY DEF NextInputValid
    <3> QED
      BY <3>1 DEF BFClock
  <2> QED
    BY <2>1, <2>2, <2>3, <2>4, <2>5, <2>6 DEF FeederFlags
<1>3. FeederCounts'
  <2>1. total_words' \in [Channels -> Nat]
    BY <1>1 DEF BFClock, Channels
  <2>2. tile_count' \in [Channels -> Nat] /\ tile_addr' \in [Channels -> Nat]
    BY DEF BFClock, FeederCounts, NextTileCount, NextTileAddr
  <2>3. input_cnt' \in [Channels -> Nat]
    BY DEF BFClock, FeederCounts, NextInputCnt
  <2> QED
    BY <2>1, <2>2, <2>3 DEF FeederCounts
<1>4. FeederWords'
  <2> USE DEF FeederWords
  <2>1. tile_mem' \in [Channels -> [0..InputDepth-1 -> Words]]
    <3>1. ASSUME NEW ch \in Channels
          PROVE  NextTileMem(ch) \in [0..InputDepth-1 -> Words]
      BY DEF NextTileMem, IBKinds
    <3> QED
      BY <3>1 DEF BFClock
  <2>2. \A a : \A ch \in Channels : TileWord(ch, a) \in Words
    BY WordKinds DEF TileWord
  <2>3. input_data' \in [Channels -> Words]
    BY <2>2 DEF BFClock, Channels
  <2>4. ComputeData \in Words
    BY DEF ComputeData, StreamChannel, Channels
  <2>5. shift_reg' \in Tiles
    <3>1. shift_reg = [i \in 1..ArraySize |-> shift_reg[i]]
      BY DEF Tiles
    <3>2. ArraySize \in Nat \ {0}
      BY <1>1
    <3>3. Append(Tail(shift_reg), ComputeData)
            = [i \in 1..ArraySize |-> IF i = ArraySize THEN ComputeData ELSE shift_reg[i + 1]]
      <4>1. \A s, x : s = [i \in 1..ArraySize |-> s[i]] =>
              Append(Tail(s), x) = [i \in 1..ArraySize |-> IF i = ArraySize THEN x ELSE s[i + 1]]
        BY <3>2, ShiftRegister
      <4> QED
        BY <3>1, <4>1
    <3>4. ASSUME NEW i \in 1..ArraySize
          PROVE  (IF i = ArraySize THEN ComputeData ELSE shift_reg[i + 1]) \in Words
      <4>1. i # ArraySize => i + 1 \in 1..ArraySize
        BY <3>2
      <4> QED
        BY <2>4, <4>1 DEF Tiles
    <3>5. Append(Tail(shift_reg), ComputeData) \in Tiles
      BY <3>3, <3>4 DEF Tiles
    <3> QED
      BY <3>5 DEF BFClock
  <2>6. NextPEWeights \in Tiles /\ pe_weights' = NextPEWeights
    BY DEF BFClock, NextPEWeights
  <2>7. PipeIn.valid \in BOOLEAN /\ (PipeIn.valid => PipeIn.sum \in Pairs)
    BY <2>4, <2>6 DEF PipeIn, Pairs
  <2>8. ASSUME NEW i \in 0..ResultLatency
        PROVE  pipe'[i].valid \in BOOLEAN /\ (pipe'[i].valid => pipe'[i].sum \in Pairs)
    <3>1. pipe'[i] = IF i = 0 THEN PipeIn ELSE pipe[i-1]
      BY DEF BFClock
    <3>2. i # 0 => i - 1 \in 0..ResultLatency
      BY <1>1
    <3> QED
      BY <2>7, <3>1, <3>2
  <2> QED
    BY <2>1, <2>3, <2>5, <2>6, <2>8 DEF ResultLatency
<1> QED
  BY <1>2, <1>3, <1>4

LEMMA OutputKindsNext ==
  ASSUME OutputControl, OutputSums, NEW c \in Configs, NEW p, NEW plast, NEW rdy \in BOOLEAN,
         OBClock(c, p, plast, rdy), p.valid => p.sum \in Pairs
  PROVE  OutputControl' /\ OutputSums'
<1>1. OutputControl'
  <2>1. start_result' \in BOOLEAN /\ mem_valid' \in BOOLEAN /\ mem_valid_d1' \in BOOLEAN
    BY DEF OBClock, NextStartResult, NextMemValid, NextMemValidD1
  <2>2. mem_valid_d2' \in BOOLEAN /\ result_valid' \in BOOLEAN
    BY DEF OBClock, NextResultValid, OutputControl
  <2>3. results_expected' \in Nat
    <3>1. c.rows \in Nat /\ c.n \in Nat
      BY DEF Configs
    <3>2. c.rows * c.n \in Nat
      BY <3>1
    <3> QED
      BY <3>2 DEF OBClock
  <2> QED
    BY <2>1, <2>2, <2>3 DEF OutputControl
<1>2. \A a : AccumWord(a) \in Accums
  BY WordKinds DEF AccumWord, OutputSums
<1>3. read_data' \in Accums
  BY <1>2 DEF OBClock, NextReadData, OutputSums
<1>4. mem_data_d1' \in Accums
  BY DEF OBClock, OutputSums
<1>5. result_data'.acc \in Accums
  BY DEF OBClock, OutputSums
<1>6. accum_mem' \in [0..OutputDepth-1 -> Accums]
  <2>1. accum_mem' = NextAccumMem(p, rdy)
    BY DEF OBClock
  <2>2. CASE p.valid
    <3>1. Append(read_data, p.sum) \in Accums
      BY <2>2 DEF Accums, OutputSums
    <3>2. accum_mem' = [accum_mem EXCEPT ![accum_write_addr] = Append(read_data, p.sum)]
      BY <2>1, <2>2 DEF NextAccumMem
    <3> QED
      BY <3>1, <3>2 DEF OutputSums
  <2>3. CASE ~p.valid /\ ClearWord(rdy)
    <3>1. accum_mem' = [accum_mem EXCEPT ![clear_addr] = Zero]
      BY <2>1, <2>3 DEF NextAccumMem
    <3> QED
      BY <3>1, WordKinds DEF OutputSums
  <2>4. CASE ~p.valid /\ ~ClearWord(rdy)
    <3>1. accum_mem' = accum_mem
      BY <2>1, <2>4 DEF NextAccumMem
    <3> QED
      BY <3>1 DEF OutputSums
  <2> QED
    BY <2>2, <2>3, <2>4
<1> QED
  BY <1>1, <1>3, <1>4, <1>5, <1>6 DEF OutputSums

\* The host offers words of its jobs and writes sizes of its shapes.
LEMMA HostKinds ==
  ASSUME HostInv, TopKinds, StatusInv, NEW v \in [Channels -> BOOLEAN],
         NEW rdy \in BOOLEAN, NEW clear \in BOOLEAN, Clock(v, rdy, clear)
  PROVE  /\ \A ch \in Channels : InputStreams(v)[ch].valid => InputStreams(v)[ch].data \in Words
         /\ TopKinds'
<1> DEFINE in == InputStreams(v)
<1>j. Jobs \in Nat /\ job \in 1..Jobs+1
  BY JobsAssumption DEF HostInv
<1>1. ASSUME NEW ch \in Channels, in[ch].valid PROVE in[ch].data \in Words
  <2>1. v[ch] /\ in[ch].data = <<job, sent[ch]>>
    BY <1>1 DEF InputStreams
  <2>2. job <= Jobs
    BY <2>1 DEF Clock, MayOffer, MayStream
  <2>3. job \in 1..Jobs /\ sent[ch] \in Nat
    BY <1>j, <2>2 DEF StatusInv
  <2> QED
    BY <2>1, <2>3 DEF Words
<1>2. regs' \in Configs
  <2>1. PICK jobStarts : WriteRegister(clear, jobStarts)
    BY DEF Clock
  <2>2. CASE regs' = regs
    BY <2>2 DEF TopKinds
  <2>3. CASE NextToWrite <= Jobs /\ written < 4 /\
             regs' = [regs EXCEPT ![RegisterOrder[written + 1]]
                        = JobConfig(NextToWrite)[RegisterOrder[written + 1]]]
    <3>1. NextToWrite \in 1..Jobs
      BY <2>3, <1>j DEF NextToWrite
    <3>2. shapes[NextToWrite] \in Shapes
      BY <3>1 DEF HostInv
    <3>3. /\ shapes[NextToWrite].rows \in Nat /\ shapes[NextToWrite].k \in Nat
          /\ shapes[NextToWrite].n \in Nat
      BY <3>2, ShapesAssumption
    <3>4. JobConfig(NextToWrite) \in Configs
      BY <3>1, <3>3 DEF JobConfig, Configs
    <3>5. regs \in Configs
      BY DEF TopKinds
    <3>6. ASSUME NEW r \in {"shift", "rows", "k", "n"}, NEW d \in Configs
          PROVE  [regs EXCEPT ![r] = d[r]] \in Configs
      BY <3>5 DEF Configs
    <3>7. RegisterOrder[written + 1] \in {"shift", "rows", "k", "n"}
      <4>1. written \in {0, 1, 2, 3}
        BY <2>3 DEF HostInv
      <4> QED
        BY <4>1 DEF RegisterOrder
    <3> QED
      BY <2>3, <3>4, <3>6, <3>7
  <2> QED
    BY <2>1, <2>2, <2>3 DEF WriteRegister
<1>3. cfg' \in Configs
  <2>1. cfg' = NextCfg(in, regs)
    BY DEF Clock, TopClock
  <2> QED
    BY <2>1 DEF NextCfg, TopKinds
<1>4. /\ core_active' \in BOOLEAN /\ job_busy' \in BOOLEAN /\ job_done' \in BOOLEAN
      /\ clear_accepted' \in BOOLEAN /\ clear_busy_error' \in BOOLEAN
  BY DEF Clock, TopClock, NextCoreActive, NextJobBusy, NextJobDone
<1> QED
  BY <1>1, <1>2, <1>3, <1>4 DEF TopKinds

LEMMA KindsNext ==
  ASSUME ScheduleInv, StatusInv, Kinds, [Next]_vars
  PROVE  Kinds'
<1>1. ASSUME NEW v \in [Channels -> BOOLEAN], NEW rdy \in BOOLEAN, NEW clear \in BOOLEAN,
             Clock(v, rdy, clear)
      PROVE  Kinds'
  <2>1. /\ IBClock(cfg, InputStreams(v), PartialLast, FeederReady) /\ BFClock(cfg)
        /\ OBClock(cfg, PartialOut, PartialLast, rdy)
    BY <1>1 DEF Clock, TopClock
  <2>2. HostInv /\ cfg \in Configs
    BY DEF ScheduleInv, Scheduled, Kinds, TopKinds
  <2>3. /\ \A ch \in Channels : InputStreams(v)[ch].valid => InputStreams(v)[ch].data \in Words
        /\ TopKinds'
    BY <1>1, <2>2, HostKinds DEF Kinds
  <2>4. IBKinds'
    BY <2>1, <2>2, <2>3, IBKindsNext DEF Kinds
  <2>5. FeederFlags' /\ FeederCounts' /\ FeederWords'
    BY <2>1, <2>2, FeederKindsNext DEF Kinds
  <2>6. PartialOut.valid => PartialOut.sum \in Pairs
    <3>1. ResultLatency \in 0..ResultLatency
      BY ArraySizeAssumption DEF ResultLatency
    <3> QED
      BY <3>1 DEF PartialOut, Kinds, FeederWords
  <2>7. OutputControl' /\ OutputSums'
    BY <2>1, <2>2, <2>6, OutputKindsNext DEF Kinds
  <2> QED
    BY <2>3, <2>4, <2>5, <2>7 DEF Kinds
<1>2. CASE UNCHANGED vars
  <2>1. UNCHANGED ibVars /\ UNCHANGED bfVars /\ UNCHANGED obVars /\ UNCHANGED topVars
    BY <1>2 DEF vars
  <2>2. IBKinds'
    BY <2>1 DEF ibVars, Kinds, IBKinds
  <2>3. FeederFlags' /\ FeederCounts'
    BY <2>1 DEF bfVars, Kinds, FeederFlags, FeederCounts
  <2>4. FeederWords'
    BY <2>1 DEF bfVars, Kinds, FeederWords, ResultLatency
  <2>5. OutputControl' /\ OutputSums'
    BY <2>1 DEF obVars, Kinds, OutputControl, OutputSums
  <2>6. TopKinds'
    <3>1. /\ core_active' = core_active /\ job_busy' = job_busy /\ job_done' = job_done
          /\ clear_accepted' = clear_accepted /\ clear_busy_error' = clear_busy_error
          /\ cfg' = cfg /\ regs' = regs
      BY <1>2, <2>1 DEF vars, topVars, hostVars
    <3> QED
      BY <3>1 DEF Kinds, TopKinds
  <2> QED
    BY <2>2, <2>3, <2>4, <2>5, <2>6 DEF Kinds
<1> QED
  BY <1>1, <1>2 DEF Next
-----------------------------------------------------------------------------
(* Bounds.  The schedule keeps every counter and address inside its memory *)

LEMMA DepthsSuffice ==
  ASSUME NEW c, IsConfig(c)
  PROVE  /\ InputDepth \in Nat \ {0} /\ OutputDepth \in Nat \ {0}
         /\ c.rows \in Nat /\ c.rows >= 2 /\ c.rows <= InputDepth
         /\ c.k \in Nat /\ c.k <= InputDepth
         /\ c.n \in Nat /\ c.n <= InputDepth
         /\ ArraySize \in Nat /\ ArraySize >= 2
         /\ \A ch \in Channels : /\ StreamWords(c, ch) \in Nat /\ StreamWords(c, ch) >= 2
                                 /\ StreamWords(c, ch) <= InputDepth
                                 /\ Beats(c, ch) \in Nat /\ Beats(c, ch) >= 2
                                 /\ Beats(c, ch) <= InputDepth
<1>1. InputDepth \in Nat \ {0} /\ OutputDepth \in Nat \ {0}
  BY InputDepthAssumption, OutputDepthAssumption
<1>2. \A ch \in Channels : /\ StreamWords(c, ch) \in Nat /\ StreamWords(c, ch) >= Beats(c, ch)
                          /\ StreamWords(c, ch) <= InputDepth
                          /\ Beats(c, ch) <= InputDepth
  BY StreamSize
<1>3. /\ c.rows \in Nat /\ c.rows >= 2 /\ c.k \in Nat \ {0} /\ c.n \in Nat
      /\ ArraySize \in Nat /\ ArraySize >= 2
      /\ Beats(c, "feature") = c.rows /\ Beats(c, "weight") >= c.n
      /\ \A ch \in Channels : Beats(c, ch) \in Nat /\ Beats(c, ch) >= 2
  BY ConfigSize DEF Channels
<1>4. StreamWords(c, "weight") >= c.k
  <2>1. c.k * Beats(c, "weight") >= c.k
    <3>1. Beats(c, "weight") \in Nat \ {0} /\ c.k \in Nat \ {0}
      BY <1>3 DEF Channels
    <3> QED
      BY ONLY <3>1, ProductPositive
  <2> QED
    BY <2>1 DEF StreamWords
<1>5. /\ StreamWords(c, "weight") \in Nat /\ StreamWords(c, "weight") <= InputDepth
      /\ Beats(c, "weight") \in Nat /\ Beats(c, "weight") <= InputDepth
      /\ Beats(c, "feature") <= InputDepth
  BY <1>2, <1>3 DEF Channels
<1>6. c.rows <= InputDepth /\ c.k <= InputDepth /\ c.n <= InputDepth
  BY <1>1, <1>3, <1>4, <1>5
<1>7. \A ch \in Channels : StreamWords(c, ch) >= 2
  BY <1>2, <1>3
<1> QED
  BY <1>1, <1>2, <1>3, <1>6, <1>7

IBBounds ==
  /\ ib_state \in {"IDLE", "IN_DATA", "CAL"}
  /\ \A ch \in Channels : /\ write_count[ch] \in 0..InputDepth
                          /\ write_addr[ch] \in 0..InputDepth-1
                          /\ buffer_count[ch] \in 0..InputDepth
                          /\ sent[ch] \in 0..InputDepth
  /\ read_row \in 0..InputDepth /\ read_k_block \in 0..InputDepth
  /\ weight_read_addr \in 0..InputDepth-1

BFBounds ==
  /\ bf_state \in {"IDLE", "SET_WEIGHT", "SET_FEATURE"}
  /\ \A ch \in Channels : /\ tile_count[ch] \in 0..InputDepth
                          /\ tile_addr[ch] \in 0..InputDepth-1
                          /\ input_cnt[ch] \in 0..InputDepth
  /\ feature_addr \in 0..InputDepth /\ weight_row \in 0..ArraySize-1
  /\ weight_col \in 0..InputDepth /\ shift_cnt \in 0..ArraySize

OBBounds ==
  /\ accum_write_addr \in 0..OutputDepth /\ mem_count \in 0..OutputDepth
  /\ mem_count_d1 \in 0..OutputDepth
  /\ k_block_done \in Nat /\ result_col \in Nat /\ result_row \in Nat

LEMMA RestingBounds ==
  ASSUME Resting
  PROVE  IBBounds /\ BFBounds /\ OBBounds
<1>1. InputDepth \in Nat \ {0} /\ OutputDepth \in Nat \ {0} /\ ArraySize \in Nat \ {0}
  BY InputDepthAssumption, OutputDepthAssumption, ArraySizeAssumption
<1>2. 0 \in 0..InputDepth /\ 0 \in 0..InputDepth-1 /\ 0 \in 0..OutputDepth
      /\ 0 \in 0..ArraySize-1 /\ 0 \in 0..ArraySize
  BY <1>1
<1>3. IBBounds
  BY <1>2 DEF Resting, NothingWritten, NothingReplayed, IBBounds
<1>4. BFBounds
  BY <1>2 DEF Resting, FeederAtRest, NoTileStored, BFBounds
<1>5. OBBounds
  BY <1>2 DEF Resting, OutputAtRest, ReadoutAtRest, OBBounds
<1> QED
  BY <1>3, <1>4, <1>5

LEMMA WrapBound ==
  ASSUME NEW c, IsConfig(c), NEW a \in Nat, a <= StreamWords(c, "weight")
  PROVE  WrapWeights(c, a) \in 0..InputDepth-1
<1>1. StreamWords(c, "weight") \in Nat /\ StreamWords(c, "weight") <= InputDepth
      /\ InputDepth \in Nat \ {0}
  BY DepthsSuffice DEF Channels
<1> QED
  BY <1>1 DEF WrapWeights

LEMMA IBBoundsHold ==
  ASSUME NEW c, IsConfig(c), RunPhase(c)
  PROVE  IBBounds
<1>s. /\ InputDepth \in Nat \ {0} /\ c.rows \in Nat /\ c.rows <= InputDepth
      /\ c.k \in Nat /\ c.k <= InputDepth
      /\ \A ch \in Channels : /\ StreamWords(c, ch) \in Nat /\ StreamWords(c, ch) <= InputDepth
                              /\ Beats(c, ch) \in Nat /\ Beats(c, ch) <= InputDepth
  BY DepthsSuffice
<1>z. 0 \in 0..InputDepth /\ 0 \in 0..InputDepth-1
  BY <1>s
<1>t. AllStored(c) => \A ch \in Channels : /\ write_count[ch] = 0 /\ write_addr[ch] = 0
                                          /\ sent[ch] \in 0..InputDepth
  BY <1>s DEF AllStored, NothingWritten
<1>1. CASE LoadPhase(c)
  <2>1. Loading(c)
    BY <1>1 DEF LoadPhase
  <2>2. ASSUME NEW ch \in Channels
        PROVE  /\ write_count[ch] \in 0..InputDepth /\ sent[ch] \in 0..InputDepth
               /\ write_addr[ch] \in 0..InputDepth-1 /\ buffer_count[ch] = 0
    <3>1. /\ write_count[ch] = sent[ch] /\ sent[ch] \in 0..StreamWords(c, ch)
          /\ write_addr[ch] = IF sent[ch] = StreamWords(c, ch) THEN 0 ELSE sent[ch]
          /\ buffer_count[ch] = 0
      BY <2>1 DEF Loading, NothingReplayed
    <3> QED
      BY <3>1, <1>s
  <2> QED
    BY <2>1, <2>2, <1>z DEF Loading, NothingReplayed, IBBounds
<1>2. ASSUME NEW b \in 0..c.k-1, NEW i \in 0..FillClocks(c), FillPhase(c, b, i)
      PROVE  IBBounds
  <2> DEFINE B == Beats(c, "weight")
  <2>1. AllStored(c) /\ Replaying(c, b, i)
    BY <1>2 DEF FillPhase
  <2>i. i \in Nat /\ b \in Nat /\ b + 1 <= c.k /\ B \in Nat
    BY <1>s DEF FillClocks, Channels
  <2>2. \A ch \in Channels : buffer_count[ch] \in 0..InputDepth
    <3>1. \A ch \in Channels : buffer_count[ch] = IF i <= Beats(c, ch) THEN i ELSE 0
      BY <2>1 DEF Replaying
    <3> QED
      BY <3>1, <1>s, <2>i
  <2>3. read_row \in 0..InputDepth
    <3>1. read_row = IF i < c.rows - 1 THEN i + 1 ELSE 0
      BY <2>1 DEF Replaying
    <3> QED
      BY <3>1, <1>s, <2>i
  <2>4. read_k_block \in 0..InputDepth
    <3>1. read_k_block = IF i < c.rows THEN b ELSE b + 1
      BY <2>1 DEF Replaying
    <3> QED
      BY <3>1, <1>s, <2>i
  <2>5. weight_read_addr \in 0..InputDepth-1
    <3> DEFINE y == IF i < B THEN i + 1 ELSE B
    <3>1. weight_read_addr = WrapWeights(c, b * B + y)
      BY <2>1 DEF Replaying
    <3>2. b * B \in Nat /\ b * B + B <= StreamWords(c, "weight")
      BY BlockWords
    <3>3. y \in Nat /\ y <= B
      BY <2>i
    <3>4. StreamWords(c, "weight") \in Nat
      BY <1>s DEF Channels
    <3> HIDE DEF y, B
    <3>5. b * B + y \in Nat /\ b * B + y <= StreamWords(c, "weight")
      BY <3>2, <3>3, <3>4, <2>i
    <3> QED
      BY <3>1, <3>5, WrapBound
  <2>6. ib_state = "CAL"
    BY <2>1 DEF Replaying
  <2> QED
    BY <2>1, <2>2, <2>3, <2>4, <2>5, <2>6, <1>t, <1>z DEF IBBounds
<1>3. ASSUME NEW b \in 0..c.k-1, NEW nb \in 0..c.n-1, NEW q \in 0..TileClocks(c)-1,
             TilePhase(c, b, nb, q)
      PROVE  IBBounds
  <2>1. AllStored(c) /\ Replayed(c, b)
    BY <1>3 DEF TilePhase
  <2>2. read_k_block \in 0..InputDepth
    <3>1. read_k_block = b + 1
      BY <2>1 DEF Replayed
    <3> QED
      BY <3>1, <1>s
  <2>3. weight_read_addr \in 0..InputDepth-1
    <3>1. weight_read_addr = WrapWeights(c, (b + 1) * Beats(c, "weight"))
      BY <2>1 DEF Replayed
    <3>2. /\ b * Beats(c, "weight") \in Nat
          /\ (b + 1) * Beats(c, "weight") = b * Beats(c, "weight") + Beats(c, "weight")
          /\ b * Beats(c, "weight") + Beats(c, "weight") <= StreamWords(c, "weight")
      BY BlockWords
    <3>3. b * Beats(c, "weight") + Beats(c, "weight") \in Nat
      BY <3>2, <1>s DEF Channels
    <3> QED
      BY <3>1, <3>2, <3>3, WrapBound
  <2> QED
    BY <2>1, <2>2, <2>3, <1>t, <1>z DEF Replayed, NothingReplayed, IBBounds
<1>4. ASSUME NEW flag, Computed(c, flag)
      PROVE  IBBounds
  BY <1>4, <1>t, <1>z DEF Computed, NothingReplayed, IBBounds
<1>5. CASE EndPhase(c) \/ AwaitPhase(c)
  BY <1>5, <1>4 DEF EndPhase, AwaitPhase
<1>6. CASE \E x \in 0..ResultWords(c)+2 : ReadoutPhase(c, x)
  BY <1>6, <1>4 DEF ReadoutPhase
<1> QED
  BY <1>1, <1>2, <1>3, <1>5, <1>6 DEF RunPhase

LEMMA BFBoundsHold ==
  ASSUME NEW c, IsConfig(c), RunPhase(c)
  PROVE  BFBounds
<1>s. /\ InputDepth \in Nat \ {0} /\ c.rows \in Nat /\ c.rows <= InputDepth
      /\ c.n \in Nat /\ c.n <= InputDepth /\ ArraySize \in Nat /\ ArraySize >= 2
      /\ \A ch \in Channels : /\ Beats(c, ch) \in Nat /\ Beats(c, ch) >= 2
                              /\ Beats(c, ch) <= InputDepth
  BY DepthsSuffice
<1>z. /\ 0 \in 0..InputDepth /\ 0 \in 0..InputDepth-1 /\ 0 \in 0..ArraySize
      /\ 0 \in 0..ArraySize-1
  BY <1>s
<1>r. ASSUME NEW flag, FeederAtRest(flag),
             \A ch \in Channels : /\ tile_count[ch] \in 0..InputDepth
                                 /\ tile_addr[ch] \in 0..InputDepth-1
      PROVE  BFBounds
  BY <1>r, <1>z DEF FeederAtRest, BFBounds
<1>e. NoTileStored => \A ch \in Channels : /\ tile_count[ch] \in 0..InputDepth
                                          /\ tile_addr[ch] \in 0..InputDepth-1
  BY <1>z DEF NoTileStored
<1>1. CASE LoadPhase(c)
  BY <1>1, <1>r, <1>e DEF LoadPhase
<1>2. ASSUME NEW b \in 0..c.k-1, NEW i \in 0..FillClocks(c), FillPhase(c, b, i)
      PROVE  BFBounds
  <2>1. Filling(c, b, i) /\ i \in Nat
    BY <1>2, <1>s DEF FillPhase, FillClocks, Channels
  <2>2. ASSUME NEW ch \in Channels
        PROVE  tile_count[ch] \in 0..InputDepth /\ tile_addr[ch] \in 0..InputDepth-1
    <3>1. PICK n : /\ n = IF i < Beats(c, ch) THEN i ELSE Beats(c, ch)
                   /\ tile_count[ch] = n
                   /\ tile_addr[ch] = IF n = Beats(c, ch) THEN 0 ELSE n
      BY <2>1 DEF Filling
    <3> QED
      BY <3>1, <2>1, <1>s
  <2> QED
    BY <2>1, <2>2, <1>r DEF Filling
<1>3. ASSUME NEW b \in 0..c.k-1, NEW nb \in 0..c.n-1, NEW q \in 0..TileClocks(c)-1,
             TilePhase(c, b, nb, q)
      PROVE  BFBounds
  <2>1. /\ StreamControl(c, nb, q) /\ TilesHeld(c, b)
        /\ StreamWeights(c, b, nb, q) /\ StreamRows(c, b, q)
    BY <1>3 DEF TilePhase, Streaming
  <2>q. q \in Nat /\ nb \in Nat /\ nb + 1 <= c.n /\ RowEntering(q) \in Int
    BY <1>s DEF TileClocks, ResultLatency, RowEntering
  <2>2. bf_state \in {"IDLE", "SET_WEIGHT", "SET_FEATURE"}
    BY <2>1 DEF StreamControl
  <2>3. \A ch \in Channels : /\ tile_count[ch] \in 0..InputDepth
                            /\ tile_addr[ch] \in 0..InputDepth-1
    <3>1. \A ch \in Channels : tile_count[ch] = Beats(c, ch) /\ tile_addr[ch] = 0
      BY <2>1 DEF TilesHeld
    <3> QED
      BY <3>1, <1>s, <1>z
  <2>4. input_cnt["weight"] \in 0..InputDepth
    <3>1. input_cnt["weight"] = IF 1 <= q /\ q <= ArraySize + 1 THEN q - 1 ELSE 0
      BY <2>1 DEF StreamWeights
    <3>2. ArraySize <= InputDepth
      <4>1. Beats(c, "weight") = ArraySize * c.n /\ c.n \in Nat \ {0}
        BY ConfigSize
      <4>2. ArraySize * c.n >= ArraySize
        <5>1. ArraySize \in Nat \ {0}
          BY <1>s
        <5> QED
          BY ONLY <5>1, <4>1, ProductPositive
      <4>3. Beats(c, "weight") \in Nat /\ Beats(c, "weight") <= InputDepth
        BY <1>s DEF Channels
      <4> QED
        BY <4>1, <4>2, <4>3, <1>s
    <3> QED
      BY <3>1, <3>2, <1>s, <2>q
  <2>5. input_cnt["feature"] \in 0..InputDepth /\ feature_addr \in 0..InputDepth
    <3>1. /\ input_cnt["feature"] = IF RowEntering(q) \in 0..c.rows THEN RowEntering(q) ELSE 0
          /\ feature_addr = IF RowEntering(q) \in 0..c.rows-2 THEN RowEntering(q) + 1 ELSE 0
      BY <2>1 DEF StreamRows
    <3> QED
      BY <3>1, <1>s, <2>q
  <2>6. weight_row \in 0..ArraySize-1 /\ shift_cnt \in 0..ArraySize
    <3>1. /\ weight_row = IF q < ArraySize THEN q ELSE 0
          /\ shift_cnt = IF 1 <= q /\ q <= ArraySize + 1 THEN q - 1 ELSE 0
      BY <2>1 DEF StreamWeights
    <3> QED
      BY <3>1, <1>s, <2>q
  <2>7. weight_col \in 0..InputDepth
    <3>1. weight_col \in {nb, 0, nb + 1}
      BY <2>1 DEF StreamWeights
    <3> QED
      BY <3>1, <1>s, <2>q
  <2>8. \A ch \in Channels : input_cnt[ch] \in 0..InputDepth
    BY <2>4, <2>5 DEF Channels
  <2> QED
    BY <2>2, <2>3, <2>5, <2>6, <2>7, <2>8 DEF BFBounds
<1>4. CASE EndPhase(c) \/ AwaitPhase(c)
  BY <1>4, <1>r, <1>e DEF EndPhase, AwaitPhase, Computed
<1>5. CASE \E x \in 0..ResultWords(c)+2 : ReadoutPhase(c, x)
  BY <1>5, <1>r, <1>e DEF ReadoutPhase, Computed
<1> QED
  BY <1>1, <1>2, <1>3, <1>4, <1>5 DEF RunPhase

LEMMA OBBoundsHold ==
  ASSUME NEW c, IsConfig(c), RunPhase(c)
  PROVE  OBBounds
<1>s. /\ OutputDepth \in Nat \ {0} /\ c.rows \in Nat /\ c.rows >= 2 /\ c.k \in Nat
      /\ c.n \in Nat /\ ArraySize \in Nat /\ ResultLatency \in Nat
      /\ ResultWords(c) \in Nat /\ ResultWords(c) <= OutputDepth
  BY OutputDepthAssumption, ConfigSize, ResultSize
<1>a. ASSUME NEW b \in Nat, NEW done \in 0..OutputDepth, Accumulating(c, b, done)
      PROVE  OBBounds
  <2>1. 0 \in 0..OutputDepth
    BY <1>s
  <2> QED
    BY <1>a, <2>1 DEF Accumulating, ReadoutAtRest, OBBounds
<1>1. CASE LoadPhase(c)
  <2>1. Accumulating(c, 0, 0) /\ 0 \in 0..OutputDepth
    BY <1>1, <1>s DEF LoadPhase
  <2> QED
    BY <2>1, <1>a
<1>2. ASSUME NEW b \in 0..c.k-1, NEW i \in 0..FillClocks(c), FillPhase(c, b, i)
      PROVE  OBBounds
  <2>1. Accumulating(c, b, 0) /\ 0 \in 0..OutputDepth /\ b \in Nat
    BY <1>2, <1>s DEF FillPhase
  <2> QED
    BY <2>1, <1>a
<1>3. ASSUME NEW b \in 0..c.k-1, NEW nb \in 0..c.n-1, NEW q \in 0..TileClocks(c)-1,
             TilePhase(c, b, nb, q)
      PROVE  OBBounds
  <2>1. Accumulating(c, b, nb * c.rows + RowsOut(q)) /\ b \in Nat
    BY <1>3, <1>s DEF TilePhase
  <2>2. RowsOut(q) \in 0..c.rows-1
    BY <1>s DEF RowsOut, InArray, TileClocks
  <2>3. WordAddr(c, RowsOut(q), nb) \in 0..OutputDepth-1
    BY <2>2, ResultPlaces
  <2>4. nb * c.rows + RowsOut(q) \in 0..OutputDepth
    BY <2>3, <1>s DEF WordAddr
  <2> QED
    BY <2>1, <2>4, <1>a
<1>4. CASE EndPhase(c)
  <2>1. Accumulating(c, c.k, 0) /\ 0 \in 0..OutputDepth
    BY <1>4, <1>s DEF EndPhase
  <2> QED
    BY <2>1, <1>s, <1>a
<1>5. CASE AwaitPhase(c)
  BY <1>5, <1>s DEF AwaitPhase, ReadoutAwaited, OBBounds
<1>6. ASSUME NEW x \in 0..ResultWords(c)+2, ReadoutPhase(c, x)
      PROVE  OBBounds
  <2>1. ReadoutCounters(c, x) /\ ReadoutAddresses(c, x)
    BY <1>6 DEF ReadoutPhase, ReadingOut
  <2>2. mem_count \in 0..OutputDepth
    <3>1. (mem_count = x /\ x <= ResultWords(c)) \/ mem_count = 0
      BY <2>1 DEF ReadoutCounters
    <3> QED
      BY <3>1, <1>s
  <2>3. mem_count_d1 \in 0..OutputDepth
    <3>1. \/ x <= ResultWords(c) + 1 /\ mem_count_d1 = IF x = 0 THEN 0 ELSE x - 1
          \/ mem_count_d1 = 0
      BY <2>1 DEF ReadoutAddresses
    <3> QED
      BY <3>1, <1>s
  <2>4. result_row \in Nat /\ result_col \in Nat
    BY <2>1, <1>s DEF ReadoutAddresses
  <2>5. k_block_done = 0 /\ accum_write_addr = 0
    BY <2>1 DEF ReadoutCounters
  <2> QED
    BY <2>2, <2>3, <2>4, <2>5, <1>s DEF OBBounds
<1> QED
  BY <1>1, <1>2, <1>3, <1>4, <1>5, <1>6 DEF RunPhase

LEMMA BoundsHold == ScheduleInv => IBBounds /\ BFBounds /\ OBBounds
<1> SUFFICES ASSUME ScheduleInv PROVE IBBounds /\ BFBounds /\ OBBounds
  OBVIOUS
<1>1. CASE Resting
  BY <1>1, RestingBounds
<1>2. CASE ~Resting
  <2>1. PICK c : c = JobConfig(job)
    OBVIOUS
  <2>2. job <= Jobs /\ RunPhase(c) /\ HostInv
    BY <1>2, <2>1 DEF ScheduleInv, Scheduled
  <2>3. IsConfig(c)
    BY <2>1, <2>2, JobConfigs DEF ScheduleInv
  <2> QED
    BY <2>2, <2>3, IBBoundsHold, BFBoundsHold, OBBoundsHold
<1> QED
  BY <1>1, <1>2

\* The memory is read out in the readout only.
LEMMA OnlyReadoutAdvances ==
  ASSUME NEW c, RunPhase(c), mem_valid
  PROVE  \E x \in 0..ResultWords(c)+2 : ReadoutPhase(c, x)
<1>1. \A b, done : ~Accumulating(c, b, done)
  BY DEF Accumulating, ReadoutAtRest
<1>2. ~LoadPhase(c) /\ ~EndPhase(c) /\ ~AwaitPhase(c)
  BY <1>1 DEF LoadPhase, EndPhase, AwaitPhase, ReadoutAwaited
<1>3. \A b, i : ~FillPhase(c, b, i)
  BY <1>1 DEF FillPhase
<1>4. \A b, nb, q : ~TilePhase(c, b, nb, q)
  BY <1>1 DEF TilePhase
<1> QED
  BY <1>2, <1>3, <1>4 DEF RunPhase

\* Between two jobs these two keep what the last job left, so that their
\* bounds are inductive on their own.
LastWordBounds == result_count \in 0..OutputDepth /\ clear_addr \in -1..OutputDepth-1

LEMMA LastWordBoundsNext ==
  ASSUME ScheduleInv, LastWordBounds, results_expected \in Nat, [Next]_vars
  PROVE  LastWordBounds'
<1>d. OutputDepth \in Nat \ {0}
  BY OutputDepthAssumption
<1>1. CASE UNCHANGED vars
  BY <1>1 DEF vars, obVars, LastWordBounds
<1>2. ASSUME NEW v \in [Channels -> BOOLEAN], NEW rdy \in BOOLEAN, NEW clear \in BOOLEAN,
             Clock(v, rdy, clear)
      PROVE  LastWordBounds'
  <2>1. result_count' = NextResultCount(rdy) /\ clear_addr' = NextClearAddr(cfg, rdy)
    BY <1>2 DEF Clock, TopClock, OBClock
  <2>2. CASE Resting
    <3>1. ~result_valid /\ ~mem_valid /\ mem_count_d1 = 0
      BY <2>2 DEF Resting, OutputAtRest, ReadoutAtRest
    <3>2. result_count' \in {0, result_count}
      BY <2>1, <3>1 DEF NextResultCount
    <3>3. clear_addr' \in {0 - 1, clear_addr}
      BY <2>1, <3>1 DEF NextClearAddr, OutputEnd, MemAdvance
    <3> QED
      BY <3>2, <3>3, <1>d DEF LastWordBounds
  <2>3. CASE ~Resting
    <3>1. PICK c : c = JobConfig(job)
      OBVIOUS
    <3>2. job <= Jobs /\ Running(c) /\ RunPhase(c) /\ HostInv
      BY <2>3, <3>1 DEF ScheduleInv, Scheduled
    <3>3. IsConfig(c) /\ cfg = c
      BY <3>1, <3>2, JobConfigs DEF ScheduleInv, Running
    <3>4. results_expected = ResultWords(c)
      BY <3>2, <3>3, RunningSizes
    <3>s. /\ ResultWords(c) \in Nat /\ ResultWords(c) >= 2 /\ ResultWords(c) <= OutputDepth
          /\ c.rows \in Nat /\ c.n \in Nat
      BY <3>3, ResultSize, ConfigSize
    <3>5. result_count' \in 0..OutputDepth
      <4>1. CASE result_valid
        <5>1. PICK x \in 0..ResultWords(c)+2 : ReadoutPhase(c, x)
          BY <3>2, <4>1, SilentPhases
        <5>2. result_count = IF x < 3 THEN 0 ELSE x - 3
          BY <5>1 DEF ReadoutPhase, ReadingOut, ReadoutCounters
        <5>3. result_count \in Nat /\ result_count + 1 <= OutputDepth
          BY <5>2, <3>s, <1>d
        <5>4. result_count' \in {0, result_count, result_count + 1}
          BY <2>1 DEF NextResultCount
        <5> QED
          BY <5>3, <5>4, <1>d
      <4>2. CASE ~result_valid
        <5>1. result_count' \in {0, result_count}
          BY <2>1, <4>2 DEF NextResultCount
        <5> QED
          BY <5>1, <1>d DEF LastWordBounds
      <4> QED
        BY <4>1, <4>2
    <3>6. clear_addr' \in -1..OutputDepth-1
      <4>1. CASE OutputEnd
        <5>1. clear_addr' = results_expected - 1
          BY <2>1, <4>1 DEF NextClearAddr
        <5> QED
          BY <5>1, <3>4, <3>s, <1>d
      <4>2. CASE ~OutputEnd /\ MemAdvance(rdy) /\ ~AtLastWord(cfg)
        <5>1. clear_addr' = result_col * c.rows + result_row
          BY <2>1, <4>2, <3>3 DEF NextClearAddr, ResultReadAddr
        <5>2. PICK x \in 0..ResultWords(c)+2 : ReadoutPhase(c, x)
          <6>1. mem_valid
            BY <4>2 DEF MemAdvance
          <6> QED
            BY <6>1, <3>2, OnlyReadoutAdvances
        <5>3. /\ ReadoutFlags(c, x) /\ ReadoutAddresses(c, x)
          BY <5>2 DEF ReadoutPhase, ReadingOut
        <5>4. x < ResultWords(c)
          BY <4>2, <5>3 DEF MemAdvance, ReadoutFlags
        <5>5. result_row \in 0..c.rows-1 /\ result_col \in 0..c.n-1
          BY <5>3, <5>4, <3>s DEF ReadoutAddresses
        <5>6. WordAddr(c, result_row, result_col) \in 0..OutputDepth-1
          BY <5>5, <3>3, ResultPlaces
        <5> QED
          BY <5>1, <5>6, <1>d DEF WordAddr
      <4>3. CASE ~OutputEnd /\ ~(MemAdvance(rdy) /\ ~AtLastWord(cfg))
        <5>1. clear_addr' = clear_addr
          BY <2>1, <4>3 DEF NextClearAddr
        <5> QED
          BY <5>1 DEF LastWordBounds
      <4> QED
        BY <4>1, <4>2, <4>3
    <3> QED
      BY <3>5, <3>6 DEF LastWordBounds
  <2> QED
    BY <2>2, <2>3
<1> QED
  BY <1>1, <1>2 DEF Next

TypeInv == ScheduleInv /\ StatusInv /\ Kinds /\ LastWordBounds

LEMMA TypeInvGivesTypeOK == TypeInv => TypeOK
<1> SUFFICES ASSUME TypeInv PROVE TypeOK
  OBVIOUS
<1>b. IBBounds /\ BFBounds /\ OBBounds /\ LastWordBounds
  BY BoundsHold DEF TypeInv
<1>k. /\ IBKinds /\ FeederFlags /\ FeederCounts /\ FeederWords
      /\ OutputControl /\ OutputSums /\ TopKinds
  BY DEF TypeInv, Kinds
<1>1. IBTypeOK
  <2>1. /\ words_expected \in [Channels -> Nat] /\ k_elements \in Nat
        /\ buffer_valid \in [Channels -> BOOLEAN]
    BY <1>k DEF IBKinds
  <2>2. /\ write_count \in [Channels -> 0..InputDepth]
        /\ write_addr \in [Channels -> 0..InputDepth-1]
        /\ buffer_count \in [Channels -> 0..InputDepth]
    BY <1>b, <1>k DEF IBKinds, IBBounds
  <2>3. /\ \A ch \in Channels, a \in 0..InputDepth-1 : IsWord(buffer_mem[ch][a])
        /\ \A ch \in Channels : IsWord(buffer_data[ch])
    BY <1>k, WordKinds DEF IBKinds
  <2> QED
    BY <1>b, <2>1, <2>2, <2>3 DEF IBTypeOK, IBBounds
<1>2. BFTypeOK
  <2>1. /\ {start, weight_loaded_d1, w_end, weight_flag_up, both_full_d1,
            loading_weights} \subseteq BOOLEAN
        /\ input_valid \in [Channels -> BOOLEAN]
    BY <1>k DEF FeederFlags
  <2>2. total_words \in [Channels -> Nat]
    BY <1>k DEF FeederCounts
  <2>3. /\ tile_count \in [Channels -> 0..InputDepth]
        /\ tile_addr \in [Channels -> 0..InputDepth-1]
        /\ input_cnt \in [Channels -> 0..InputDepth]
    BY <1>b, <1>k DEF FeederCounts, BFBounds
  <2>4. /\ IsTile(shift_reg) /\ IsTile(pe_weights)
        /\ \A i \in 0..ResultLatency : pipe[i].valid => IsSum(pipe[i].sum)
    BY <1>k, WordKinds DEF FeederWords
  <2> QED
    BY <1>b, <2>1, <2>2, <2>3, <2>4 DEF BFTypeOK, BFBounds
<1>3. OBTypeOK
  <2>1. /\ \A a \in 0..OutputDepth-1 : IsAccum(accum_mem[a])
        /\ IsAccum(read_data) /\ IsAccum(mem_data_d1) /\ IsAccum(result_data.acc)
    BY <1>k, WordKinds DEF OutputSums
  <2>2. {start_result, mem_valid, mem_valid_d1, mem_valid_d2, result_valid} \subseteq BOOLEAN
    BY <1>k DEF OutputControl
  <2>3. /\ {accum_write_addr, mem_count, mem_count_d1, result_count} \subseteq 0..OutputDepth
        /\ clear_addr \in -1..OutputDepth-1
    BY <1>b DEF OBBounds, LastWordBounds
  <2>4. {results_expected, k_block_done, result_col, result_row} \subseteq Nat
    BY <1>b, <1>k DEF OBBounds, OutputControl
  <2> QED
    BY <2>1, <2>2, <2>3, <2>4 DEF OBTypeOK
<1>4. {core_active, job_busy, job_done, clear_accepted, clear_busy_error} \subseteq BOOLEAN
  BY <1>k DEF TopKinds
<1>5. job \in 1..Jobs+1 /\ written \in 0..4 /\ settled \in 0..SettleClocks
  BY DEF TypeInv, ScheduleInv, Scheduled, HostInv
<1>6. \A ch \in Channels : sent[ch] \in 0..InputDepth
  BY <1>b DEF IBBounds
<1> QED
  BY <1>1, <1>2, <1>3, <1>4, <1>5, <1>6 DEF TypeOK

LEMMA TypeInvNext == TypeInv /\ [Next]_vars => TypeInv'
<1> SUFFICES ASSUME TypeInv, [Next]_vars PROVE TypeInv'
  OBVIOUS
<1>1. ScheduleInv' /\ StatusInv'
  BY ScheduleInvNext, StatusInvNext DEF TypeInv
<1>2. Kinds'
  BY KindsNext DEF TypeInv
<1>3. LastWordBounds'
  <2>1. results_expected \in Nat
    BY DEF TypeInv, Kinds, OutputControl
  <2> QED
    BY <2>1, LastWordBoundsNext DEF TypeInv
<1> QED
  BY <1>1, <1>2, <1>3 DEF TypeInv

-----------------------------------------------------------------------------
(* Theorems.  PlainJobs is their hypothesis: every job has two rows or     *)
(* more, and its configuration is complete for one clock before its first  *)
(* beat.  A single-row job breaks the accelerator (OnlyConfiguredBeats).   *)

(* Every register of the accelerator follows the schedule of the running   *)
(* job, for every sequence of shapes, every gap in the input streams,      *)
(* every back-pressure and every moment of the register writes (all of     *)
(* In_buffer.v, Buffer_feeder.v, Out_buffer.v, GEMM_core.v, GEMM_top.v).   *)
THEOREM JobsAreScheduled == PlainJobs => (Spec => []Scheduled)
<1>1. ScheduleInv => Scheduled
  BY DEF ScheduleInv
<1> QED
  BY <1>1, SpecScheduled, PTL

(* Every beat of the result stream is the next one of the running job,     *)
(* made of every partial sum once and in order, with the job's own shift;  *)
(* TLAST is on the last beat and only there (In_buffer.v to Out_buffer.v). *)
THEOREM ResultsAreExact == PlainJobs => (Spec => []ResultBeatsExact)
BY ScheduleResult, SpecScheduled, PTL

(* Between two jobs every accumulator is zero: the clear of Out_buffer.v   *)
(* (lines 236-241) leaves nothing of a job behind, whatever back-pressure  *)
(* its readout met.                                                        *)
THEOREM AccumulatorsAreCleared == PlainJobs => (Spec => []NothingLeftInAccumulators)
BY ScheduleAccumulators, SpecScheduled, PTL

(* The prefetched accumulator is never stale: no partial sum is added to a *)
(* value that the word no longer holds (Out_buffer.v, lines 207-212).      *)
THEOREM PrefetchIsFresh == PlainJobs => (Spec => []AccumulatorReadIsFresh)
BY SchedulePrefetch, SpecScheduled, PTL

(* No weight tile is loaded over a row still in the array                  *)
(* (Buffer_feeder.v, lines 236-262).                                       *)
THEOREM RowsMeetTheirWeights == PlainJobs => (Spec => []WeightsStationary)
BY ScheduleWeights, SpecScheduled, PTL

(* No word InputBuffer replays is refused by the feeder, and so none is    *)
(* lost (In_buffer.v, lines 125-131).                                      *)
THEOREM ReplayIsTaken == PlainJobs => (Spec => []ReplayNeverStalls)
BY ScheduleReplay, SpecScheduled, PTL

(* A running job keeps the configuration software wrote for it while the   *)
(* registers of the next one are being written (GEMM_core.v, 69-109).      *)
THEOREM ConfigurationIsFrozen == PlainJobs => (Spec => []ConfigFrozen)
BY ScheduleConfig, SpecScheduled, PTL

(* A result beat that is offered stays unchanged until it is taken         *)
(* (Out_buffer.v as a master of an AXI4-Stream).                           *)
THEOREM ResultsAreHeld == PlainJobs => (Spec => ResultHeld)
<1> DEFINE Held == result_valid /\ received' = received /\ job' = job
                     => result_valid' /\ result_data' = result_data /\ ResultLast' = ResultLast
<1>1. ScheduleInv /\ [Next]_vars => [Held]_vars
  <2> SUFFICES ASSUME ScheduleInv, Next PROVE Held
    OBVIOUS
  <2> QED
    BY ResultStays DEF Next
<1>2. PlainJobs /\ Spec => [][Held]_vars
  BY <1>1, SpecScheduled, PTL DEF Spec
<1> QED
  BY <1>2 DEF ResultHeld

(* The accelerator implements the service: seen through status and streams *)
(* it takes every input beat once, delivers only after all of them, is     *)
(* busy from the first beat to the last and done after it (GEMM_top.v).    *)
THEOREM ServiceIsImplemented == PlainJobs => (Spec => ImplementsService)
<1>1. Spec => []StatusInv
  <2>1. StatusInv /\ [Next]_vars => StatusInv'
    BY StatusInvNext
  <2> QED
    BY <2>1, InitStatusInv, PTL DEF Spec
<1>2. Init => Service!Init
  BY ServiceInit
<1>3. ScheduleInv /\ StatusInv /\ StatusInv' /\ [Next]_vars => [Service!Next]_(Service!vars)
  BY ServiceStep
<1>4. PlainJobs /\ Spec => Service!Init /\ [][Service!Next]_(Service!vars)
  BY <1>1, <1>2, <1>3, SpecScheduled, PTL DEF Spec
<1> QED
  BY <1>4 DEF ImplementsService, Service!Spec

(* Every register of the accelerator holds a value of its kind, every      *)
(* address that is written stays inside its memory and every counter       *)
(* within the depth it counts to, for every array size, depth and sequence *)
(* of jobs of two rows or more (In_buffer.v, Buffer_feeder.v,              *)
(* Out_buffer.v, GEMM_core.v, GEMM_top.v).                                 *)
THEOREM AcceleratorTypeCorrect == PlainJobs => (Spec => []TypeOK)
<1>1. PlainJobs /\ Init => TypeInv
  <2>1. Init => LastWordBounds
    BY OutputDepthAssumption DEF Init, TopInit, OBInit, LastWordBounds
  <2>2. PlainJobs /\ Init => ScheduleInv
    BY InitScheduled DEF ScheduleInv
  <2> QED
    BY <2>1, <2>2, InitStatusInv, InitKinds DEF TypeInv
<1> QED
  BY <1>1, TypeInvNext, TypeInvGivesTypeOK, PTL DEF Spec

=============================================================================
