------------------------------ MODULE Detector ------------------------------
(***************************************************************************)
(* CFAR detection, src/core/cfar.cpp and src/cuda/cfar_cuda.cu: a cell of  *)
(* a beam is a detection if it stands out of the training cells around it. *)
(* The same mask is computed in three places: detect_cpu, which defines    *)
(* it, prefix sums for 8-bit images, and a CUDA kernel.                    *)
(*                                                                         *)
(* One beam: the columns of an image are independent.  Intensities are     *)
(* integers, as they are in 8-bit images, where the sums are exact; the    *)
(* threshold factor, a real number that only the window and the requested  *)
(* false-alarm rate determine, is one integer for all detectors.           *)
(***************************************************************************)
EXTENDS Integers, Sequences, SequencesExt

CONSTANTS
  Rows,       \* range bins
  Cells,      \* intensities
  Tau,        \* the threshold factor
  Threshold,  \* filter/threshold
  MaxOsCells  \* kMaxOsTrainCells

ASSUME DetectorAssumption == Rows \in Nat /\ Cells \subseteq Nat /\ MaxOsCells \in Nat

Algs == {"CA", "SOCA", "GOCA", "OS"}

Beam == [0 .. Rows - 1 -> Cells]

Train(d)  == d.Ntc \div 2
Guard(d)  == d.Ngc \div 2
Border(d) == Train(d) + Guard(d)

\* The cells with a whole window around them; the mask is empty elsewhere.
Interior(d) == Border(d) .. Rows - Border(d) - 1

\* The cells before and after row that it is compared with.
LeadingCells(d, row) == row - Border(d) .. row - Guard(d) - 1
LaggingCells(d, row) == row + Guard(d) + 1 .. row + Border(d)

\* What a cell's training statistic is divided by.
Divisor(d, alg) ==
  CASE alg = "CA" -> 2 * Train(d) [] alg = "OS" -> 1 [] OTHER -> Train(d)

Hit(cell, statistic, d, alg) ==
  Divisor(d, alg) * cell > Tau * statistic /\ cell > Threshold

\* The statistic of the two half windows' sums.
Combined(alg, leading, lagging) ==
  CASE alg = "CA"   -> leading + lagging
    [] alg = "SOCA" -> Min({leading, lagging})
    [] alg = "GOCA" -> Max({leading, lagging})

----------------------------------------------------------------------------
(* detect_cpu: the window is read around every cell.                       *)

SumOver(beam, cells) == MapThenSumSet(LAMBDA i : beam[i], cells)

\* nth_element: the cell that rank others are before in order.
OrderStatistic(beam, cells, rank) ==
  CHOOSE x \in {beam[i] : i \in cells} :
    /\ Cardinality({i \in cells : beam[i] < x}) <= rank
    /\ Cardinality({i \in cells : beam[i] <= x}) > rank

Window(beam, d, alg) ==
  LET Statistic(row) ==
        IF alg = "OS"
        THEN OrderStatistic(beam, LeadingCells(d, row) \cup LaggingCells(d, row), d.rank)
        ELSE Combined(alg, SumOver(beam, LeadingCells(d, row)),
                           SumOver(beam, LaggingCells(d, row)))
  IN  {row \in Interior(d) : Hit(beam[row], Statistic(row), d, alg)}

----------------------------------------------------------------------------
(* detect_cpu_prefix_u8: differences of the prefix sums.                   *)

PrefixSums(beam) ==
  LET P[i \in 0 .. Rows] == IF i = 0 THEN 0 ELSE P[i - 1] + beam[i - 1]
  IN  P

\* Mutant: the lagging half starts at the last guard cell.
PrefixShifted(beam, d, alg) ==
  LET P == PrefixSums(beam)
      Leading(row) == P[row - Guard(d)] - P[row - Border(d)]
      Lagging(row) == P[row + Border(d)] - P[row + Guard(d)]
  IN  {row \in Interior(d) :
         Hit(beam[row], Combined(alg, Leading(row), Lagging(row)), d, alg)}

Prefix(beam, d, alg) ==
  LET P == PrefixSums(beam)
      Leading(row) == P[row - Guard(d)] - P[row - Border(d)]
      Lagging(row) == P[row + Border(d) + 1] - P[row + Guard(d) + 1]
  IN  {row \in Interior(d) :
         Hit(beam[row], Combined(alg, Leading(row), Lagging(row)), d, alg)}

----------------------------------------------------------------------------
(* cfar_kernel: one thread for each cell; the order statistic by a partial *)
(* selection sort in a buffer of fixed size.                               *)

\* The training cells in row order, as many as the buffer holds.
Gathered(beam, d, row) ==
  LET Nth(j) == IF j <= Train(d) THEN row - Border(d) + j - 1
                ELSE row + Guard(d) + j - Train(d)
  IN  [j \in 1 .. Min({2 * Train(d), MaxOsCells}) |-> beam[Nth(j)]]

\* The least of the cells from k on is swapped into place.
Selected(train, k) ==
  LET least == Min({train[j] : j \in k .. Len(train)})
      at    == Min({j \in k .. Len(train) : train[j] = least})
  IN  [train EXCEPT ![k] = least, ![at] = train[k]]

Kernel(beam, d, alg) ==
  LET Sorted(row) == FoldLeft(Selected, Gathered(beam, d, row),
                              [pass \in 1 .. d.rank + 1 |-> pass])
      Statistic(row) ==
        IF alg = "OS" THEN Sorted(row)[d.rank + 1]
        ELSE Combined(alg, SumOver(beam, LeadingCells(d, row)),
                           SumOver(beam, LaggingCells(d, row)))
  IN  {row \in Interior(d) : Hit(beam[row], Statistic(row), d, alg)}

----------------------------------------------------------------------------
(* detect: which of them an image is given to.                             *)

\* cfar_cuda refuses a window that its buffer cannot hold.
Takes(d, alg) == alg # "OS" \/ 2 * Train(d) <= MaxOsCells

\* A device that is absent or fails leaves the image to the processor.
Detect(beam, d, alg, deviceWorks, eightBit) ==
  IF deviceWorks /\ Takes(d, alg) THEN Kernel(beam, d, alg)
  ELSE IF eightBit /\ alg # "OS" THEN Prefix(beam, d, alg)
  ELSE Window(beam, d, alg)

\* Is the mask the same whatever computes it?
Agrees(d, alg) ==
  \A beam \in Beam, deviceWorks, eightBit \in BOOLEAN :
    Detect(beam, d, alg, deviceWorks, eightBit) = Window(beam, d, alg)
=============================================================================
