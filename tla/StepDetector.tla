---------------------------- MODULE StepDetector ----------------------------
(***************************************************************************)
(* The stage 1 motion engine (motion_detection_engine_stage1.c,            *)
(* step_detection_algo.c, no_motion_algo.c).  Each work tick hands it a    *)
(* window of accelerometer samples; it appends them to a bounded history,  *)
(* looks for the peaks of the window in that history and lets the steps    *)
(* out once enough of them followed each other.                            *)
(*                                                                         *)
(* A sample is the smoothed vertical acceleration it leaves in the         *)
(* history, on an integer scale; the filters that produce it are left out, *)
(* so a window is any sequence of levels.  Autocorrelation needs square    *)
(* roots: its value at a lag is any grade, in hundredths, and the choice   *)
(* of the period among the lags is modelled.                               *)
(***************************************************************************)
EXTENDS Integers, Sequences, SequencesExt, FiniteSetsExt

CONSTANTS
  Level,           \* the values a sample can have
  Windows,         \* the number of samples a window can have
  HistorySize,     \* MAX_VERTICAL_ACCEL_HISTORY_SIZE
  MinSamples,      \* MIN_SAMPLES_BEFORE_STEP_INFERENCE
  MinBetween,      \* MIN_SAMPLES_BETWEEN_STEPS
  MaxBetween,      \* MAX_SAMPLES_BETWEEN_STEPS
  MinProminence,   \* STEP_MIN_PROMINENCE_FOR_PEAK
  MinVariance,     \* STEP_MIN_VARIANCE_ACTIVITY_FOR_STEP
  MinConsecutive,  \* STEP_MIN_ACCEPTABLE_CONSECUTIVE_STEPS
  IdleSamples,     \* STEP_MAX_SAMPLES_BEFORE_STATE_CHANGE
  IdleMax,         \* where samples_since_valid_step saturates (UINT16_MAX)
  QuietWindows,    \* MIN_WINDOW_NO_MOTION_THRESHOLD
  Grades           \* correlations at a lag, in hundredths; -200: skipped

\* The windows the FIFO delivers are shorter than the history that the
\* detector waits for, which is what assert(window_samples < elements) needs.
\* The history is shorter than a byte by more than the steps that are held back,
\* so that their sum with those of a window is never clamped.
ASSUME StepAssumption ==
  /\ HistorySize \in Nat /\ MinSamples \in 4..HistorySize
  /\ Windows \subseteq 1..(MinSamples - 1)
  /\ HistorySize + MinConsecutive <= 256
  /\ MinBetween \in Nat \ {0} /\ MaxBetween > MinBetween
  /\ MaxBetween < MinSamples
  /\ MinConsecutive \in Nat \ {0} /\ QuietWindows \in Nat \ {0}
  /\ IdleSamples \in Nat \ {0} /\ IdleMax \in Nat /\ IdleMax >= IdleSamples

VARIABLES
  accel_history,              \* vertical_accel_mod_history, oldest first
  is_walking, pending_steps, samples_since_valid_step,
  no_motion_window_count,
  result,                     \* what the last window found and reported
  examined, counted,          \* per sample of history: times looked at as a
                              \* peak of a window, times accepted as a step
  bout, owed, idle, quiet     \* steps of the bout, not reported yet; samples
                              \* without a step; windows without motion

ctx == <<accel_history, is_walking, pending_steps, samples_since_valid_step,
         no_motion_window_count>>
stepVars == <<ctx, result, examined, counted, bout, owed, idle, quiet>>

Lags == MinBetween..MaxBetween
Skipped == -200
MinCorrelation == 70     \* MIN_CORELATION_FOR_CONFIDENCE
TieMargin == 5           \* MAX_PERIODICTY_TIE_MARGIN

-----------------------------------------------------------------------------
(* Period of the signal                                                    *)

BestLag(corr) ==
  CHOOSE l \in Lags :
    /\ \A k \in Lags : corr[k] <= corr[l]
    /\ \A k \in Lags : k < l => corr[k] < corr[l]

\* The first maximum within the tie margin of the best one, so that a
\* harmonic does not win.
FirstMaxima(corr) ==
  LET best == BestLag(corr)
      at(l) == IF l \in Lags THEN corr[l] ELSE Skipped
      maxima == {l \in MinBetween..best :
                   /\ corr[l] >= corr[best] - TieMargin
                   /\ corr[l] >= at(l - 1) /\ corr[l] >= at(l + 1)}
  IN  IF maxima = {} THEN best ELSE Min(maxima)

calculate_signal_periodicity(corr) ==
  IF \A l \in Lags : corr[l] = Skipped
  THEN [period |-> (MinBetween + MaxBetween) \div 2, confident |-> FALSE]
  ELSE IF corr[BestLag(corr)] > MinCorrelation
  THEN [period |-> FirstMaxima(corr), confident |-> TRUE]
  ELSE [period |-> BestLag(corr), confident |-> FALSE]

Periodicities == {calculate_signal_periodicity(c) : c \in [Lags -> Grades]}

-----------------------------------------------------------------------------
(* Peaks; indices start at 0, as in ring_buffer_get_element_at_index       *)

SampleAt(h, i) == h[i + 1]

\* ring_buffer_insert for each sample of the window
Inserted(h, w) ==
  LET all == h \o w IN
  IF Len(all) <= HistorySize THEN all
  ELSE SubSeq(all, Len(all) - HistorySize + 1, Len(all))

calculate_peak_radius(period) == (period * 45 + 50) \div 100

LeftBoundary(i, r) == IF i > r THEN i - r ELSE 0
RightBoundary(h, i, r) == IF Len(h) > i + r THEN i + r ELSE Len(h) - 1

calculate_peak_prominence(h, i, r) ==
  LET left  == {SampleAt(h, k) : k \in LeftBoundary(i, r)..(i - 1)}
      right == {SampleAt(h, k) : k \in (i + 1)..RightBoundary(h, i, r)}
      bases == (IF i >= r THEN {Min(left)} ELSE {})
               \cup (IF RightBoundary(h, i, r) - i >= r THEN {Min(right)} ELSE {})
  IN  IF bases = {} THEN 0 ELSE SampleAt(h, i) - Max(bases)

\* The variance around a peak, against the threshold, without a division
VariedEnough(h, i, r) ==
  LET S == LeftBoundary(i, r)..RightBoundary(h, i, r)
      n == Cardinality(S)
      lo == LeftBoundary(i, r)
      sum[k \in 0..n] == IF k = 0 THEN 0 ELSE sum[k - 1] + SampleAt(h, lo + k - 1)
      squares[k \in 0..n] ==
        IF k = 0 THEN 0 ELSE squares[k - 1] + SampleAt(h, lo + k - 1) * SampleAt(h, lo + k - 1)
  IN  n * squares[n] - sum[n] * sum[n] >= MinVariance * n * n

\* Mutant: close peaks are not merged.
AppendAlways(cands, i, prom) == Append(cands, [index |-> i, prominence |-> prom])

append_peak_candidate(cands, i, prom) ==
  LET peak == [index |-> i, prominence |-> prom]
  IN  IF cands = <<>> \/ i - Last(cands).index >= MinBetween
      THEN Append(cands, peak)
      ELSE IF prom > Last(cands).prominence
      THEN Append(Front(cands), peak)
      ELSE cands

Candidates(h, r) ==
  LET upTo[i \in 0..(Len(h) - 2)] ==
        IF i = 0 THEN <<>>
        ELSE LET cands == upTo[i - 1]
                 prom == calculate_peak_prominence(h, i, r)
             IN  IF /\ SampleAt(h, i) >= SampleAt(h, i - 1) /\ SampleAt(h, i) >= SampleAt(h, i + 1)
                    /\ prom >= MinProminence
                 THEN append_peak_candidate(cands, i, prom)
                 ELSE cands
  IN  upTo[Len(h) - 2]

\* How far the best neighbour within a step's distance is from the period
RhythmDeltas(cands, k, period) ==
  LET gap(j) == IF cands[j].index > cands[k].index
                THEN cands[j].index - cands[k].index
                ELSE cands[k].index - cands[j].index
      off(g) == IF g > period THEN g - period ELSE period - g
  IN  {off(gap(j)) : j \in {n \in DOMAIN cands \ {k} :
                              gap(n) \in MinBetween..MaxBetween}}

\* Mutant: the overlap of one sample with the previous window is left out.
BoundaryNoOverlap(h, n) == Len(h) - n

\* Mutant: the window overlaps the previous one by two samples.
BoundaryWide(h, n) == Len(h) - n - 2

WindowBoundary(h, n) == Len(h) - n - 1

\* The peaks of the window that are steps: in the order of the history, the
\* first one of a bout on its prominence alone.
AcceptedPeaks(h, n, p) ==
  LET r == calculate_peak_radius(p.period)
      cands == Candidates(h, r)
      clear(c) == 2 * c.prominence >= 3 * MinProminence
      deltas(k) == RhythmDeltas(cands, k, p.period)
      upTo[k \in 0..Len(cands)] ==
        IF k = 0 THEN {} ELSE
        LET acc == upTo[k - 1]
            c == cands[k]
            first == ~is_walking /\ pending_steps = 0 /\ acc = {} /\ clear(c)
            supported == ~p.confident /\ deltas(k) # {} /\ clear(c)
            timed == /\ p.confident /\ deltas(k) # {}
                     /\ 10 * Min(deltas(k)) <= 3 * p.period
                     /\ 100 * c.prominence >= 115 * MinProminence
        IN  IF /\ c.index >= WindowBoundary(h, n)
               /\ VariedEnough(h, c.index, r)
               /\ first \/ supported \/ timed
            THEN acc \cup {c.index} ELSE acc
  IN  upTo[Len(cands)]

stage1_detect_window_steps(h, n, p) ==
  IF Len(h) < MinSamples THEN {} ELSE AcceptedPeaks(h, n, p)

-----------------------------------------------------------------------------
(* Reporting                                                               *)

TimedOut(n) == samples_since_valid_step + n >= IdleSamples

\* Mutant: the steps held back survive the timeout.
DeriveKeepsPending(ws, n) ==
  IF ws = 0
  THEN [steps |-> 0, pending |-> pending_steps,
        walking |-> is_walking /\ ~TimedOut(n),
        since |-> Min({samples_since_valid_step + n, IdleMax})]
  ELSE LET sum == pending_steps + ws IN
       IF is_walking \/ sum >= MinConsecutive
       THEN [steps |-> sum, pending |-> 0, walking |-> TRUE, since |-> 0]
       ELSE [steps |-> 0, pending |-> sum, walking |-> FALSE, since |-> 0]

\* Mutant: the window that confirms the walk is the only one reported.
DeriveReportsWindow(ws, n) ==
  IF ws = 0
  THEN [steps |-> 0, pending |-> IF TimedOut(n) THEN 0 ELSE pending_steps,
        walking |-> is_walking /\ ~TimedOut(n),
        since |-> Min({samples_since_valid_step + n, IdleMax})]
  ELSE IF is_walking \/ pending_steps + ws >= MinConsecutive
  THEN [steps |-> ws, pending |-> 0, walking |-> TRUE, since |-> 0]
  ELSE [steps |-> 0, pending |-> pending_steps + ws, walking |-> FALSE, since |-> 0]

stage1_derive_accepted_steps_from_window(ws, n) ==
  IF ws = 0
  THEN [steps |-> 0, pending |-> IF TimedOut(n) THEN 0 ELSE pending_steps,
        walking |-> is_walking /\ ~TimedOut(n),
        since |-> Min({samples_since_valid_step + n, IdleMax})]
  ELSE IF is_walking
  THEN [steps |-> ws, pending |-> 0, walking |-> TRUE, since |-> 0]
  ELSE LET sum == Min({pending_steps + ws, 255}) IN
       IF sum >= MinConsecutive
       THEN [steps |-> sum, pending |-> 0, walking |-> TRUE, since |-> 0]
       ELSE [steps |-> 0, pending |-> sum, walking |-> FALSE, since |-> 0]

\* Mutant: a window with motion does not start the count again.
NoMotionKeepsCount(conf) ==
  LET armed == no_motion_window_count >= QuietWindows IN
  [count |-> IF armed THEN no_motion_window_count ELSE no_motion_window_count + 1,
   found |-> armed /\ conf = "high"]

\* Mutant: the count is not held at its threshold.
NoMotionCountsOn(conf) ==
  [count |-> IF conf = "low" \/ no_motion_window_count > QuietWindows + 2 THEN 0
             ELSE no_motion_window_count + 1,
   found |-> no_motion_window_count >= QuietWindows /\ conf = "high"]

\* conf: the combined confidence below 0.8, up to 0.9, or above.  Until the
\* count is full it is multiplied by zero.
stage1_detect_no_motion(conf) ==
  LET armed == no_motion_window_count >= QuietWindows
      count == IF armed THEN no_motion_window_count ELSE no_motion_window_count + 1
  IN  [count |-> CASE conf = "low" -> 0
                   [] conf = "unsure" /\ armed -> count - 1
                   [] OTHER -> count,
       found |-> armed /\ conf = "high"]

Confidences == {"low", "unsure", "high"}

-----------------------------------------------------------------------------
StepInit ==
  /\ accel_history = <<>> /\ examined = <<>> /\ counted = <<>>
  /\ is_walking = FALSE /\ pending_steps = 0 /\ samples_since_valid_step = 0
  /\ no_motion_window_count = 0
  /\ result = [peaks |-> {}, steps |-> 0, no_motion |-> FALSE]
  /\ bout = 0 /\ owed = 0 /\ idle = 0 /\ quiet = 0

\* marks, shifted as the history is by n samples, plus one at the indices S
Shifted(marks, n, len, S) ==
  LET m == marks \o [k \in 1..n |-> 0]
      kept == SubSeq(m, Len(m) - len + 1, Len(m))
  IN  [k \in 1..len |-> kept[k] + IF k - 1 \in S THEN 1 ELSE 0]

Observe(h, n, peaks, steps) ==
  LET ws == Cardinality(peaks)
      looked == IF Len(h) < MinSamples THEN {}
                ELSE Max({1, WindowBoundary(h, n)})..(Len(h) - 2)
      left == IF ws = 0 THEN Min({idle + n, IdleMax}) ELSE 0
      kept == IF left >= IdleSamples THEN 0 ELSE owed
  IN  /\ examined' = Shifted(examined, n, Len(h), looked)
      /\ counted' = Shifted(counted, n, Len(h), peaks)
      /\ idle' = left
      /\ bout' = Min({MinConsecutive, IF left >= IdleSamples THEN 0 ELSE bout + ws})
      /\ owed' = kept + ws - steps

\* One window: its samples, the steps found in it under any period the
\* signal may have, and the confidence that the watch is at rest.
stage1_process_motion_data(w) ==
  LET n == Len(w)
      h == Inserted(accel_history, w)
  IN  \E peaks \in {stage1_detect_window_steps(h, n, p) : p \in Periodicities} :
      LET res == stage1_derive_accepted_steps_from_window(Cardinality(peaks), n) IN
      /\ accel_history' = h
      /\ is_walking' = res.walking
      /\ pending_steps' = res.pending
      /\ samples_since_valid_step' = res.since
      /\ Observe(h, n, peaks, res.steps)
      /\ \E conf \in Confidences :
           LET still == stage1_detect_no_motion(conf) IN
           /\ no_motion_window_count' = still.count
           /\ result' = [peaks |-> peaks, steps |-> res.steps, no_motion |-> still.found]
           /\ quiet' = IF conf = "low" THEN 0 ELSE Min({quiet + 1, QuietWindows + 1})

\* stage1_deinit, then stage1_init: the sensors are shut down and started
stage1_init ==
  /\ accel_history' = <<>> /\ examined' = <<>> /\ counted' = <<>>
  /\ is_walking' = FALSE /\ pending_steps' = 0 /\ samples_since_valid_step' = 0
  /\ no_motion_window_count' = 0
  /\ result' = [peaks |-> {}, steps |-> 0, no_motion |-> FALSE]
  /\ bout' = 0 /\ owed' = 0 /\ idle' = 0 /\ quiet' = 0

StepNext ==
  \/ \E n \in Windows : \E w \in [1..n -> Level] : stage1_process_motion_data(w)
  \/ stage1_init

StepSpec == StepInit /\ [][StepNext]_stepVars

-----------------------------------------------------------------------------
(* Properties                                                              *)

\* The context stays in the ranges of its fields, and the marks are aligned.
StepTypeOK ==
  /\ accel_history \in Seq(Level) /\ Len(accel_history) <= HistorySize
  /\ examined \in Seq(Nat) /\ Len(examined) = Len(accel_history)
  /\ counted \in Seq(Nat) /\ Len(counted) = Len(accel_history)
  /\ is_walking \in BOOLEAN
  /\ pending_steps \in 0..(MinConsecutive - 1)
  /\ samples_since_valid_step \in 0..IdleMax
  /\ no_motion_window_count \in 0..QuietWindows
  /\ result.no_motion \in BOOLEAN

\* No sample is accepted as a step by two windows, although every window is
\* searched together with the history before it.
PeakCountedOnce == \A k \in DOMAIN counted : counted[k] <= 1

\* The windows tile the signal: once the detector looks at samples, every
\* later one but the newest was looked at by exactly one window, so that the
\* peak at the very end of a window is not lost.
WindowsTile ==
  \A k \in DOMAIN examined :
    examined[k] > 0 => \A j \in k..(Len(examined) - 1) : examined[j] = 1

\* Two steps of one window are at least MIN_SAMPLES_BETWEEN_STEPS apart: a
\* harmonic next to a peak is not a step of its own.
StepsSpaced ==
  \A i, j \in result.peaks : i < j => j - i >= MinBetween

\* Steps are reported only in a bout of at least
\* STEP_MIN_ACCEPTABLE_CONSECUTIVE_STEPS steps without a pause.
WalkConfirmed == result.steps > 0 => bout = MinConsecutive

\* Every step of a bout is reported or still held back, and none twice: the
\* steps that confirm a walk are let out with it.
NoStepLost == owed = pending_steps /\ (is_walking => pending_steps = 0)

\* No motion is reported only after QuietWindows windows, and this one,
\* without motion.
RestConfirmed == result.no_motion => quiet > QuietWindows

\* The inductive strengthening of PeakCountedOnce and WindowsTile: the newest sample was
\* neither looked at nor counted, and none was before the history was long enough.
MarksInv ==
  /\ accel_history # <<>> => examined[Len(accel_history)] = 0 /\ counted[Len(accel_history)] = 0
  /\ Len(accel_history) < MinSamples => \A k \in DOMAIN examined : examined[k] = 0

\* The inductive strengthening of WalkConfirmed, NoStepLost and RestConfirmed: what the
\* detector keeps is the length of the bout, the pause and the quiet windows.
BoutInv ==
  /\ idle = samples_since_valid_step
  /\ bout = IF is_walking THEN MinConsecutive ELSE pending_steps
  /\ quiet \in Nat /\ no_motion_window_count <= quiet

\* Counting: the windows tile the samples, so that a peak is counted in one of them and
\* only once, and the steps of a window keep the least distance
\* (the search for peaks and append_peak_candidate in step_detection_algo.c).
StepsCounted == StepTypeOK /\ PeakCountedOnce /\ WindowsTile /\ StepsSpaced /\ MarksInv

\* Reporting: steps are reported only after enough consecutive ones, those held back are
\* reported with them and none is dropped on the way, and rest is reported only after
\* enough quiet windows (stage1_derive_accepted_steps_from_window, stage1_detect_no_motion).
BoutsReported == WalkConfirmed /\ NoStepLost /\ RestConfirmed /\ BoutInv

=============================================================================
