------------------------------ MODULE Histogram ------------------------------
(***************************************************************************)
(* The exponential histograms of the statistics (stats/hist.go) and what   *)
(* they are converted to: Prometheus's native and classic histograms.      *)
(*                                                                         *)
(* Durations are in ticks, TicksLog2 says how many there are in a second.  *)
(* Bucket k holds the durations from 2^(k/4) up to, not including,         *)
(* 2^((k+1)/4) seconds: the scale is 2 throughout the program.             *)
(***************************************************************************)
EXTENDS Integers, Sequences, FiniteSets

CONSTANTS
  TicksLog2,    \* a second has 2^TicksLog2 ticks
  MaxDuration,  \* bound: the longest duration recorded, in ticks
  Samples,      \* the durations recorded: negative if two clocks disagree
  MaxSamples    \* bound: how many are recorded

ASSUME TicksAssumption == TicksLog2 \in Nat /\ MaxDuration \in Nat \ {0}
ASSUME SamplesAssumption ==
  Samples \subseteq Int /\ (\A d \in Samples : d <= MaxDuration) /\ MaxSamples \in Nat

VARIABLES
  hist,    \* a histogram
  record   \* history: the durations it was given, in their order

Infinity == MaxDuration + 1

NewHist == [count |-> 0, sum |-> 0, min |-> Infinity, max |-> -Infinity,
            zeroCount |-> 0, offset |-> 0, counts |-> <<>>]

-----------------------------------------------------------------------------
\* RecordDuration.

\* The powers of two.
TwoTo[k \in Nat] == IF k = 0 THEN 1 ELSE 2 * TwoTo[k - 1]

\* floor(log2(x) * 4): the greatest k with 2^k <= x^4, x in seconds.
MapToIndex(d) ==
  LET x == d * d * d * d
  IN  (CHOOSE k \in 0..(4 * MaxDuration) : TwoTo[k] <= x /\ x < TwoTo[k + 1])
        - 4 * TicksLog2

\* Mutant: a bucket grown to the left forgets where its first count was.
IncBucketShifted(h, idx) ==
  LET last == h.offset + Len(h.counts) - 1
      at   == idx - h.offset + 1
      zeros(n) == [i \in 1..n |-> 0]
  IN  IF h.counts = <<>> THEN [h EXCEPT !.offset = idx, !.counts = <<1>>]
      ELSE IF idx < h.offset
        THEN [h EXCEPT !.counts = <<1>> \o zeros(h.offset - idx - 1) \o @]
      ELSE IF idx > last
        THEN [h EXCEPT !.counts = @ \o zeros(idx - last - 1) \o <<1>>]
      ELSE [h EXCEPT !.counts[at] = @ + 1]

\* The slice of counts grows to the left or to the right to reach the bucket.
IncBucket(h, idx) ==
  LET last == h.offset + Len(h.counts) - 1
      at   == idx - h.offset + 1
      zeros(n) == [i \in 1..n |-> 0]
  IN  IF h.counts = <<>> THEN [h EXCEPT !.offset = idx, !.counts = <<1>>]
      ELSE IF idx < h.offset
        THEN [h EXCEPT !.offset = idx,
                       !.counts = <<1>> \o zeros(h.offset - idx - 1) \o @]
      ELSE IF idx > last
        THEN [h EXCEPT !.counts = @ \o zeros(idx - last - 1) \o <<1>>]
      ELSE [h EXCEPT !.counts[at] = @ + 1]

\* Negative durations are ignored, zero has a count of its own.
RecordDuration(h, d) ==
  LET r == [h EXCEPT !.count = @ + 1, !.sum = @ + d,
                     !.min = IF d < @ THEN d ELSE @,
                     !.max = IF d > @ THEN d ELSE @]
  IN  IF d < 0 THEN h
      ELSE IF d = 0 THEN [r EXCEPT !.zeroCount = @ + 1]
      ELSE IncBucket(r, MapToIndex(d))

-----------------------------------------------------------------------------
\* ToPromNative: the non-empty buckets as spans of consecutive ones, their
\* counts as differences. Position i of counts is the bucket offset + i - 1,
\* which Prometheus numbers by its upper bound: offset + i.

\* Mutant: the distance of a span is taken from the last bucket before it.
AddBucketFromLast(n, idx, c) ==
  LET adjacent == n.spans # <<>> /\ idx = n.end + 1
      distance == IF n.spans = <<>> THEN idx ELSE idx - n.end
  IN  [spans  |-> IF adjacent THEN [n.spans EXCEPT ![Len(n.spans)].length = @ + 1]
                  ELSE Append(n.spans, [offset |-> distance, length |-> 1]),
       deltas |-> Append(n.deltas, c - n.count), end |-> idx, count |-> c]

\* A bucket right behind the one before lengthens its span, any other begins one
\* at its distance from the end of the last. end and count are of the last bucket.
AddBucket(n, idx, c) ==
  LET adjacent == n.spans # <<>> /\ idx = n.end + 1
      distance == IF n.spans = <<>> THEN idx ELSE idx - (n.end + 1)
  IN  [spans  |-> IF adjacent THEN [n.spans EXCEPT ![Len(n.spans)].length = @ + 1]
                  ELSE Append(n.spans, [offset |-> distance, length |-> 1]),
       deltas |-> Append(n.deltas, c - n.count), end |-> idx, count |-> c]

NoBuckets == [spans |-> <<>>, deltas |-> <<>>, end |-> 0, count |-> 0]

\* The loop over the slice of counts.
NonEmptyBuckets(h) ==
  LET upTo[i \in 0..Len(h.counts)] ==
        IF i = 0 THEN NoBuckets
        ELSE IF h.counts[i] = 0 THEN upTo[i - 1]
        ELSE AddBucket(upTo[i - 1], h.offset + i, h.counts[i])
  IN  upTo[Len(h.counts)]

ToPromNative(h) ==
  LET n == NonEmptyBuckets(h)
  IN  [count |-> h.count, sum |-> h.sum, zeroCount |-> h.zeroCount,
       spans |-> IF n.spans = <<>> THEN <<[offset |-> 0, length |-> 0]>> ELSE n.spans,
       deltas |-> n.deltas]

\* Mutant: a bucket counts only its own durations.
ClassicBucketsApart(h) ==
  [b \in {h.offset + i : i \in DOMAIN h.counts} |-> h.counts[b - h.offset]]

\* RunningSum(s)[i] is the sum of the first i members of s.
RunningSum(s) ==
  LET sum[i \in 0..Len(s)] == IF i = 0 THEN 0 ELSE sum[i - 1] + s[i] IN sum

\* emitHistogram: how many durations lie below each upper bound. The bound of
\* position i is 2^((offset + i) / 4) seconds.
ClassicBuckets(h) ==
  LET cumulative == RunningSum(h.counts)
  IN  [b \in {h.offset + i : i \in DOMAIN h.counts} |-> cumulative[b - h.offset]]

-----------------------------------------------------------------------------
\* One histogram through its life, under the mutex of its measurers.

InitHist == hist = NewHist /\ record = <<>>

Record(d) ==
  /\ Len(record) < MaxSamples
  /\ hist' = RecordDuration(hist, d)
  /\ record' = Append(record, d)

\* Reset puts new measurers in the place of the old ones.
Renew == hist' = NewHist /\ record' = <<>>

NextHist == (\E d \in Samples : Record(d)) \/ Renew

HistSpec == InitHist /\ [][NextHist]_<<hist, record>>

-----------------------------------------------------------------------------
(* Reference definitions: what the durations recorded say. *)

Kept == {record[i] : i \in DOMAIN record} \ {d \in Samples : d < 0}

\* The sum of the durations, without those that are ignored.
SumOf(s) == RunningSum([i \in 1..Len(s) |-> IF s[i] < 0 THEN 0 ELSE s[i]])[Len(s)]

\* How many durations recorded satisfy a condition.
Count(Test(_)) == Cardinality({i \in DOMAIN record : Test(record[i])})

\* The buckets a reader of a native histogram sees: spans are laid one after
\* the other at their distances, and the counts are the sums of the deltas.
NativeBuckets(n) ==
  LET end    == RunningSum([k \in 1..Len(n.spans) |-> n.spans[k].offset + n.spans[k].length])
      before == RunningSum([k \in 1..Len(n.spans) |-> n.spans[k].length])
      count  == RunningSum(n.deltas)
  IN  UNION {{<<end[k - 1] + n.spans[k].offset + j, count[before[k - 1] + j + 1]>>
                : j \in 0..(n.spans[k].length - 1)} : k \in 1..Len(n.spans)}

-----------------------------------------------------------------------------
(* Properties. *)

\* The histogram says what was recorded, in whatever order its slice of counts
\* grew to either side: how many durations, their sum and extremes, and how
\* many lie in each bucket.
HistogramExact ==
  /\ hist.count = Count(LAMBDA d : d >= 0)
  /\ hist.zeroCount = Count(LAMBDA d : d = 0)
  /\ hist.sum = SumOf(record)
  /\ Kept # {} => /\ hist.min \in Kept /\ \A d \in Kept : hist.min <= d
                  /\ hist.max \in Kept /\ \A d \in Kept : d <= hist.max
  /\ \A i \in DOMAIN hist.counts :
       hist.counts[i] = Count(LAMBDA d : d > 0 /\ MapToIndex(d) = hist.offset + i - 1)
  /\ \A d \in Kept \ {0} : MapToIndex(d) - hist.offset + 1 \in DOMAIN hist.counts

\* The spans and deltas of ToPromNative are the non-empty buckets again, read
\* back as Prometheus reads them: no gap between them is lost or shifted.
NativeExact ==
  NativeBuckets(ToPromNative(hist)) =
    {<<MapToIndex(d) + 1, Count(LAMBDA e : e > 0 /\ MapToIndex(e) = MapToIndex(d))>>
       : d \in Kept \ {0}}

\* A bucket the collector emits counts the positive durations below its bound.
ClassicExact ==
  \A b \in DOMAIN ClassicBuckets(hist) :
    ClassicBuckets(hist)[b] = Count(LAMBDA d : d > 0 /\ MapToIndex(d) < b)
=============================================================================
