------------------------------- MODULE MCStats -------------------------------
(* A small instance of Stats for TLC, and one of the histograms it counts.   *)
(* They are independent: TLC takes steps of the one or of the other, never   *)
(* both, since their product would show nothing new.                         *)
EXTENDS Stats, Histogram, TLC

CONSTANTS w1

\* Polled by a clock that is behind, at once, below a second, exactly one, and
\* more: buckets on both sides of a second, with gaps of several.
MCSamples == {-1, 0, 1, 2, 3, 9}

MCInit == Init /\ InitHist

MCNext == \/ record = <<>> /\ Next /\ UNCHANGED <<hist, record>>
          \/ Init /\ NextHist /\ UNCHANGED vars

MCSpec == MCInit /\ [][MCNext]_<<vars, hist, record>>

=============================================================================
