----------------------------- MODULE MediaStream -----------------------------
(***************************************************************************)
(* What the video channel promises: a bounded, lossless, ordered stream of   *)
(* whole frames.  The streamed machine (TestClient) captures frames          *)
(* 1, 2, 3, ...; the viewer (TestServer) shows them in that order, each      *)
(* once, and every byte it shows belongs to the frame it shows.  The         *)
(* capture loop never runs more than Depth frames ahead of the viewer.       *)
(***************************************************************************)
EXTENDS Integers, Sequences

CONSTANTS Pixels,    \* the positions of a frame that are transported
          Depth,     \* frames captured but not yet shown
          MaxFrames  \* bound on the frames captured

VARIABLES captured,  \* number of frames captured so far
          shown      \* the images shown so far, in order

vars == <<captured, shown>>

Whole(n) == [p \in Pixels |-> n]

Init == captured = 0 /\ shown = <<>>

Capture ==
  /\ captured < MaxFrames
  /\ captured - Len(shown) < Depth
  /\ captured' = captured + 1
  /\ UNCHANGED shown

Show ==
  /\ Len(shown) < captured
  /\ shown' = Append(shown, Whole(Len(shown) + 1))
  /\ UNCHANGED captured

Next == Capture \/ Show

Spec == Init /\ [][Next]_vars
==============================================================================
