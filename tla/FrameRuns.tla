----------------------------- MODULE FrameRuns -----------------------------
(***************************************************************************)
(* Frames are numbered 1, 2, 3, ... in the order in which the odometry     *)
(* accepted their point clouds.  A submap keeps the frames it was built    *)
(* from (SubMap::odom_frames), so a submap is a sequence of frames and a   *)
(* map is a sequence of submaps.  This module has the vocabulary in which  *)
(* "no frame lost, none twice, none out of order" is stated.  It is        *)
(* written without recursion so that the theorems can use it.              *)
(***************************************************************************)
EXTENDS Naturals, Sequences

\* s lists the frames that directly follow frame a:  a+1, a+2, ..., a+Len(s).
IsRun(s, a) == \A i \in 1..Len(s) : s[i] = a + i

\* The run of frames a+1 .. b.
Run(a, b) == [i \in 1..(b - a) |-> a + i]

\* The last frame of the i-th submap of m, or 0 before the first one.
EndOf(m, i) == IF i = 0 THEN 0 ELSE m[i][Len(m[i])]

\* The last frame any submap of m holds.
LastFrame(m) == EndOf(m, Len(m))

\* The submaps of m are non-empty and partition the frames 1 .. LastFrame(m),
\* each one starting where its predecessor stops.
IsPartition(m) ==
  \A i \in 1..Len(m) : m[i] # <<>> /\ IsRun(m[i], EndOf(m, i - 1))
=============================================================================
