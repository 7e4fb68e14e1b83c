----------------------------- MODULE MapService -----------------------------
(***************************************************************************)
(* What a GLIM process promises to whoever feeds it point clouds, whatever *)
(* happens between its threads: the map is a partition of an initial       *)
(* segment of the accepted clouds, in the order of acceptance, that only   *)
(* grows; and a dump is only written once intake is over and the map holds *)
(* every accepted cloud.  With a mapping stage missing the map stays empty *)
(* and the dumps, if any, with it.                                         *)
(***************************************************************************)
EXTENDS FrameRuns

VARIABLES
  mapping,   \* both mapping stages are configured and loaded
  accepted,  \* number of clouds taken in
  closed,    \* intake is over
  map,       \* the global map
  dumps      \* the maps written so far

vars == <<mapping, accepted, closed, map, dumps>>

Init ==
  /\ mapping \in BOOLEAN
  /\ accepted = 0
  /\ closed = FALSE
  /\ map = <<>>
  /\ dumps = <<>>

Accept ==
  /\ ~closed
  /\ accepted' = accepted + 1
  /\ UNCHANGED <<mapping, closed, map, dumps>>

Close ==
  /\ closed' = TRUE
  /\ UNCHANGED <<mapping, accepted, map, dumps>>

\* The map grows by one submap, made of the clouds that come next.
Integrate ==
  /\ mapping
  /\ \E n \in (LastFrame(map) + 1)..accepted :
       map' = Append(map, Run(LastFrame(map), n))
  /\ UNCHANGED <<mapping, accepted, closed, dumps>>

Dump ==
  /\ closed
  /\ mapping => LastFrame(map) = accepted
  /\ dumps' = Append(dumps, map)
  /\ UNCHANGED <<mapping, accepted, closed, map>>

Next == Accept \/ Close \/ Integrate \/ Dump

Spec == Init /\ [][Next]_vars
=============================================================================
