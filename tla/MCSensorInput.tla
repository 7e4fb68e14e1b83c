---------------------------- MODULE MCSensorInput ----------------------------
(***************************************************************************)
(* Readings around the thresholds of imu_callback: free fall, gravity in g *)
(* (at rest, or nearly free fall in m/s^2), 3 g, gravity in m/s^2, and     *)
(* more than that.                                                         *)
(***************************************************************************)
EXTENDS SensorInput

SomeNorms == {5, 10, 30, 98, 130}

SomeScales == {0, Gravity}
=============================================================================
