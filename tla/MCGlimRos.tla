----------------------------- MODULE MCGlimRos -----------------------------
(***************************************************************************)
(* The instances of GlimRos that TLC checks.                               *)
(***************************************************************************)
EXTENDS GlimRos

AllMains == {"rosnode", "rosbag", "component"}
=============================================================================
