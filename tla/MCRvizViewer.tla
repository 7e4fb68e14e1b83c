---------------------------- MODULE MCRvizViewer ----------------------------
(***************************************************************************)
(* The frame ids TLC tries.                                                *)
(***************************************************************************)
EXTENDS RvizViewer

LOCAL Detected ==
  [imu |-> Empty, lidar |-> Empty, base |-> Empty,
   imu_header |-> "imu_link", lidar_header |-> "lidar_link", imu2lidar |-> TRUE]

\* Everything detected.
OneSetup == {Detected}

\* Also: all configured, a base of its own, one id for both sensors, and the LiDAR
\* as the base, with and without its transform.
SomeSetups ==
  { Detected,
    [Detected EXCEPT !.imu = "imu", !.lidar = "lidar"],
    [Detected EXCEPT !.base = "base_link"],
    [Detected EXCEPT !.imu_header = "livox", !.lidar_header = "livox"],
    [Detected EXCEPT !.lidar = "lidar", !.base = "lidar"],
    [Detected EXCEPT !.lidar = "lidar", !.base = "lidar", !.imu2lidar = FALSE] }
=============================================================================
