--------------------------- MODULE MCRosbagSession ---------------------------
(***************************************************************************)
(* The playlists and settings TLC plays to the node.                       *)
(***************************************************************************)
EXTENDS RosbagSession

LOCAL Points(t) == [topic |-> "points", time |-> t, stamp |-> t, typed |-> TRUE]
LOCAL Imu(t) == [topic |-> "imu", time |-> t, stamp |-> t, typed |-> FALSE]

\* Two bags, and a bag with a cloud that is not usable and a broken message.
SomePlaylists ==
  { << <<Points(1)>>, <<Points(2)>> >>,
    << <<Points(4), Points(5), Imu(6), Points(7)>> >> }

\* One bag to its end, and one that is given up on.
FewPlaylists == { << <<Points(2)>> >>, << <<Points(1), Imu(6)>> >> }

\* With an end_time, and with the default, later than all stamps.
SomeSettings ==
  { [start_offset |-> 0, until |-> 0, duration |-> 0, end_time |-> e,
     auto_quit |-> q, unreadable |-> {}] : e \in {1, 99}, q \in BOOLEAN }
=============================================================================
