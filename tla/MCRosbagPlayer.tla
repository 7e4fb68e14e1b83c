--------------------------- MODULE MCRosbagPlayer ---------------------------
(***************************************************************************)
(* The playlists and settings TLC plays.                                   *)
(***************************************************************************)
EXTENDS RosbagPlayer

LOCAL Imu(t) == [topic |-> "imu", time |-> t, stamp |-> t, typed |-> TRUE]
LOCAL Points(t) == [topic |-> "points", time |-> t, stamp |-> t - 1, typed |-> TRUE]
LOCAL Ext(t) == [topic |-> "ext", time |-> t, stamp |-> t, typed |-> FALSE]
LOCAL Untyped(t) == [Points(t) EXCEPT !.typed = FALSE]

\* An end_time that is not set: later than all stamps.
LOCAL Never == 99

\* No bag at all, two bags in a row, an empty bag before a broken one, and bags whose names are
\* not in the order in which they were recorded.
SomePlaylists ==
  { <<>>,
    << <<Points(1), Imu(2), Points(4)>>, <<Points(6)>> >>,
    << <<>>, <<Ext(2), Points(3), Untyped(4)>> >>,
    << <<Points(5), Imu(5)>>, <<Points(2), Points(7)>> >> }

\* Offsets within and past the first bag, limits that strike and that do not, and
\* a second bag that cannot be opened.
SomeSettings ==
  [start_offset : {0, 1, 9}, until : {0, 5}, duration : {0, 2},
   end_time : {0, 2, Never}, auto_quit : BOOLEAN, unreadable : {{}, {2}}]
=============================================================================
