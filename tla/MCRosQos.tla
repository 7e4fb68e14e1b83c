------------------------------ MODULE MCRosQos ------------------------------
(***************************************************************************)
(* All profiles and a misspelt one; depths at the boundaries of an int.    *)
(***************************************************************************)
EXTENDS RosQos

SomeNames == (DOMAIN Rmw) \cup {"sensors"}

SomeDepths == {-1, 0, 127}
=============================================================================
