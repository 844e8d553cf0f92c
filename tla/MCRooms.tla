------------------------------- MODULE MCRooms -------------------------------
(***************************************************************************)
(* Instances of Rooms for TLC: one thread, and clients that write the full *)
(* name of a room in their URLs or, in one run, leave "room-" out.         *)
(***************************************************************************)
EXTENDS Rooms

==============================================================================
