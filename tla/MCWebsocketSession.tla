-------------------------- MODULE MCWebsocketSession --------------------------
(***************************************************************************)
(* Instances of WebsocketSession for TLC: the one thread a single-core     *)
(* machine gives main.cpp, and two.  Threads beyond the second add nothing *)
(* to one session: mutexWS_ admits one sender and the strand one handler.  *)
(***************************************************************************)
EXTENDS WebsocketSession

==============================================================================
