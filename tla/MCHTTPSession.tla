---------------------------- MODULE MCHTTPSession ----------------------------
(***************************************************************************)
(* Instances of HTTPSession for TLC.  The queue limit is 2 instead of 64:  *)
(* what matters is the queue being empty, partly full and full.            *)
(***************************************************************************)
EXTENDS HTTPSession

==============================================================================
