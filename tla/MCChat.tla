-------------------------------- MODULE MCChat --------------------------------
(* The chat server with a few requests, sessions and conversations. *)
EXTENDS ChatStream
===============================================================================
