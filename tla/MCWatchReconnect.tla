-------------------------- MODULE MCWatchReconnect --------------------------
(* Calls before, during and after a restore, with overlapping round trips,  *)
(* and the loss of a connection on which the session is being restored.     *)
(* Restored: what the client withstands.  Signing: a loss while an open is  *)
(* being signed.                                                            *)
EXTENDS WatchReconnect
=============================================================================
