------------------------- MODULE MCSessionProtocol -------------------------
(* One session of two commits, the reads of the first contested.  The       *)
(* connection is lost at any point, twice in a row, the server restarts,    *)
(* and another client resumes the session.                                  *)
EXTENDS SessionProtocol
=============================================================================
