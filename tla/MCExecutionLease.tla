-------------------------- MODULE MCExecutionLease --------------------------
(* Two hosts compete.  Derivers: one server per host, the first through two *)
(* tenures, with every way of committing.  Succession: the first host parks *)
(* its server, which may live through two tenures, and serves the space     *)
(* again with a second one.                                                 *)
EXTENDS ExecutionLease, TLC

CONSTANTS p1, p2, a, b, c

MCProcess == {p1, p2}

DeriverServer  == {a, c}
DeriverHostOf  == (a :> p1) @@ (c :> p2)
DeriverAlone   == (a :> {"direct"}) @@ (c :> {"notice"})
DeriverTenures == (a :> 2) @@ (c :> 1)

SuccessionServer  == {a, b, c}
SuccessionHostOf  == (a :> p1) @@ (b :> p1) @@ (c :> p2)
SuccessionAlone   == (a :> {"completion"}) @@ (b :> {}) @@ (c :> {})
SuccessionTenures == (a :> 2) @@ (b :> 1) @@ (c :> 2)
=============================================================================
