----------------------------- MODULE EventStream -----------------------------
(***************************************************************************)
(* The log of a stream and its dedupe horizon (memory/v2/engine.ts and the  *)
(* drain of runner/src/executor/space-server.ts): what an append is admitted *)
(* against, which entries a wave may process, and how far the horizon       *)
(* follows.  The position of an entry stands for its seq: every append is a *)
(* commit of its own.                                                       *)
(*                                                                          *)
(* An entry that is done has its consequence in the space; ran tells whether *)
(* its handler produced it, or the entry was passed over as a duplicate.    *)
(***************************************************************************)
EXTENDS Integers, Sequences, FiniteSets

Entry(id, done, ran) == [id |-> id, done |-> done, ran |-> ran]
EmptyStream == [entries |-> <<>>, horizon |-> 0]

\* The horizon CAS: an event id is unique among the entries above the horizon.
Above(s) == {n \in DOMAIN s.entries : n > s.horizon}
Duplicate(s, id) == \E n \in Above(s) : s.entries[n].id = id
Admitted(s, id) == [s EXCEPT !.entries = Append(@, Entry(id, FALSE, FALSE))]

\* What a drain finds to do, and the entry it passes over: one whose event
\* another entry has already had its consequence for.
Pending(s) == {n \in Above(s) : ~s.entries[n].done}
TwinAbove(s, n) == \E m \in Above(s) \ {n} :
                     s.entries[m].id = s.entries[n].id /\ s.entries[m].done
Twin(s, n) == \E m \in DOMAIN s.entries \ {n} :
                s.entries[m].id = s.entries[n].id /\ s.entries[m].done
Ran(s, W)  == {n \in W : ~Twin(s, n)}

\* A derived commit that marked the entries W takes the horizon over every
\* leading entry that is done; one put back in the queue holds it.
Marked(s, W) == [n \in DOMAIN s.entries |->
  IF n \in W THEN Entry(s.entries[n].id, TRUE, n \in Ran(s, W)) ELSE s.entries[n]]
FrontierOverPending(entries, from) ==
  {h \in from..Len(entries) :
     /\ h = from \/ entries[h].done
     /\ \A n \in DOMAIN entries : n > h => ~entries[n].done}
Frontiers(entries, from) ==
  {h \in from..Len(entries) :
     /\ \A n \in DOMAIN entries : from < n /\ n <= h => entries[n].done
     /\ h = Len(entries) \/ ~entries[h + 1].done}
Waved(s, W) ==
  {[entries |-> Marked(s, W), horizon |-> h] : h \in Frontiers(Marked(s, W), s.horizon)}

\* The events whose consequence is in the space, and those that have been
\* appended.
Logged(s)  == {s.entries[n].id : n \in DOMAIN s.entries}
Handled(s) == {s.entries[n].id : n \in {k \in DOMAIN s.entries : s.entries[k].ran}}

\* No event has its handler run twice, however often it was appended.
RanOnce(s) ==
  \A n \in DOMAIN s.entries, m \in DOMAIN s.entries :
    s.entries[n].ran /\ s.entries[m].ran /\ s.entries[n].id = s.entries[m].id => n = m
=============================================================================
