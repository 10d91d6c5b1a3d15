---------------------------- MODULE SerialSpace -----------------------------
(***************************************************************************)
(* What a memory space promises the transactions of its clients.  A         *)
(* transaction observes some document at whatever moment it likes; it       *)
(* commits at one instant at which the space still shows exactly what it    *)
(* observed, or at which its operation changes nothing; or it aborts.  It   *)
(* is decided once, and never both ways.                                    *)
(***************************************************************************)
CONSTANT Outcome(_, _)   \* Outcome(value, op): the document that op leaves

VARIABLES
  content,    \* content[d]: the documents of the space
  open,       \* transactions begun and not decided
  committed,  \* names of the transactions that committed
  aborted     \* names of the transactions that aborted

vars == <<content, open, committed, aborted>>

Name(t) == <<t.client, t.commit.localSeq>>

Names == {Name(t) : t \in open} \cup committed \cup aborted

Init ==
  /\ open = {}
  /\ committed = {}
  /\ aborted = {}

Begin ==
  /\ \E t \in open' : /\ Name(t) \notin Names
                      /\ open' = open \cup {t}
  /\ UNCHANGED <<content, committed, aborted>>

Current(t) ==
  \A f \in t.commit.read.fields :
    content[t.commit.read.doc][f] = t.commit.saw[f]

After(op) == [content EXCEPT ![op.doc] = Outcome(@, op)]

Commit(t) ==
  /\ t \in open
  /\ Current(t) \/ After(t.commit.op) = content
  /\ content' = After(t.commit.op)
  /\ open' = open \ {t}
  /\ committed' = committed \cup {Name(t)}
  /\ UNCHANGED aborted

\* Transactions that observed one another's writes abort together, one of
\* them perhaps in the instant it begins.
Abort ==
  /\ open' \subseteq open
  /\ aborted \subseteq aborted'
  /\ {Name(t) : t \in open \ open'} \subseteq aborted'
  /\ aborted' \cap (committed \cup {Name(t) : t \in open'}) = {}
  /\ UNCHANGED <<content, committed>>

Next == (\E t \in open : Commit(t)) \/ Begin \/ Abort

Spec == Init /\ [][Next]_vars
=============================================================================
