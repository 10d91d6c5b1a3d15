----------------------- MODULE OptimisticCommitProofs -----------------------
(***************************************************************************)
(* FatesAgree for every set of clients, documents and transactions.        *)
(*                                                                         *)
(* A caller is told of a rejection before the server has decided the       *)
(* commit whenever a layer it read through is dropped. What makes that     *)
(* safe is that the server accepts nothing over an unaccepted layer        *)
(* (LogClosed), so a commit that waits at the server with a rejected layer *)
(* is lost already (RejectedIsLost). The other parts of Tracked follow a   *)
(* commit on its way: its caller is told nothing before it is decided or   *)
(* sealed (Ages), it is at the server once and unchanged (NotSent,         *)
(* Unchanged, Once), and what a verdict says is so (VerdictsTrue).         *)
(***************************************************************************)
EXTENDS OptimisticCommit, SequenceTheorems, WellFoundedInduction, TLAPS

IsSeq(s) == s \in Seq({s[i] : i \in 1..Len(s)})

Shaped(c) ==
  /\ IsSeq(toServer[c]) /\ IsSeq(toClient[c]) /\ IsSeq(fate[c])
  /\ IsSeq(pending[c]) /\ Len(pending[c]) = Len(fate[c])

Shapes ==
  /\ DOMAIN pending = Client /\ DOMAIN fate = Client
  /\ DOMAIN toServer = Client /\ DOMAIN toClient = Client
  /\ IsSeq(log)
  /\ \A c \in Client : Shaped(c)

Locals(c) == 1..Len(fate[c])

\* Where the commits of c are: in the log, at the server, in a verdict.
Rows(c) == {log[s].commit : s \in {t \in 1..HeadSeq : log[t].client = c}}
Sent(c) == {toServer[c][i] : i \in 1..Len(toServer[c])}
Verdicts(c) ==
  {m \in {toClient[c][i] : i \in 1..Len(toClient[c])} : m.type # "sync"}

InLog(c, l) == \E r \in Rows(c) : r.localSeq = l
AtServer(c, l) == \E m \in Sent(c) : m.localSeq = l

St(c, l) == pending[c][l].status

Named(c) ==
  /\ \A l \in Locals(c) : St(c, l) # "gone" => pending[c][l].commit.localSeq = l
  /\ \A m \in Rows(c) \cup Sent(c) \cup Verdicts(c) : m.localSeq \in Locals(c)

Ages(c) ==
  \A l \in Locals(c) :
    /\ St(c, l) \in {"queued", "doomed", "sent"} => fate[c][l] = "open"
    /\ St(c, l) = "repairing" => fate[c][l] = "rejected"

NotSent(c) ==
  \A l \in Locals(c) :
    St(c, l) \in {"queued", "doomed"} =>
      /\ ~InLog(c, l) /\ ~AtServer(c, l)
      /\ \A m \in Verdicts(c) : m.localSeq # l

Unchanged(c) ==
  \A l \in Locals(c) : St(c, l) = "sent" =>
    \A m \in Rows(c) \cup Sent(c) :
      m.localSeq = l => m = pending[c][l].commit

Once(c) ==
  /\ \A i, j \in 1..Len(toServer[c]) :
       toServer[c][i].localSeq = toServer[c][j].localSeq => i = j
  /\ \A m \in Sent(c) : ~InLog(c, m.localSeq)

VerdictsTrue(c) ==
  \A m \in Verdicts(c) :
    /\ m.type = "accept" => InLog(c, m.localSeq)
    /\ m.type # "accept" => ~InLog(c, m.localSeq) /\ ~AtServer(c, m.localSeq)

LogClosed(c) == \A r \in Rows(c) : \A k \in r.layers : InLog(c, k)

RejectedIsLost(c) ==
  \A l \in Locals(c) : fate[c][l] = "rejected" =>
    /\ ~InLog(c, l)
    /\ \A m \in Sent(c) : m.localSeq = l =>
         \E k \in m.layers \cap Locals(c) : fate[c][k] = "rejected"

AcceptedIsLogged(c) ==
  \A l \in Locals(c) : fate[c][l] = "accepted" => InLog(c, l)

Tracked(c) ==
  /\ Named(c) /\ Ages(c) /\ NotSent(c) /\ Unchanged(c) /\ Once(c)
  /\ VerdictsTrue(c) /\ LogClosed(c) /\ RejectedIsLost(c) /\ AcceptedIsLogged(c)

FatesInv == Shapes /\ \A c \in Client : Tracked(c)

-----------------------------------------------------------------------------
(* Sequences without a type: what Append, Tail and updates do to them.      *)

(* A sequence over any set is one over its own elements.                    *)
LEMMA AnySeq ==
  ASSUME NEW S, NEW t \in Seq(S)
  PROVE  /\ IsSeq(t) /\ Len(t) \in Nat /\ DOMAIN t = 1..Len(t)
<1>1. t \in [1..Len(t) -> S] /\ Len(t) \in Nat /\ DOMAIN t = 1..Len(t)
  BY LenProperties
<1>2. t \in [1..Len(t) -> {t[i] : i \in 1..Len(t)}]
  BY <1>1
<1>3. QED
  BY <1>1, <1>2, SeqDef DEF IsSeq

(* A function on 1..n is a sequence of length n.                            *)
LEMMA FunSeq ==
  ASSUME NEW n \in Nat, NEW t, t = [i \in 1..n |-> t[i]]
  PROVE  IsSeq(t) /\ Len(t) = n
<1> DEFINE S == {t[i] : i \in 1..n}
<1>1. t \in [1..n -> S]
  OBVIOUS
<1>2. t \in Seq(S)
  BY <1>1, SeqDef
<1>3. Len(t) = n
  BY <1>1, <1>2, LenProperties
<1>4. QED
  BY <1>2, <1>3, AnySeq

(* Append adds one element at the end and moves none.                       *)
LEMMA AppendSeq ==
  ASSUME NEW s, IsSeq(s), NEW e
  PROVE  /\ IsSeq(Append(s, e)) /\ Len(s) \in Nat /\ Len(Append(s, e)) = Len(s) + 1
         /\ \A i \in 1..Len(s) : Append(s, e)[i] = s[i]
         /\ Append(s, e)[Len(s) + 1] = e
<1> DEFINE S == {s[i] : i \in 1..Len(s)} \cup {e}
<1>1. s \in Seq(S)
  BY SeqMonotonic DEF IsSeq
<1>2. e \in S
  OBVIOUS
<1> HIDE DEF S
<1>3. /\ Append(s, e) \in Seq(S) /\ Len(Append(s, e)) = Len(s) + 1
      /\ \A i \in 1..Len(s) : Append(s, e)[i] = s[i]
      /\ Append(s, e)[Len(s) + 1] = e
  BY <1>1, <1>2, AppendProperties
<1>4. Len(s) \in Nat
  BY <1>1, LenProperties
<1>5. IsSeq(Append(s, e))
  BY <1>3, AnySeq
<1>6. QED
  BY <1>3, <1>4, <1>5

(* Tail shifts by one, and Head is the element it drops.                    *)
LEMMA TailSeq ==
  ASSUME NEW s, IsSeq(s), s # <<>>
  PROVE  /\ IsSeq(Tail(s)) /\ Len(s) \in Nat \ {0} /\ Len(Tail(s)) = Len(s) - 1
         /\ \A i \in 1..Len(Tail(s)) : Tail(s)[i] = s[i + 1]
         /\ Head(s) = s[1]
<1> DEFINE S == {s[i] : i \in 1..Len(s)}
<1>1. s \in Seq(S)
  BY DEF IsSeq
<1> HIDE DEF S
<1>2. Len(s) \in Nat \ {0}
  BY <1>1, EmptySeq
<1>3. Head(s) = s[1]
  BY <1>1
<1>4. QED
  BY <1>1, <1>2, <1>3, HeadTailProperties, AnySeq

With(s, l, e) == [s EXCEPT ![l] = e]

(* Replacing one element changes nothing else.                              *)
LEMMA UpdateSeq ==
  ASSUME NEW s, IsSeq(s), NEW l \in 1..Len(s), NEW e
  PROVE  /\ IsSeq(With(s, l, e)) /\ Len(With(s, l, e)) = Len(s)
         /\ \A i \in 1..Len(s) : With(s, l, e)[i] = IF i = l THEN e ELSE s[i]
<1> DEFINE S == {s[i] : i \in 1..Len(s)} \cup {e}
<1>1. s \in Seq(S)
  BY SeqMonotonic DEF IsSeq
<1>2. e \in S
  OBVIOUS
<1> HIDE DEF S
<1> DEFINE t == With(s, l, e)
<1>3. /\ t \in Seq(S) /\ Len(t) = Len(s)
      /\ \A i \in 1..Len(s) : t[i] = IF i = l THEN e ELSE s[i]
  BY <1>1, <1>2, ExceptSeq DEF With
<1> HIDE DEF t
<1>4. IsSeq(t)
  BY <1>3, AnySeq
<1>5. QED
  BY <1>3, <1>4 DEF t

-----------------------------------------------------------------------------
(* Steps, as what they do to the places where commits are.                 *)

(* The engine's test for an accepted localSeq, over the rows of the client. *)
LEMMA AcceptedInLog ==
  ASSUME NEW c, NEW l PROVE Accepted(c, l) <=> InLog(c, l)
  BY DEF Accepted, IsRow, InLog, Rows, HeadSeq

(* A step that leaves the commits of c alone keeps them tracked.            *)
LEMMA Untouched ==
  ASSUME NEW c, Tracked(c),
         pending'[c] = pending[c], fate'[c] = fate[c], toServer'[c] = toServer[c],
         Rows(c)' = Rows(c), Verdicts(c)' \subseteq Verdicts(c)
  PROVE  Tracked(c)'
<1> Sent(c)' = Sent(c) /\ Locals(c)' = Locals(c)
  BY DEF Sent, Locals
<1> USE DEF St, InLog, AtServer
<1>1. Named(c)' /\ Ages(c)' /\ NotSent(c)' /\ Unchanged(c)'
  BY DEF Tracked, Named, Ages, NotSent, Unchanged
<1>2. Once(c)' /\ VerdictsTrue(c)' /\ LogClosed(c)'
  BY DEF Tracked, Once, VerdictsTrue, LogClosed
<1>3. RejectedIsLost(c)' /\ AcceptedIsLogged(c)'
  BY DEF Tracked, RejectedIsLost, AcceptedIsLogged
<1>4. QED
  BY <1>1, <1>2, <1>3 DEF Tracked

(* A new layer, unsent, or sealed with its caller told.                     *)
LEMMA CommitTracked ==
  ASSUME NEW c \in Client, NEW tx, Shapes, Tracked(c), Commit(c, tx)
  PROVE  Tracked(c)' /\ Shaped(c)'
<1> DEFINE n == Len(fate[c]) + 1
<1>1. /\ pending'[c][n].commit.localSeq = n
      /\ \/ pending'[c][n].status = "queued" /\ fate'[c][n] = "open"
         \/ pending'[c][n].status = "repairing" /\ fate'[c][n] = "rejected"
      /\ \A l \in Locals(c) : pending'[c][l] = pending[c][l] /\ fate'[c][l] = fate[c][l]
      /\ Locals(c)' = Locals(c) \cup {n} /\ n \notin Locals(c)
  <2>1. PICK x, y : /\ pending'[c] = Append(pending[c], x)
                    /\ fate'[c] = Append(fate[c], y)
                    /\ x.commit.localSeq = n
                    /\ \/ x.status = "queued" /\ y = "open"
                       \/ x.status = "repairing" /\ y = "rejected"
    <3> DEFINE commit == Built(c, tx.op, tx.read)
               entry == [commit |-> commit, status |-> "queued", seq |-> 0, gate |-> NoGate]
               dead == commit.layers \cap RejectedLayers(c) # {}
               x == IF dead THEN Repairing(entry, DeadGate(c, commit)) ELSE entry
               y == IF dead THEN "rejected" ELSE "open"
    <3>1. commit.localSeq = n
      BY DEF Built, NextLocal
    <3>2. /\ pending' = [pending EXCEPT ![c] = Append(@, x)]
          /\ fate' = [fate EXCEPT ![c] = Append(@, y)]
      BY DEF Commit
    <3>3. pending'[c] = Append(pending[c], x) /\ fate'[c] = Append(fate[c], y)
      BY <3>2 DEF Shapes
    <3>4. /\ x.commit.localSeq = n
          /\ \/ x.status = "queued" /\ y = "open"
             \/ x.status = "repairing" /\ y = "rejected"
      BY <3>1 DEF Repairing
    <3>5. QED
      BY <3>3, <3>4
  <2>2. /\ IsSeq(pending[c]) /\ IsSeq(fate[c]) /\ Len(pending[c]) = Len(fate[c])
    BY DEF Shapes, Shaped
  <2>3. /\ Len(fate[c]) \in Nat /\ Len(fate'[c]) = n
        /\ fate'[c][n] = y /\ \A l \in Locals(c) : fate'[c][l] = fate[c][l]
    BY <2>1, <2>2, AppendSeq DEF Locals
  <2>4. pending'[c][n] = x /\ \A l \in Locals(c) : pending'[c][l] = pending[c][l]
    BY <2>1, <2>2, AppendSeq DEF Locals
  <2>5. Locals(c)' = Locals(c) \cup {n} /\ n \notin Locals(c)
    BY <2>3 DEF Locals
  <2>6. QED
    BY <2>1, <2>3, <2>4, <2>5
<1>2. /\ Rows(c)' = Rows(c) /\ Verdicts(c)' = Verdicts(c) /\ Sent(c)' = Sent(c)
      /\ toServer' = toServer
  BY DEF Commit, serverVars, Rows, Verdicts, Sent, HeadSeq
<1>3. ~InLog(c, n) /\ ~AtServer(c, n) /\ \A m \in Verdicts(c) : m.localSeq # n
  BY <1>1 DEF Tracked, Named, InLog, AtServer
<1> HIDE DEF n
<1> USE DEF St, InLog, AtServer
<1>4. Named(c)' /\ Ages(c)'
  BY <1>1, <1>2 DEF Tracked, Named, Ages
<1>5. NotSent(c)' /\ Unchanged(c)'
  BY <1>1, <1>2, <1>3 DEF Tracked, NotSent, Unchanged
<1>6. Once(c)' /\ VerdictsTrue(c)' /\ LogClosed(c)'
  BY <1>2 DEF Tracked, Once, VerdictsTrue, LogClosed
<1>7. RejectedIsLost(c)'
  BY <1>1, <1>2, <1>3 DEF Tracked, RejectedIsLost
<1>8. AcceptedIsLogged(c)'
  BY <1>1, <1>2 DEF Tracked, AcceptedIsLogged
<1>9. Shaped(c)'
  <2>1. PICK x, y : /\ pending'[c] = Append(pending[c], x)
                    /\ fate'[c] = Append(fate[c], y)
    BY DEF Commit, Shapes
  <2>2. QED
    BY <1>2, <2>1, AppendSeq DEF Commit, serverVars, Shapes, Shaped
<1>10. QED
  BY <1>4, <1>5, <1>6, <1>7, <1>8, <1>9 DEF Tracked

(* What a sequence holds after Append.                                      *)
LEMMA AppendElems ==
  ASSUME NEW s, IsSeq(s), NEW e
  PROVE  {Append(s, e)[i] : i \in 1..Len(Append(s, e))}
           = {s[i] : i \in 1..Len(s)} \cup {e}
<1>1. 1..Len(Append(s, e)) = (1..Len(s)) \cup {Len(s) + 1}
  BY AppendSeq
<1>2. QED
  BY <1>1, AppendSeq

(* What is in a sequence is in its tail or its head, one place further.     *)
LEMMA TailElems ==
  ASSUME NEW s, IsSeq(s), s # <<>>
  PROVE  /\ {s[i] : i \in 1..Len(s)} = {Tail(s)[i] : i \in 1..Len(Tail(s))} \cup {Head(s)}
         /\ \A i \in 1..Len(Tail(s)) : i + 1 \in 1..Len(s) /\ i + 1 # 1
<1> DEFINE n == Len(s)
<1>1. /\ n \in Nat \ {0} /\ Len(Tail(s)) = n - 1 /\ Head(s) = s[1]
      /\ \A i \in 1..(n - 1) : Tail(s)[i] = s[i + 1]
  BY TailSeq
<1>2. \A j \in 1..n : j = 1 \/ (j - 1 \in 1..(n - 1) /\ (j - 1) + 1 = j)
  BY <1>1
<1>3. \A i \in 1..(n - 1) : i + 1 \in 1..n /\ i + 1 # 1
  BY <1>1
<1>4. 1 \in 1..n
  BY <1>1
<1> HIDE DEF n
<1>5. \A j \in 1..n : s[j] \in {Tail(s)[i] : i \in 1..(n - 1)} \cup {Head(s)}
  <2> TAKE j \in 1..n
  <2>1. CASE j = 1
    BY <2>1, <1>1
  <2>2. CASE j # 1
    <3>1. j - 1 \in 1..(n - 1) /\ (j - 1) + 1 = j
      BY <1>2, <2>2
    <3>2. Tail(s)[j - 1] = s[j]
      BY <3>1, <1>1
    <3>3. QED
      BY <3>1, <3>2
  <2>3. QED
    BY <2>1, <2>2
<1>6. {Tail(s)[i] : i \in 1..(n - 1)} \cup {Head(s)} \subseteq {s[j] : j \in 1..n}
  BY <1>1, <1>3, <1>4
<1>7. QED
  BY <1>1, <1>3, <1>5, <1>6 DEF n

-----------------------------------------------------------------------------
(* What a replica may do to its layers and tell its callers.  An open       *)
(* commit may be called accepted once it is in the log, and rejected once   *)
(* it is lost; a layer goes, is doomed before it is sent, is parked, or is  *)
(* sealed with its caller told.                                             *)
FateMoves(c, l) ==
  \/ fate'[c][l] = fate[c][l]
  \/ fate[c][l] = "open" /\ fate'[c][l] = "accepted" /\ InLog(c, l)
  \/ /\ fate[c][l] = "open" /\ fate'[c][l] = "rejected"
     /\ ~InLog(c, l)
     /\ \A m \in Sent(c) : m.localSeq = l =>
          \E k \in m.layers \cap Locals(c) : fate'[c][k] = "rejected"

LayerMoves(c, l) ==
  \/ St(c, l)' = "gone"
  \/ /\ St(c, l) # "gone" /\ pending'[c][l].commit = pending[c][l].commit
     /\ \/ St(c, l)' = St(c, l) /\ fate'[c][l] = fate[c][l]
        \/ St(c, l)' = "doomed" /\ St(c, l) = "queued" /\ fate'[c][l] = fate[c][l]
        \/ St(c, l)' = "parked"
        \/ St(c, l)' = "repairing" /\ fate'[c][l] = "rejected"

(* Such a step of the replica keeps its commits tracked.                    *)
LEMMA ReplicaTracked ==
  ASSUME NEW c, Tracked(c), Locals(c)' = Locals(c),
         \A l \in Locals(c) : FateMoves(c, l) /\ LayerMoves(c, l),
         toServer'[c] = toServer[c],
         Rows(c)' = Rows(c), Verdicts(c)' \subseteq Verdicts(c)
  PROVE  Tracked(c)'
<1> Sent(c)' = Sent(c)
  BY DEF Sent
<1> USE DEF St, InLog, AtServer
<1>1. Named(c)'
  BY DEF Tracked, Named, LayerMoves
<1>2. Ages(c)'
  BY DEF Tracked, Ages, LayerMoves
<1>3. NotSent(c)' /\ Unchanged(c)'
  BY DEF Tracked, NotSent, Unchanged, LayerMoves
<1>4. Once(c)' /\ VerdictsTrue(c)' /\ LogClosed(c)'
  BY DEF Tracked, Once, VerdictsTrue, LogClosed
<1>5. RejectedIsLost(c)'
  <2>1. \A l \in Locals(c) : fate[c][l] = "rejected" => fate'[c][l] = "rejected"
    BY DEF FateMoves
  <2>2. QED
    BY <2>1 DEF Tracked, RejectedIsLost, FateMoves
<1>6. AcceptedIsLogged(c)'
  BY DEF Tracked, AcceptedIsLogged, FateMoves
<1>7. QED
  BY <1>1, <1>2, <1>3, <1>4, <1>5, <1>6 DEF Tracked

-----------------------------------------------------------------------------
(* The steps of a client and of its replica.                                *)

(* Dropping a rejected layer rejects what is in flight over it: that was    *)
(* sent through a layer that is lost, so it is lost.                        *)
LEMMA DropTracked ==
  ASSUME NEW c \in Client, NEW l \in RejectedLayers(c), Shapes, Tracked(c), Drop(c, l)
  PROVE  Tracked(c)' /\ Shaped(c)'
<1>1. /\ DOMAIN pending[c] = Locals(c) /\ DOMAIN fate[c] = Locals(c)
      /\ Len(fate[c]) \in Nat
  BY AnySeq DEF Shapes, Shaped, Locals, IsSeq
<1>2. l \in Locals(c) /\ St(c, l) = "repairing"
  BY <1>1 DEF RejectedLayers, WithStatus, St
<1>3. /\ pending'[c] = [m \in Locals(c) |->
           IF m = l THEN Gone ELSE Cascaded(l, pending[c][m])]
      /\ fate'[c] = [m \in Locals(c) |->
           IF m \in WithStatus(c, {"sent"}) /\ l \in pending[c][m].commit.layers
           THEN "rejected" ELSE fate[c][m]]
  BY <1>1 DEF Drop, Shapes
<1>4. /\ IsSeq(pending'[c]) /\ Len(pending'[c]) = Len(fate[c])
      /\ IsSeq(fate'[c]) /\ Len(fate'[c]) = Len(fate[c])
  <2> DEFINE n == Len(fate[c])
             p == pending'[c]
             f == fate'[c]
  <2>1. /\ n \in Nat
        /\ p = [m \in 1..n |-> IF m = l THEN Gone ELSE Cascaded(l, pending[c][m])]
        /\ f = [m \in 1..n |->
           IF m \in WithStatus(c, {"sent"}) /\ l \in pending[c][m].commit.layers
           THEN "rejected" ELSE fate[c][m]]
    BY <1>1, <1>3 DEF Locals
  <2> HIDE DEF n, p, f
  <2>2. p = [i \in 1..n |-> p[i]] /\ f = [i \in 1..n |-> f[i]]
    BY <2>1
  <2>3. IsSeq(p) /\ Len(p) = n
    BY <2>1, <2>2, FunSeq
  <2>4. IsSeq(f) /\ Len(f) = n
    BY <2>1, <2>2, FunSeq
  <2>5. QED
    BY <2>3, <2>4 DEF n, p, f
<1>5. Locals(c)' = Locals(c)
  BY <1>4 DEF Locals
<1>6. /\ toServer' = toServer /\ toClient' = toClient
      /\ Rows(c)' = Rows(c) /\ Verdicts(c)' = Verdicts(c)
  BY DEF Drop, serverVars, Rows, Verdicts, HeadSeq
<1>7. fate[c][l] = "rejected" /\ fate'[c][l] = "rejected" /\ ~InLog(c, l)
  BY <1>2, <1>3 DEF Tracked, Ages, RejectedIsLost, WithStatus, St
<1>8. ASSUME NEW m \in Locals(c) PROVE FateMoves(c, m) /\ LayerMoves(c, m)
  <2> DEFINE p == pending[c][m]
  <2>1. CASE m = l
    <3>1. pending'[c][m].status = "gone"
      BY <2>1, <1>2, <1>3 DEF Gone
    <3>2. fate'[c][m] = fate[c][m]
      BY <2>1, <1>7
    <3>3. QED
      BY <3>1, <3>2 DEF FateMoves, LayerMoves, St
  <2>2. CASE m # l /\ p.status = "sent" /\ l \in p.commit.layers
    <3>1. pending'[c][m] = Repairing(p, NoGate)
      BY <2>2, <1>3 DEF Cascaded
    <3>2. pending'[c][m].status = "repairing" /\ pending'[c][m].commit = p.commit
      BY <3>1 DEF Repairing
    <3>3. fate'[c][m] = "rejected"
      BY <2>2, <1>1, <1>3 DEF WithStatus
    <3>4. fate[c][m] = "open"
      BY <2>2 DEF Tracked, Ages, St
    <3>5. ~InLog(c, m)
      <4> SUFFICES ASSUME NEW r \in Rows(c), r.localSeq = m PROVE FALSE
        BY DEF InLog
      <4>1. r = p.commit
        BY <2>2 DEF Tracked, Unchanged, St
      <4>2. InLog(c, l)
        BY <4>1, <2>2 DEF Tracked, LogClosed
      <4>3. QED
        BY <4>2, <1>7
    <3>6. \A x \in Sent(c) : x.localSeq = m =>
            \E k \in x.layers \cap Locals(c) : fate'[c][k] = "rejected"
      BY <2>2, <1>2, <1>7 DEF Tracked, Unchanged, St
    <3>7. QED
      BY <2>2, <3>2, <3>3, <3>4, <3>5, <3>6 DEF FateMoves, LayerMoves, St
  <2>3. CASE m # l /\ p.status = "queued" /\ l \in p.commit.layers
    <3>1. pending'[c][m] = [p EXCEPT !.status = "doomed"]
      BY <2>3, <1>3 DEF Cascaded
    <3>2. pending'[c][m].status = "doomed" /\ pending'[c][m].commit = p.commit
      <4>1. p.status = "queued"
        BY <2>3
      <4> HIDE DEF p
      <4>2. QED
        BY <3>1, <4>1
    <3>3. fate'[c][m] = fate[c][m]
      BY <2>3, <1>1, <1>3 DEF WithStatus
    <3>4. QED
      BY <2>3, <3>2, <3>3 DEF FateMoves, LayerMoves, St
  <2>4. CASE m # l /\ ~(p.status \in {"sent", "queued"} /\ l \in p.commit.layers)
    <3>1. pending'[c][m] = p
      BY <2>4, <1>3 DEF Cascaded
    <3>2. fate'[c][m] = fate[c][m]
      BY <2>4, <1>1, <1>3 DEF WithStatus
    <3>3. QED
      BY <3>1, <3>2 DEF FateMoves, LayerMoves, St
  <2>5. QED
    BY <2>1, <2>2, <2>3, <2>4
<1>9. Tracked(c)'
  BY <1>5, <1>6, <1>8, ReplicaTracked
<1>10. Shaped(c)'
  BY <1>4, <1>6 DEF Shapes, Shaped
<1>11. QED
  BY <1>9, <1>10

(* Sending puts an unsent commit at the server, or seals it unsent.         *)
LEMMA SendTracked ==
  ASSUME NEW c \in Client, Shapes, Tracked(c), Send(c)
  PROVE  Tracked(c)' /\ Shaped(c)'
<1>1. /\ DOMAIN pending[c] = Locals(c) /\ DOMAIN fate[c] = Locals(c)
      /\ IsSeq(pending[c]) /\ IsSeq(fate[c]) /\ IsSeq(toServer[c])
      /\ Len(pending[c]) = Len(fate[c]) /\ Len(fate[c]) \in Nat
  BY AnySeq DEF Shapes, Shaped, Locals, IsSeq
<1>2. PICK l \in Unsent(c) :
        LET p == pending[c][l]
            sealed == \/ p.status = "doomed"
                      \/ p.commit.layers \cap RejectedLayers(c) # {}
            gate == IF p.status = "doomed" THEN NoGate ELSE DeadGate(c, p.commit)
        IN  IF sealed
            THEN /\ pending' = [pending EXCEPT ![c][l] = Repairing(p, gate)]
                 /\ fate' = [fate EXCEPT ![c][l] = "rejected"]
                 /\ UNCHANGED toServer
            ELSE /\ pending' = [pending EXCEPT ![c][l].status = "sent"]
                 /\ toServer' = [toServer EXCEPT ![c] = Append(@, p.commit)]
                 /\ UNCHANGED fate
  BY DEF Send
<1>3. l \in Locals(c) /\ St(c, l) \in {"queued", "doomed"}
  BY <1>1 DEF Unsent, WithStatus, St
<1>4. /\ toClient' = toClient
      /\ Rows(c)' = Rows(c) /\ Verdicts(c)' = Verdicts(c)
  BY DEF Send, serverVars, Rows, Verdicts, HeadSeq
<1>5. /\ fate[c][l] = "open" /\ pending[c][l].commit.localSeq = l
      /\ ~InLog(c, l) /\ ~AtServer(c, l)
      /\ \A m \in Verdicts(c) : m.localSeq # l
  BY <1>3 DEF Tracked, Named, Ages, NotSent, St
<1>6. PICK p, q, y : 
        /\ p = pending[c][l]
        /\ pending'[c] = With(pending[c], l, q)
        /\ q.commit = p.commit
        /\ \/ /\ q.status = "repairing" /\ y = "rejected" /\ toServer' = toServer
           \/ /\ q.status = "sent" /\ y = "open"
              /\ toServer' = [toServer EXCEPT ![c] = Append(@, p.commit)]
        /\ \/ fate'[c] = With(fate[c], l, y)
           \/ y = "open" /\ fate'[c] = fate[c]
  <2> DEFINE p == pending[c][l]
             sealed == \/ p.status = "doomed"
                       \/ p.commit.layers \cap RejectedLayers(c) # {}
             gate == IF p.status = "doomed" THEN NoGate ELSE DeadGate(c, p.commit)
  <2>1. CASE sealed
    <3>1. /\ pending' = [pending EXCEPT ![c][l] = Repairing(p, gate)]
          /\ fate' = [fate EXCEPT ![c][l] = "rejected"]
          /\ toServer' = toServer
      BY <1>2, <2>1
    <3>2. Repairing(p, gate).status = "repairing" /\ Repairing(p, gate).commit = p.commit
      BY DEF Repairing
    <3>3. /\ pending'[c] = With(pending[c], l, Repairing(p, gate))
          /\ fate'[c] = With(fate[c], l, "rejected")
      BY <3>1 DEF Shapes, With
    <3> HIDE DEF gate, sealed
    <3>4. QED
      BY <3>1, <3>2, <3>3
  <2>2. CASE ~sealed
    <3>1. /\ pending' = [pending EXCEPT ![c][l].status = "sent"]
          /\ fate' = fate
          /\ toServer' = [toServer EXCEPT ![c] = Append(@, p.commit)]
      BY <1>2, <2>2
    <3> DEFINE q == [p EXCEPT !.status = "sent"]
    <3>2. q.status = "sent" /\ q.commit = p.commit
      OBVIOUS
    <3>3. pending'[c] = With(pending[c], l, q)
      BY <3>1 DEF Shapes, With
    <3>4. fate'[c] = fate[c]
      BY <3>1
    <3>5. QED
      BY <3>1, <3>2, <3>3, <3>4
  <2>3. QED
    BY <2>1, <2>2
<1>7. l \in 1..Len(pending[c]) /\ l \in 1..Len(fate[c])
  BY <1>1, <1>3 DEF Locals
<1>8. /\ IsSeq(pending'[c]) /\ Len(pending'[c]) = Len(fate[c])
      /\ \A m \in Locals(c) : pending'[c][m] = IF m = l THEN q ELSE pending[c][m]
  <2>1. pending'[c] = With(pending[c], l, q)
    BY <1>6
  <2> DEFINE s == pending[c]
             t == With(s, l, q)
  <2>2. /\ IsSeq(t) /\ Len(t) = Len(s)
        /\ \A m \in 1..Len(s) : t[m] = IF m = l THEN q ELSE s[m]
    <3>1. IsSeq(s) /\ l \in 1..Len(s)
      BY <1>1, <1>7
    <3> HIDE DEF s
    <3>2. QED
      BY <3>1, UpdateSeq
  <2> HIDE DEF t
  <2>3. QED
    BY <2>1, <2>2, <1>1 DEF Locals, t
<1>9. /\ IsSeq(fate'[c]) /\ Len(fate'[c]) = Len(fate[c])
      /\ \A m \in Locals(c) : fate'[c][m] = IF m = l THEN y ELSE fate[c][m]
  <2>1. CASE fate'[c] = With(fate[c], l, y)
    <3> DEFINE s == fate[c]
               t == With(s, l, y)
    <3>1. IsSeq(s) /\ l \in 1..Len(s)
      BY <1>1, <1>7
    <3>2. /\ IsSeq(t) /\ Len(t) = Len(s)
          /\ \A m \in 1..Len(s) : t[m] = IF m = l THEN y ELSE s[m]
      <4> HIDE DEF s
      <4>1. QED
        BY <3>1, UpdateSeq
    <3> HIDE DEF t
    <3>3. QED
      BY <2>1, <3>2 DEF Locals, t
  <2>2. CASE y = "open" /\ fate'[c] = fate[c]
    BY <2>2, <1>1, <1>5
  <2>3. QED
    BY <2>1, <2>2, <1>6
<1>10. Locals(c)' = Locals(c)
  BY <1>9 DEF Locals
<1>11. CASE q.status = "repairing" /\ y = "rejected" /\ toServer' = toServer
  <2>1. ASSUME NEW m \in Locals(c) PROVE FateMoves(c, m) /\ LayerMoves(c, m)
    <3>1. CASE m = l
      <4>1. FateMoves(c, m)
        BY <3>1, <1>5, <1>9, <1>11 DEF FateMoves, AtServer
      <4>2. LayerMoves(c, m)
        BY <3>1, <1>3, <1>6, <1>8, <1>9, <1>11 DEF LayerMoves, St
      <4>3. QED
        BY <4>1, <4>2
    <3>2. CASE m # l
      BY <3>2, <1>8, <1>9 DEF FateMoves, LayerMoves, St
    <3>3. QED
      BY <3>1, <3>2
  <2>2. Tracked(c)'
    BY <2>1, <1>4, <1>10, <1>11, ReplicaTracked
  <2>3. QED
    BY <2>2, <1>4, <1>8, <1>9, <1>11 DEF Shapes, Shaped
<1>12. CASE /\ q.status = "sent" /\ y = "open"
            /\ toServer' = [toServer EXCEPT ![c] = Append(@, p.commit)]
  <2> DEFINE h == p.commit
  <2>1. toServer'[c] = Append(toServer[c], h)
    BY <1>12 DEF Shapes
  <2>2. h.localSeq = l /\ h = pending[c][l].commit
    BY <1>5, <1>6
  <2>3. Sent(c)' = Sent(c) \cup {h}
    BY <2>1, <1>1, AppendElems DEF Sent
  <2>4. /\ Len(toServer[c]) \in Nat /\ Len(toServer'[c]) = Len(toServer[c]) + 1
        /\ \A i \in 1..Len(toServer[c]) : toServer'[c][i] = toServer[c][i]
        /\ toServer'[c][Len(toServer[c]) + 1] = h
        /\ IsSeq(toServer'[c])
    BY <2>1, <1>1, AppendSeq
  <2>5. /\ \A m \in Locals(c) : fate'[c][m] = fate[c][m]
        /\ pending'[c][l].status = "sent" /\ pending'[c][l].commit = h
        /\ \A m \in Locals(c) : m # l => pending'[c][m] = pending[c][m]
    BY <1>3, <1>5, <1>6, <1>8, <1>9, <1>12
  <2>6. \A i \in 1..Len(toServer[c]) : toServer[c][i].localSeq # l
    BY <1>5 DEF AtServer, Sent
  <2> HIDE DEF h
  <2> USE DEF St, InLog, AtServer
  <2>7. Named(c)' /\ Ages(c)'
    BY <2>2, <2>3, <2>5, <1>3, <1>4, <1>5, <1>10 DEF Tracked, Named, Ages
  <2>8. NotSent(c)'
    BY <2>2, <2>3, <2>5, <1>4, <1>10 DEF Tracked, NotSent
  <2>9. Unchanged(c)'
    BY <2>2, <2>3, <2>5, <1>4, <1>5, <1>10 DEF Tracked, Unchanged
  <2>10. Once(c)'
    <3>1. ASSUME NEW i \in 1..Len(toServer'[c]), NEW j \in 1..Len(toServer'[c]),
                 toServer'[c][i].localSeq = toServer'[c][j].localSeq
          PROVE  i = j
      <4>1. \A k \in 1..Len(toServer'[c]) :
              k \in 1..Len(toServer[c]) \/ k = Len(toServer[c]) + 1
        BY <2>4
      <4>2. QED
        BY <3>1, <4>1, <2>2, <2>4, <2>6 DEF Tracked, Once
    <3>2. \A m \in Sent(c)' : ~InLog(c, m.localSeq)'
      BY <2>2, <2>3, <1>4, <1>5 DEF Tracked, Once
    <3>3. QED
      BY <3>1, <3>2 DEF Once
  <2>11. VerdictsTrue(c)'
    BY <2>2, <2>3, <1>4, <1>5 DEF Tracked, VerdictsTrue
  <2>12. LogClosed(c)' /\ AcceptedIsLogged(c)'
    BY <2>5, <1>4, <1>10 DEF Tracked, LogClosed, AcceptedIsLogged
  <2>13. RejectedIsLost(c)'
    BY <2>2, <2>3, <2>5, <1>4, <1>5, <1>10 DEF Tracked, RejectedIsLost
  <2>14. Tracked(c)'
    BY <2>7, <2>8, <2>9, <2>10, <2>11, <2>12, <2>13 DEF Tracked
  <2>15. QED
    BY <2>14, <2>4, <1>4, <1>8, <1>9 DEF Shapes, Shaped
<1>13. QED
  BY <1>6, <1>11, <1>12

(* A verdict that reaches its commit says what is so, and a commit whose    *)
(* caller was told before is not changed by it; a frame retires layers of   *)
(* accepted commits.                                                        *)
LEMMA ReceiveTracked ==
  ASSUME NEW c \in Client, Shapes, Tracked(c), Receive(c)
  PROVE  Tracked(c)' /\ Shaped(c)'
<1> DEFINE m == Head(toClient[c])
<1>1. /\ DOMAIN pending[c] = Locals(c) /\ DOMAIN fate[c] = Locals(c)
      /\ IsSeq(pending[c]) /\ IsSeq(fate[c]) /\ IsSeq(toClient[c])
      /\ Len(pending[c]) = Len(fate[c]) /\ Len(fate[c]) \in Nat
  BY AnySeq DEF Shapes, Shaped, Locals, IsSeq
<1>2. /\ toClient[c] # <<>> /\ toClient'[c] = Tail(toClient[c])
      /\ IF m.type = "sync" THEN ReceiveSync(c, m) ELSE ReceiveVerdict(c, m)
      /\ toServer' = toServer /\ Rows(c)' = Rows(c)
  BY DEF Receive, Shapes, serverVars, Rows, HeadSeq
<1> DEFINE elems == {toClient[c][i] : i \in 1..Len(toClient[c])}
           rest == {toClient'[c][i] : i \in 1..Len(toClient'[c])}
<1>3. elems = rest \cup {m}
  BY <1>1, <1>2, TailElems
<1>4. /\ Verdicts(c)' \subseteq Verdicts(c)
      /\ m.type # "sync" => m \in Verdicts(c)
  <2>1. Verdicts(c) = {x \in elems : x.type # "sync"}
    BY DEF Verdicts
  <2>2. Verdicts(c)' = {x \in rest : x.type # "sync"}
    BY DEF Verdicts
  <2> HIDE DEF elems, rest, m
  <2>3. QED
    BY <2>1, <2>2, <1>3
<1>5. IsSeq(toClient'[c])
  BY <1>1, <1>2, TailSeq
<1> HIDE DEF m, elems, rest
<1>6. CASE pending' = pending /\ fate' = fate
  <2>1. Tracked(c)'
    BY <1>2, <1>4, <1>6, Untouched
  <2>2. QED
    BY <2>1, <1>2, <1>5, <1>6 DEF Shapes, Shaped
<1>7. CASE m.type # "sync" /\ pending[c][m.localSeq].status = "sent"
  <2> DEFINE l == m.localSeq
  <2>1. l \in Locals(c)
    BY <1>4, <1>7 DEF Tracked, Named
  <2>2. fate[c][l] = "open" /\ St(c, l) = "sent"
    BY <2>1, <1>7 DEF Tracked, Ages, St
  <2>3. PICK q, y :
          /\ pending'[c] = With(pending[c], l, q) /\ fate'[c] = With(fate[c], l, y)
          /\ \/ y = "accepted" /\ InLog(c, l)
             \/ y = "rejected" /\ ~InLog(c, l) /\ ~AtServer(c, l)
          /\ \/ q.status = "gone"
             \/ q.status = "parked" /\ q.commit = pending[c][l].commit
             \/ /\ q.status = "repairing" /\ q.commit = pending[c][l].commit
                /\ y = "rejected"
    <3>1. CASE m.type = "accept"
      <4> DEFINE p == [pending[c][l] EXCEPT !.status = "parked", !.seq = m.seq]
      <4>1. ReceiveAccept(c, l, m.seq)
        BY <3>1, <1>2, <1>7 DEF ReceiveVerdict
      <4>2. fate'[c] = With(fate[c], l, "accepted")
        BY <4>1 DEF ReceiveAccept, Shapes, With
      <4>3. \/ pending'[c] = With(pending[c], l, p)
            \/ pending'[c] = With(pending[c], l, Gone)
        BY <4>1 DEF ReceiveAccept, Shapes, With
      <4>4. p.status = "parked" /\ p.commit = pending[c][l].commit
        OBVIOUS
      <4>5. Gone.status = "gone"
        BY DEF Gone
      <4>6. InLog(c, l)
        BY <3>1, <1>4, <1>7 DEF Tracked, VerdictsTrue
      <4> HIDE DEF p
      <4>7. QED
        BY <4>2, <4>3, <4>4, <4>5, <4>6
    <3>2. CASE m.type # "accept"
      <4> DEFINE p == Repairing(pending[c][l], [NoGate EXCEPT !.marker = l, !.seq = m.seq])
      <4>1. ReceiveReject(c, l, m.seq)
        BY <3>2, <1>2, <1>7 DEF ReceiveVerdict
      <4>2. /\ fate'[c] = With(fate[c], l, "rejected")
            /\ pending'[c] = With(pending[c], l, p)
        BY <4>1 DEF ReceiveReject, Shapes, With
      <4>3. p.status = "repairing" /\ p.commit = pending[c][l].commit
        BY DEF Repairing
      <4>4. ~InLog(c, l) /\ ~AtServer(c, l)
        BY <3>2, <1>4, <1>7 DEF Tracked, VerdictsTrue
      <4> HIDE DEF p
      <4>5. QED
        BY <4>2, <4>3, <4>4
    <3>3. QED
      BY <3>1, <3>2
  <2> HIDE DEF l
  <2>4. l \in 1..Len(pending[c]) /\ l \in 1..Len(fate[c])
    BY <2>1, <1>1 DEF Locals
  <2>5. /\ IsSeq(pending'[c]) /\ Len(pending'[c]) = Len(fate[c])
        /\ \A k \in Locals(c) : pending'[c][k] = IF k = l THEN q ELSE pending[c][k]
    BY <2>3, <2>4, <1>1, UpdateSeq DEF Locals
  <2>6. /\ IsSeq(fate'[c]) /\ Len(fate'[c]) = Len(fate[c])
        /\ \A k \in Locals(c) : fate'[c][k] = IF k = l THEN y ELSE fate[c][k]
    BY <2>3, <2>4, <1>1, UpdateSeq DEF Locals
  <2>7. Locals(c)' = Locals(c)
    BY <2>6 DEF Locals
  <2>8. ASSUME NEW k \in Locals(c) PROVE FateMoves(c, k) /\ LayerMoves(c, k)
    <3>1. CASE k = l
      <4>1. FateMoves(c, k)
        BY <3>1, <2>2, <2>3, <2>6 DEF FateMoves, AtServer
      <4>2. LayerMoves(c, k)
        BY <3>1, <2>1, <2>2, <2>3, <2>5, <2>6 DEF LayerMoves, St
      <4>3. QED
        BY <4>1, <4>2
    <3>2. CASE k # l
      BY <3>2, <2>5, <2>6 DEF FateMoves, LayerMoves, St
    <3>3. QED
      BY <3>1, <3>2
  <2>9. Tracked(c)'
    BY <2>7, <2>8, <1>2, <1>4, ReplicaTracked
  <2>10. QED
    BY <2>5, <2>6, <2>9, <1>2, <1>5 DEF Shapes, Shaped
<1>8. CASE m.type = "sync" /\ Parkable(c)
  <2>1. PICK caught :
          /\ fate' = fate
          /\ pending' = [pending EXCEPT ![c] =
               [l \in DOMAIN @ |->
                  IF @[l].status = "parked" /\ @[l].commit.localSeq <= caught
                  THEN Gone ELSE @[l]]]
    <3> DEFINE caught == IF m.marker > caughtUp[c] THEN m.marker ELSE caughtUp[c]
               isDue(p) == p.status = "parked" /\ p.commit.localSeq <= caught
    <3>1. /\ UNCHANGED fate
          /\ pending' = [pending EXCEPT ![c] =
               [l \in DOMAIN @ |-> IF isDue(@[l]) THEN Gone ELSE @[l]]]
      BY <1>2, <1>8, Zenon DEF ReceiveSync
    <3> HIDE DEF caught
    <3>2. QED
      BY <3>1
  <2> DEFINE s == pending[c]
             p == [l \in Locals(c) |->
                     IF s[l].status = "parked" /\ s[l].commit.localSeq <= caught
                     THEN Gone ELSE s[l]]
             n == Len(fate[c])
  <2>2. pending'[c] = p
    BY <2>1, <1>1 DEF Shapes
  <2>3. n \in Nat /\ p = [l \in 1..n |-> p[l]]
    BY <1>1 DEF Locals
  <2>4. \A l \in Locals(c) : p[l] = Gone \/ p[l] = s[l]
    OBVIOUS
  <2> HIDE DEF p, n
  <2>5. IsSeq(p) /\ Len(p) = n
    BY <2>3, FunSeq
  <2>6. Locals(c)' = Locals(c)
    BY <2>1 DEF Locals
  <2>7. \A k \in Locals(c) : FateMoves(c, k) /\ LayerMoves(c, k)
    BY <2>1, <2>2, <2>4 DEF FateMoves, LayerMoves, St, Gone
  <2>8. Tracked(c)'
    BY <2>6, <2>7, <1>2, <1>4, ReplicaTracked
  <2>9. QED
    BY <2>1, <2>2, <2>5, <2>8, <1>1, <1>2, <1>5 DEF Shapes, Shaped, n
<1>9. QED
  <2>1. \/ pending' = pending /\ fate' = fate
        \/ m.type # "sync" /\ pending[c][m.localSeq].status = "sent"
        \/ m.type = "sync" /\ Parkable(c)
    BY <1>2 DEF ReceiveVerdict, ReceiveSync, replicaVars
  <2>2. QED
    BY <2>1, <1>6, <1>7, <1>8

-----------------------------------------------------------------------------
(* The steps of the server.                                                 *)

(* A new row of the log is a row of its client and of nobody else.          *)
LEMMA RowsAppend ==
  ASSUME IsSeq(log), NEW row, log' = Append(log, row), NEW d
  PROVE  /\ row.client = d => Rows(d)' = Rows(d) \cup {row.commit}
         /\ row.client # d => Rows(d)' = Rows(d)
<1> DEFINE n == Len(log)
           mine == {t \in 1..n : log[t].client = d}
           mine1 == {t \in 1..(n + 1) : log'[t].client = d}
<1>1. /\ n \in Nat /\ Len(log') = n + 1 /\ log'[n + 1] = row
      /\ \A i \in 1..n : log'[i] = log[i]
  BY AppendSeq
<1>2. /\ Rows(d) = {log[s].commit : s \in mine}
      /\ Rows(d)' = {log'[s].commit : s \in mine1}
  BY <1>1 DEF Rows, HeadSeq
<1>3. 1..(n + 1) = (1..n) \cup {n + 1}
  BY <1>1
<1> HIDE DEF n
<1>4. CASE row.client = d
  <2>1. mine1 = mine \cup {n + 1}
    BY <1>1, <1>3, <1>4
  <2>2. QED
    BY <2>1, <1>1, <1>2, <1>4
<1>5. CASE row.client # d
  <2>1. mine1 = mine
    BY <1>1, <1>3, <1>5
  <2>2. QED
    BY <2>1, <1>1, <1>2, <1>5
<1>6. QED
  BY <1>4, <1>5

(* What transact does to the places where commits are: the head of the      *)
(* queue is answered, and it is in the log if it is accepted, which takes   *)
(* that every layer it read through is there.                               *)
LEMMA TransactSteps ==
  ASSUME NEW c \in Client, Shapes, Transact(c)
  PROVE  \E h, v :
    /\ h = Head(toServer[c]) /\ toServer[c] # <<>>
    /\ toServer' = [toServer EXCEPT ![c] = Tail(@)]
    /\ toClient' = [toClient EXCEPT ![c] = Append(@, v)]
    /\ v.localSeq = h.localSeq
    /\ pending' = pending /\ fate' = fate
    /\ \/ /\ v.type = "reject" /\ log' = log
       \/ /\ v.type = "accept" /\ Resolved(c, h)
          /\ \E row : log' = Append(log, row) /\ row.client = c /\ row.commit = h
<1> DEFINE h == Head(toServer[c])
           yes == [type |-> "accept", localSeq |-> h.localSeq, seq |-> Len(log')]
           no == [type |-> "reject", localSeq |-> h.localSeq, seq |-> HeadSeq]
<1>1. /\ toServer[c] # <<>> /\ toServer' = [toServer EXCEPT ![c] = Tail(@)]
      /\ pending' = pending /\ fate' = fate
  BY DEF Transact, replicaVars
<1>2. \/ Resolved(c, h) /\ \E elided \in BOOLEAN : Accept(c, h, elided)
      \/ Refuse(c, h)
  BY DEF Transact
<1> HIDE DEF h
<1>3. CASE Resolved(c, h) /\ \E elided \in BOOLEAN : Accept(c, h, elided)
  <2>1. PICK elided \in BOOLEAN : Accept(c, h, elided)
    BY <1>3
  <2> DEFINE row == [client |-> c, commit |-> h, elided |-> elided,
                     content |-> [d \in Doc |->
                       IF ~elided /\ d = h.op.doc
                       THEN Apply(Stored(d), h.op) ELSE Stored(d)]]
  <2>2. /\ log' = Append(log, row)
        /\ toClient' = [toClient EXCEPT ![c] = Append(@, yes)]
    BY <2>1 DEF Accept
  <2>3. row.client = c /\ row.commit = h
    OBVIOUS
  <2>4. yes.localSeq = h.localSeq /\ yes.type = "accept"
    OBVIOUS
  <2> HIDE DEF row, yes
  <2>5. \E r : log' = Append(log, r) /\ r.client = c /\ r.commit = h
    BY <2>2, <2>3
  <2>6. QED
    BY <2>2, <2>4, <2>5, <1>1, <1>3 DEF h
<1>4. CASE Refuse(c, h)
  <2>1. log' = log /\ toClient' = [toClient EXCEPT ![c] = Append(@, no)]
    BY <1>4 DEF Refuse
  <2>2. no.localSeq = h.localSeq /\ no.type = "reject"
    OBVIOUS
  <2> HIDE DEF no
  <2>3. QED
    BY <2>1, <2>2, <1>1 DEF h
<1>5. QED
  BY <1>2, <1>3, <1>4

(* The server moves a commit from the queue to its verdict, by way of the   *)
(* log or not.  A commit whose caller was told it failed reads through a    *)
(* rejected layer, which is not in the log, so it is not accepted.          *)
LEMMA TransactTracked ==
  ASSUME NEW c \in Client, FatesInv, Transact(c), NEW d \in Client
  PROVE  Tracked(d)' /\ Shaped(d)' /\ IsSeq(log')
<1>1. Shapes /\ Tracked(c) /\ Tracked(d) /\ Shaped(c) /\ Shaped(d)
  BY DEF FatesInv, Shapes
<1>2. PICK h, v :
        /\ h = Head(toServer[c]) /\ toServer[c] # <<>>
        /\ toServer' = [toServer EXCEPT ![c] = Tail(@)]
        /\ toClient' = [toClient EXCEPT ![c] = Append(@, v)]
        /\ v.localSeq = h.localSeq
        /\ pending' = pending /\ fate' = fate
        /\ \/ /\ v.type = "reject" /\ log' = log
           \/ /\ v.type = "accept" /\ Resolved(c, h)
              /\ \E row : log' = Append(log, row) /\ row.client = c /\ row.commit = h
  BY <1>1, TransactSteps
<1>3. /\ IsSeq(log) /\ IsSeq(toServer[c]) /\ IsSeq(toClient[c])
      /\ toServer'[c] = Tail(toServer[c]) /\ toClient'[c] = Append(toClient[c], v)
      /\ d # c => toServer'[d] = toServer[d] /\ toClient'[d] = toClient[d]
  BY <1>1, <1>2 DEF Shapes, Shaped
<1>4. IsSeq(log')
  <2>1. CASE log' = log
    BY <2>1, <1>3
  <2>2. ASSUME NEW row, log' = Append(log, row) PROVE IsSeq(log')
    BY <2>2, <1>3, AppendSeq
  <2>3. QED
    BY <2>1, <2>2, <1>2
<1>5. IsSeq(toServer'[c]) /\ IsSeq(toClient'[c])
  BY <1>2, <1>3, TailSeq, AppendSeq
<1>6. Shaped(d)'
  BY <1>1, <1>2, <1>3, <1>5 DEF Shaped
<1>7. CASE d # c
  <2>1. Rows(d)' = Rows(d)
    <3>1. CASE log' = log
      BY <3>1 DEF Rows, HeadSeq
    <3>2. CASE \E row : log' = Append(log, row) /\ row.client = c
      BY <3>2, <1>3, <1>7, RowsAppend
    <3>3. QED
      BY <3>1, <3>2, <1>2
  <2>2. Verdicts(d)' = Verdicts(d)
    BY <1>3, <1>7 DEF Verdicts
  <2>3. Tracked(d)'
    BY <2>1, <2>2, <1>1, <1>2, <1>3, <1>7, Untouched
  <2>4. QED
    BY <2>3, <1>4, <1>6
<1>8. CASE d = c
  <2>1. /\ Sent(c) = Sent(c)' \cup {h}
        /\ \A i \in 1..Len(toServer'[c]) :
             i + 1 \in 1..Len(toServer[c]) /\ i + 1 # 1
             /\ toServer'[c][i] = toServer[c][i + 1]
        /\ 1 \in 1..Len(toServer[c]) /\ toServer[c][1] = h
        /\ Len(toServer[c]) \in Nat /\ Len(toServer'[c]) \in Nat
    <3> DEFINE q == toServer[c]
               q1 == toServer'[c]
               elems == {q[i] : i \in 1..Len(q)}
               rest == {q1[i] : i \in 1..Len(q1)}
    <3>1. IsSeq(q) /\ q # <<>> /\ q1 = Tail(q) /\ h = Head(q)
      BY <1>2, <1>3
    <3>2. Sent(c) = elems /\ Sent(c)' = rest
      BY DEF Sent
    <3> HIDE DEF q, q1
    <3>3. elems = rest \cup {h}
      BY <3>1, TailElems
    <3>4. /\ \A i \in 1..Len(q1) : i + 1 \in 1..Len(q) /\ i + 1 # 1 /\ q1[i] = q[i + 1]
          /\ Len(q) \in Nat \ {0} /\ Len(q1) = Len(q) - 1 /\ q[1] = h
      BY <3>1, TailElems, TailSeq
    <3> HIDE DEF elems, rest
    <3>5. Sent(c) = Sent(c)' \cup {h}
      BY <3>2, <3>3
    <3>6. 1 \in 1..Len(q) /\ Len(q) \in Nat /\ Len(q1) \in Nat
      BY <3>4
    <3>7. QED
      BY <3>4, <3>5, <3>6 DEF q, q1
  <2>2. Verdicts(c)' \subseteq Verdicts(c) \cup {v}
    <3> DEFINE elems == {toClient[c][i] : i \in 1..Len(toClient[c])}
               more == {toClient'[c][i] : i \in 1..Len(toClient'[c])}
    <3>1. more = elems \cup {v}
      BY <1>3, AppendElems
    <3>2. /\ Verdicts(c) = {x \in elems : x.type # "sync"}
          /\ Verdicts(c)' = {x \in more : x.type # "sync"}
      BY DEF Verdicts
    <3> HIDE DEF elems, more
    <3>3. QED
      BY <3>1, <3>2
  <2>3. \/ v.type = "reject" /\ Rows(c)' = Rows(c)
        \/ /\ v.type = "accept" /\ Rows(c)' = Rows(c) \cup {h}
           /\ \A k \in h.layers : InLog(c, k)
    <3>1. CASE v.type = "reject" /\ log' = log
      BY <3>1 DEF Rows, HeadSeq
    <3>2. CASE v.type = "accept"
      <4>1. PICK row : log' = Append(log, row) /\ row.client = c /\ row.commit = h
        BY <3>2, <1>2
      <4>2. Rows(c)' = Rows(c) \cup {h}
        BY <4>1, <1>3, RowsAppend
      <4>3. \A k \in h.layers : InLog(c, k)
        BY <3>2, <1>2, AcceptedInLog DEF Resolved
      <4>4. QED
        BY <3>2, <4>2, <4>3
    <3>3. QED
      BY <3>1, <3>2, <1>2
  <2>4. Locals(c)' = Locals(c) /\ h.localSeq \in Locals(c) /\ h \in Sent(c)
    BY <2>1, <1>1, <1>2 DEF Locals, Tracked, Named
  <2>5. ~InLog(c, h.localSeq) /\ ~AtServer(c, h.localSeq)'
    <3>1. ~InLog(c, h.localSeq)
      BY <2>4, <1>1 DEF Tracked, Once
    <3>2. ASSUME NEW i \in 1..Len(toServer'[c]),
                 toServer'[c][i].localSeq = h.localSeq
          PROVE  FALSE
      BY <3>2, <2>1, <1>1 DEF Tracked, Once
    <3>3. QED
      BY <3>1, <3>2 DEF AtServer, Sent
  <2>6. /\ Sent(c)' \subseteq Sent(c) /\ Rows(c) \subseteq Rows(c)'
        /\ Rows(c)' \subseteq Rows(c) \cup {h}
    BY <2>1, <2>3
  <2>7. ASSUME NEW l, l # h.localSeq
        PROVE  (InLog(c, l)' <=> InLog(c, l)) /\ (AtServer(c, l)' <=> AtServer(c, l))
    BY <2>7, <2>1, <2>6 DEF InLog, AtServer
  <2>8. /\ \A l : InLog(c, l) => InLog(c, l)'
        /\ AtServer(c, h.localSeq)
    BY <2>4, <2>6 DEF InLog, AtServer
  <2>9. Named(c)' /\ Ages(c)'
    <3>1. Named(c)'
      BY <2>2, <2>4, <2>6, <1>1, <1>2 DEF Tracked, Named, St
    <3>2. Ages(c)'
      BY <2>4, <1>1, <1>2 DEF Tracked, Ages, St
    <3>3. QED
      BY <3>1, <3>2
  <2>10. NotSent(c)'
    BY <2>2, <2>4, <2>7, <2>8, <1>1, <1>2 DEF Tracked, NotSent, St
  <2>11. Unchanged(c)'
    BY <2>4, <2>6, <1>1, <1>2 DEF Tracked, Unchanged, St
  <2>12. Once(c)'
    <3>1. ASSUME NEW i \in 1..Len(toServer'[c]), NEW j \in 1..Len(toServer'[c]),
                 toServer'[c][i].localSeq = toServer'[c][j].localSeq
          PROVE  i = j
      <4>1. i + 1 = j + 1
        BY <3>1, <2>1, <1>1, SMTT(30) DEF Tracked, Once
      <4>2. QED
        BY <4>1, <2>1
    <3>2. ASSUME NEW m \in Sent(c)' PROVE ~InLog(c, m.localSeq)'
      <4>1. m.localSeq # h.localSeq
        BY <2>5 DEF AtServer
      <4>2. ~InLog(c, m.localSeq)
        BY <2>6, <1>1 DEF Tracked, Once
      <4>3. QED
        BY <4>1, <4>2, <2>7
    <3>3. QED
      BY <3>1, <3>2 DEF Once
  <2>13. VerdictsTrue(c)'
    <3> SUFFICES ASSUME NEW m \in Verdicts(c)'
                 PROVE  /\ m.type = "accept" => InLog(c, m.localSeq)'
                        /\ m.type # "accept" => /\ ~InLog(c, m.localSeq)'
                                                /\ ~AtServer(c, m.localSeq)'
      BY DEF VerdictsTrue
    <3>1. CASE m \in Verdicts(c)
      BY <3>1, <2>7, <2>8, <1>1 DEF Tracked, VerdictsTrue
    <3>2. CASE m = v
      <4>1. m.localSeq = h.localSeq
        BY <3>2, <1>2
      <4>2. CASE v.type = "reject" /\ Rows(c)' = Rows(c)
        BY <3>2, <4>1, <4>2, <2>5 DEF InLog
      <4>3. CASE v.type = "accept" /\ Rows(c)' = Rows(c) \cup {h}
        BY <3>2, <4>1, <4>3 DEF InLog
      <4>4. QED
        BY <4>2, <4>3, <2>3
    <3>3. QED
      BY <3>1, <3>2, <2>2
  <2>14. LogClosed(c)'
    BY <2>3, <2>8, <1>1 DEF Tracked, LogClosed
  <2>15. RejectedIsLost(c)'
    <3> SUFFICES ASSUME NEW l \in Locals(c), fate[c][l] = "rejected"
                 PROVE  /\ ~InLog(c, l)'
                        /\ \A m \in Sent(c)' : m.localSeq = l =>
                             \E k \in m.layers \cap Locals(c) : fate[c][k] = "rejected"
      BY <2>4, <1>2 DEF RejectedIsLost
    <3>1. /\ ~InLog(c, l)
          /\ \A m \in Sent(c) : m.localSeq = l =>
               \E k \in m.layers \cap Locals(c) : fate[c][k] = "rejected"
      BY <1>1 DEF Tracked, RejectedIsLost
    <3>2. CASE l # h.localSeq
      BY <3>1, <3>2, <2>6, <2>7
    <3>3. CASE l = h.localSeq
      <4>1. PICK k \in h.layers \cap Locals(c) : fate[c][k] = "rejected"
        BY <3>1, <3>3, <2>4
      <4>2. ~InLog(c, k)
        BY <4>1, <1>1 DEF Tracked, RejectedIsLost
      <4>3. Rows(c)' = Rows(c)
        BY <4>1, <4>2, <2>3
      <4>4. QED
        BY <3>1, <4>3, <2>6 DEF InLog
    <3>4. QED
      BY <3>2, <3>3
  <2>16. AcceptedIsLogged(c)'
    BY <2>4, <2>8, <1>1, <1>2 DEF Tracked, AcceptedIsLogged
  <2>17. Tracked(c)'
    BY <2>9, <2>10, <2>11, <2>12, <2>13, <2>14, <2>15, <2>16 DEF Tracked
  <2>18. QED
    BY <2>17, <1>4, <1>6, <1>8
<1>9. QED
  BY <1>7, <1>8

(* A flush only puts sync frames in flight.                                 *)
LEMMA FlushTracked ==
  ASSUME FatesInv, Flush, NEW d \in Client
  PROVE  Tracked(d)' /\ Shaped(d)'
<1>1. Tracked(d) /\ Shaped(d)
  BY DEF FatesInv, Shapes
<1>2. /\ log' = log /\ toServer' = toServer /\ pending' = pending /\ fate' = fate
      /\ \/ toClient'[d] = toClient[d]
         \/ toClient'[d] = Append(toClient[d], Frame(d))
  BY DEF Flush, replicaVars
<1>3. Frame(d).type = "sync"
  BY DEF Frame
<1>4. IsSeq(toClient'[d]) /\ Verdicts(d)' = Verdicts(d)
  <2>1. CASE toClient'[d] = toClient[d]
    BY <2>1, <1>1 DEF Shaped, Verdicts
  <2>2. CASE toClient'[d] = Append(toClient[d], Frame(d))
    <3> DEFINE f == Frame(d)
               q == toClient[d]
               elems == {q[i] : i \in 1..Len(q)}
               more == {toClient'[d][i] : i \in 1..Len(toClient'[d])}
    <3>1. IsSeq(q)
      BY <1>1 DEF Shaped
    <3> HIDE DEF f
    <3>2. more = elems \cup {f} /\ IsSeq(toClient'[d])
      BY <3>1, <2>2, AppendElems, AppendSeq DEF f
    <3>3. /\ Verdicts(d) = {x \in elems : x.type # "sync"}
          /\ Verdicts(d)' = {x \in more : x.type # "sync"}
      BY DEF Verdicts
    <3> HIDE DEF elems, more
    <3>4. QED
      BY <3>2, <3>3, <1>3 DEF f
  <2>3. QED
    BY <2>1, <2>2, <1>2
<1>5. Rows(d)' = Rows(d)
  BY <1>2 DEF Rows, HeadSeq
<1>6. QED
  BY <1>1, <1>2, <1>4, <1>5, Untouched DEF Shaped

(* What one client and its replica do is nothing to another.                *)
LEMMA OthersTracked ==
  ASSUME NEW d, Tracked(d), Shaped(d), log' = log,
         pending'[d] = pending[d], fate'[d] = fate[d],
         toServer'[d] = toServer[d], toClient'[d] = toClient[d]
  PROVE  Tracked(d)' /\ Shaped(d)'
<1>1. Rows(d)' = Rows(d) /\ Verdicts(d)' = Verdicts(d)
  BY DEF Rows, HeadSeq, Verdicts
<1>2. QED
  BY <1>1, Untouched DEF Shaped

(* A step of client c, of its replica or of its link, as the rest of the    *)
(* system sees it.                                                          *)
StepOf(c) ==
  \/ \E tx \in Tx[c] : Commit(c, tx)
  \/ Send(c)
  \/ Receive(c)
  \/ FinishRejection(c)
  \/ RepairTimeout(c)

(* Only the log, and that only in transact, is shared between clients.      *)
LEMMA StepsAreLocal ==
  ASSUME NEW c \in Client, Shapes, StepOf(c)
  PROVE  /\ log' = log
         /\ DOMAIN pending' = Client /\ DOMAIN fate' = Client
         /\ DOMAIN toServer' = Client /\ DOMAIN toClient' = Client
         /\ \A d \in Client \ {c} :
              /\ pending'[d] = pending[d] /\ fate'[d] = fate[d]
              /\ toServer'[d] = toServer[d] /\ toClient'[d] = toClient[d]
<1>1. CASE \E tx \in Tx[c] : Commit(c, tx)
  BY <1>1 DEF Commit, Shapes, serverVars
<1>2. CASE Send(c)
  <2>1. PICK l \in Unsent(c) :
          /\ \/ \E p : pending' = [pending EXCEPT ![c][l] = p]
             \/ \E x : pending' = [pending EXCEPT ![c][l].status = x]
          /\ fate' = fate \/ \E y : fate' = [fate EXCEPT ![c][l] = y]
          /\ toServer' = toServer \/ \E q : toServer' = [toServer EXCEPT ![c] = q]
          /\ log' = log /\ toClient' = toClient
    BY <1>2, Zenon DEF Send, serverVars
  <2>2. DOMAIN pending' = Client /\ \A d \in Client \ {c} : pending'[d] = pending[d]
    BY <2>1 DEF Shapes
  <2>3. DOMAIN fate' = Client /\ \A d \in Client \ {c} : fate'[d] = fate[d]
    BY <2>1 DEF Shapes
  <2>4. DOMAIN toServer' = Client /\ \A d \in Client \ {c} : toServer'[d] = toServer[d]
    BY <2>1 DEF Shapes
  <2>5. QED
    BY <2>1, <2>2, <2>3, <2>4 DEF Shapes
<1>3. CASE Receive(c)
  <2>1. /\ log' = log /\ toServer' = toServer
        /\ DOMAIN toClient' = Client
        /\ \A d \in Client \ {c} : toClient'[d] = toClient[d]
    BY <1>3 DEF Receive, serverVars, Shapes
  <2>2. PICK m : IF m.type = "sync" THEN ReceiveSync(c, m) ELSE ReceiveVerdict(c, m)
    BY <1>3 DEF Receive
  <2> DEFINE Kept == /\ DOMAIN pending' = Client /\ DOMAIN fate' = Client
                     /\ \A d \in Client \ {c} :
                          pending'[d] = pending[d] /\ fate'[d] = fate[d]
  <2>3. CASE UNCHANGED replicaVars
    BY <2>3, <2>1 DEF replicaVars, Shapes
  <2>4. CASE ReceiveAccept(c, m.localSeq, m.seq)
    <3>1. Kept
      BY <2>4 DEF ReceiveAccept, Shapes
    <3>2. QED
      BY <2>1, <3>1 DEF Shapes
  <2>5. CASE ReceiveReject(c, m.localSeq, m.seq)
    <3>1. Kept
      BY <2>5 DEF ReceiveReject, Shapes
    <3>2. QED
      BY <2>1, <3>1 DEF Shapes
  <2>6. CASE Parkable(c) /\ ReceiveSync(c, m)
    <3>1. (\E p : pending' = [pending EXCEPT ![c] = p]) /\ fate' = fate
      BY <2>6, Zenon DEF ReceiveSync
    <3>2. QED
      BY <2>1, <3>1 DEF Shapes
  <2>7. QED
    BY <2>2, <2>3, <2>4, <2>5, <2>6 DEF ReceiveVerdict, ReceiveSync
<1>4. CASE \E l : Drop(c, l)
  BY <1>4 DEF Drop, Shapes, serverVars
<1>5. QED
  BY <1>1, <1>2, <1>3, <1>4 DEF StepOf, FinishRejection, RepairTimeout

(* Every step of a client keeps its own commits tracked.                    *)
LEMMA StepTracked ==
  ASSUME NEW c \in Client, Shapes, Tracked(c), StepOf(c)
  PROVE  Tracked(c)' /\ Shaped(c)'
<1>1. CASE \E tx \in Tx[c] : Commit(c, tx)
  BY <1>1, CommitTracked
<1>2. CASE Send(c)
  BY <1>2, SendTracked
<1>3. CASE Receive(c)
  BY <1>3, ReceiveTracked
<1>4. CASE FinishRejection(c) \/ RepairTimeout(c)
  BY <1>4, DropTracked DEF FinishRejection, RepairTimeout
<1>5. QED
  BY <1>1, <1>2, <1>3, <1>4 DEF StepOf

-----------------------------------------------------------------------------
(* Nothing is anywhere at first.                                            *)
LEMMA InitFates == Init => FatesInv
<1> SUFFICES ASSUME Init PROVE FatesInv
  OBVIOUS
<1>1. IsSeq(<<>>) /\ Len(<<>>) = 0
  BY DEF IsSeq
<1>2. Shapes
  BY <1>1 DEF Init, Shapes, Shaped
<1>3. ASSUME NEW c \in Client PROVE Tracked(c)
  <2>1. /\ Locals(c) = {} /\ Rows(c) = {} /\ Sent(c) = {} /\ Verdicts(c) = {}
        /\ Len(toServer[c]) = 0
    BY DEF Init, Locals, Rows, Sent, Verdicts, HeadSeq
  <2>2. QED
    BY <2>1 DEF Tracked, Named, Ages, NotSent, Unchanged, Once, VerdictsTrue,
                LogClosed, RejectedIsLost, AcceptedIsLogged
<1>4. QED
  BY <1>2, <1>3 DEF FatesInv

(* Every step keeps every commit tracked.                                   *)
LEMMA NextFates == FatesInv /\ [Next]_vars => FatesInv'
<1> SUFFICES ASSUME FatesInv, [Next]_vars PROVE FatesInv'
  OBVIOUS
<1>1. ASSUME NEW c \in Client, StepOf(c) PROVE FatesInv'
  <2>1. /\ log' = log
        /\ DOMAIN pending' = Client /\ DOMAIN fate' = Client
        /\ DOMAIN toServer' = Client /\ DOMAIN toClient' = Client
        /\ \A d \in Client \ {c} :
             /\ pending'[d] = pending[d] /\ fate'[d] = fate[d]
             /\ toServer'[d] = toServer[d] /\ toClient'[d] = toClient[d]
    BY <1>1, StepsAreLocal DEF FatesInv
  <2>2. ASSUME NEW d \in Client PROVE Tracked(d)' /\ Shaped(d)'
    <3>1. CASE d = c
      BY <3>1, <1>1, StepTracked DEF FatesInv
    <3>2. CASE d # c
      BY <3>2, <2>1, OthersTracked DEF FatesInv, Shapes
    <3>3. QED
      BY <3>1, <3>2
  <2>3. QED
    BY <2>1, <2>2 DEF FatesInv, Shapes
<1>2. ASSUME NEW c \in Client, Transact(c) PROVE FatesInv'
  <2>1. \A d \in Client : Tracked(d)' /\ Shaped(d)' /\ IsSeq(log')
    BY <1>2, TransactTracked
  <2>2. /\ DOMAIN pending' = Client /\ DOMAIN fate' = Client
        /\ DOMAIN toServer' = Client /\ DOMAIN toClient' = Client
    BY <1>2, TransactSteps DEF FatesInv, Shapes
  <2>3. QED
    BY <2>1, <2>2 DEF FatesInv, Shapes
<1>3. CASE Flush
  <2>1. \A d \in Client : Tracked(d)' /\ Shaped(d)'
    BY <1>3, FlushTracked
  <2>2. /\ log' = log /\ DOMAIN pending' = Client /\ DOMAIN fate' = Client
        /\ DOMAIN toServer' = Client /\ DOMAIN toClient' = Client
    BY <1>3 DEF Flush, replicaVars, FatesInv, Shapes
  <2>3. QED
    BY <2>1, <2>2 DEF FatesInv, Shapes
<1>4. CASE UNCHANGED vars
  <2>1. /\ log' = log /\ pending' = pending /\ fate' = fate
        /\ toServer' = toServer /\ toClient' = toClient
    BY <1>4 DEF vars, serverVars, replicaVars
  <2>2. \A d \in Client : Tracked(d)' /\ Shaped(d)'
    BY <2>1, OthersTracked DEF FatesInv, Shapes
  <2>3. QED
    BY <2>1, <2>2 DEF FatesInv, Shapes
<1>5. QED
  BY <1>1, <1>2, <1>3, <1>4 DEF Next, StepOf

(* A caller told that its commit failed finds it in no log, ever; a caller  *)
(* told that it succeeded finds it there: for all clients, documents,       *)
(* transactions and bounds.                                                 *)
THEOREM FatesAlwaysAgree == Spec => []FatesAgree
<1>1. FatesInv => FatesAgree
  BY AcceptedInLog DEF FatesInv, Tracked, RejectedIsLost, AcceptedIsLogged,
                       FatesAgree, Locals
<1>2. QED
  BY <1>1, InitFates, NextFates, PTL DEF Spec

-----------------------------------------------------------------------------

(***************************************************************************)
(* What each action of OptimisticCommit does, as its effect on one client, *)
(* on the server and on the log, and the shapes that all of them keep.     *)
(*                                                                         *)
(* The replica folds its stack of layers (Replay) and a frame folds the    *)
(* layers it promotes. Each fold is the last value of its run, which       *)
(* SetInduction shows to exist: the induction over the length of a stack   *)
(* that the later proofs rest on. The shapes are an invariant of their own *)
(* because the rest needs them at every step: a row leaves the documents   *)
(* as its operation makes them (LogOK), and a document is dirty, with an   *)
(* origin that wrote all of it, for as long as a flush owes it (WindowOK). *)
(***************************************************************************)

(* Induction over the naturals, for a property given by its extension.      *)
LEMMA SetInduction ==
  ASSUME NEW T, 0 \in T, \A n \in Nat : n \in T => n + 1 \in T
  PROVE  \A n \in Nat : n \in T
<1> DEFINE F == {n \in Nat : n \notin T}
<1> DEFINE R == {ss \in Nat \X Nat : ss[1] < ss[2]}
<1>1. IsWellFoundedOn(R, Nat)
  BY NatLessThanWellFounded DEF OpToRel
<1>2. SUFFICES ASSUME F # {} PROVE FALSE
  OBVIOUS
<1>3. PICK x \in F : \A y \in F : ~(<<y, x>> \in R)
  <2>1. F \subseteq Nat
    OBVIOUS
  <2> HIDE DEF F, R
  <2> QED BY <1>1, <1>2, <2>1, WFMin
<1>4. x # 0 /\ x \in Nat
  OBVIOUS
<1>5. x - 1 \in Nat /\ <<x - 1, x>> \in R
  BY <1>4
<1>6. x - 1 \notin F
  BY <1>3, <1>5
<1> QED BY <1>4, <1>5, <1>6

(* A fold over 1..n is the last of its partial results.                     *)
ReplayRun(h, n, value, entries, counted) ==
  h = [k \in 0..n |->
        IF k = 0 THEN value
        ELSE IF k \in counted THEN Apply(h[k - 1], entries[k].commit.op)
        ELSE h[k - 1]]

(* The greatest element of a nonempty set of positions is one of them, and *)
(* none is above it.                                                       *)
LEMMA MaxProperties ==
  ASSUME NEW n \in Nat
  PROVE  \A s \in SUBSET (1..n) : s # {} =>
           Max(s) \in s /\ \A y \in s : Max(s) >= y
<1> DEFINE Top(s) == \E x \in s : \A y \in s : x >= y
           T == {m \in Nat : \A s \in SUBSET (1..m) : s # {} => Top(s)}
<1>1. 0 \in T
  <2>1. \A s \in SUBSET (1..0) : s = {}
    OBVIOUS
  <2> QED BY <2>1
<1>2. ASSUME NEW m \in Nat, m \in T PROVE m + 1 \in T
  <2> SUFFICES ASSUME NEW s \in SUBSET (1..(m + 1)), s # {} PROVE Top(s)
    OBVIOUS
  <2>1. CASE m + 1 \in s
    <3>1. \A y \in s : m + 1 >= y
      OBVIOUS
    <3> QED BY <2>1, <3>1
  <2>2. CASE m + 1 \notin s
    <3>1. s \in SUBSET (1..m)
      BY <2>2
    <3> QED BY <1>2, <3>1
  <2> QED BY <2>1, <2>2
<1> HIDE DEF T
<1>3. \A m \in Nat : m \in T
  BY <1>1, <1>2, SetInduction
<1> QED BY <1>3 DEF T, Max

(* A set of positions that reaches the end of its interval has that end    *)
(* for its greatest.                                                       *)
LEMMA MaxInterval ==
  ASSUME NEW n \in Nat, NEW s \in SUBSET (1..(n + 1)), n + 1 \in s
  PROVE  Max(s) = n + 1
<1>1. \A y \in s : n + 1 >= y
  OBVIOUS
<1>2. \A x \in s : (\A y \in s : x >= y) => x = n + 1
  OBVIOUS
<1> QED BY <1>1, <1>2 DEF Max

(* Replay, a fold over a stack of layers or over the log, is the last of   *)
(* the values of its run.                                                  *)
LEMMA ReplayIsRun ==
  ASSUME NEW n \in Nat, NEW entries, DOMAIN entries = 1..n, NEW value, NEW counted
  PROVE  \E h : /\ ReplayRun(h, n, value, entries, counted)
                /\ Replay(value, entries, counted) = h[n]
<1> DEFINE idx == [i \in DOMAIN entries |-> i]
           Put(v, k) == IF k \in counted THEN Apply(v, entries[k].commit.op) ELSE v
           Whole(g) == [s \in SUBSET DOMAIN idx |->
                         IF s = {} THEN value ELSE Put(g[s \ {Max(s)}], idx[Max(s)])]
           Fold(m, g) == g = [s \in SUBSET (1..m) |->
                         IF s = {} THEN value ELSE Put(g[s \ {Max(s)}], Max(s))]
<1>1. Replay(value, entries, counted) = (CHOOSE g : g = Whole(g))[DOMAIN idx]
  BY DEF Replay, FoldLeftDomain, FoldLeft, MapThenFoldSet
<1>2. \A m \in Nat : \E g : Fold(m, g)
  <2> DEFINE T == {m \in Nat : \E g : Fold(m, g)}
  <2>1. 0 \in T
    <3> DEFINE g == [s \in SUBSET (1..0) |-> value]
    <3>1. Fold(0, g)
      <4>1. \A s \in SUBSET (1..0) : s = {}
        OBVIOUS
      <4> QED BY <4>1
    <3> QED BY <3>1
  <2>2. ASSUME NEW m \in Nat, m \in T PROVE m + 1 \in T
    <3>1. PICK g : Fold(m, g)
      BY <2>2
    <3> DEFINE g1 == [s \in SUBSET (1..(m + 1)) |->
                 IF s = {} THEN value
                 ELSE IF s \in SUBSET (1..m) THEN g[s] ELSE Put(g[s \ {m + 1}], m + 1)]
    <3>2. Fold(m + 1, g1)
      <4>1. ASSUME NEW s \in SUBSET (1..(m + 1)), s # {}
            PROVE  g1[s] = Put(g1[s \ {Max(s)}], Max(s))
        <5>1. CASE s \in SUBSET (1..m)
          <6>1. Max(s) \in s
            BY <4>1, m + 1 \in Nat, MaxProperties
          <6>2. s \ {Max(s)} \in SUBSET (1..m) /\ s \ {Max(s)} \in SUBSET (1..(m + 1))
            BY <5>1
          <6>3. g[{}] = value /\ {} \in SUBSET (1..m)
            BY <3>1
          <6>4. g1[s \ {Max(s)}] = g[s \ {Max(s)}]
            BY <6>2, <6>3
          <6>5. g1[s] = g[s] /\ g[s] = Put(g[s \ {Max(s)}], Max(s))
            BY <3>1, <4>1, <5>1
          <6> HIDE DEF g1, Put
          <6> QED BY <6>4, <6>5
        <5>2. CASE s \notin SUBSET (1..m)
          <6>1. m + 1 \in s /\ Max(s) = m + 1
            BY <5>2, MaxInterval
          <6>2. s \ {m + 1} \in SUBSET (1..m) /\ s \ {m + 1} \in SUBSET (1..(m + 1))
            OBVIOUS
          <6>3. g[{}] = value /\ {} \in SUBSET (1..m)
            BY <3>1
          <6>4. g1[s \ {m + 1}] = g[s \ {m + 1}]
            BY <6>2, <6>3
          <6>5. g1[s] = Put(g[s \ {m + 1}], m + 1)
            BY <4>1, <5>2
          <6> HIDE DEF g1, Put
          <6> QED BY <6>1, <6>4, <6>5
        <5> QED BY <5>1, <5>2
      <4> QED BY <4>1
    <3> HIDE DEF Fold
    <3> QED BY <3>2
  <2> HIDE DEF T
  <2>3. \A m \in Nat : m \in T
    BY <2>1, <2>2, SetInduction
  <2> QED BY <2>3 DEF T
<1> DEFINE G == CHOOSE g : g = Whole(g)
<1>3. G = Whole(G)
  <2>1. PICK g : Fold(n, g)
    BY <1>2
  <2>2. g = Whole(g)
    <3>1. \A s \in SUBSET (1..n) : s # {} => Max(s) \in 1..n
      BY MaxProperties
    <3> HIDE DEF Put
    <3>2. \A s \in SUBSET (1..n) : s # {} => idx[Max(s)] = Max(s)
      BY <3>1
    <3> QED BY <2>1, <3>2
  <2> HIDE DEF Whole
  <2> QED BY <2>2
<1>4. Fold(n, G)
  <2>1. \A s \in SUBSET (1..n) : s # {} => Max(s) \in 1..n
    BY MaxProperties
  <2> HIDE DEF Put, G
  <2>2. \A s \in SUBSET (1..n) : s # {} => idx[Max(s)] = Max(s)
    BY <2>1
  <2> QED BY <1>3, <2>2
<1> DEFINE h == [k \in 0..n |-> G[1..k]]
<1>5. ReplayRun(h, n, value, entries, counted)
  <2> HIDE DEF G
  <2>1. ASSUME NEW k \in 1..n PROVE G[1..k] = Put(G[1..(k - 1)], k)
    <3>1. k - 1 \in Nat /\ (k - 1) + 1 = k /\ k \in 1..k /\ 1..k \in SUBSET (1..n)
      OBVIOUS
    <3>2. Max(1..k) = k
      BY <3>1, MaxInterval
    <3>3. (1..k) \ {k} = 1..(k - 1)
      OBVIOUS
    <3> HIDE DEF Put
    <3> QED BY <1>4, <3>1, <3>2, <3>3
  <2>2. G[1..0] = value
    BY <1>4
  <2>3. \A k \in 0..n : k # 0 => k \in 1..n /\ k - 1 \in 0..n
    OBVIOUS
  <2> QED BY <2>1, <2>2, <2>3 DEF ReplayRun
<1>6. Replay(value, entries, counted) = h[n]
  BY <1>1
<1> QED BY <1>5, <1>6

(* An accepted write of d by c keeps the origin of d only if c wrote all of  *)
(* the window.                                                              *)
OriginMoves(c, d) ==
  \/ origin'[d] = None
  \/ /\ origin'[d].client = c
     /\ d \in dirty => origin[d] # None /\ origin[d].client = c

(* What transact does, to the link of its client, to the log and to the     *)
(* window.                                                                  *)
Handles(c, h, v) ==
  /\ toServer[c] # <<>> /\ h = toServer[c][1] /\ h \in Sent(c)
  /\ toServer'[c] = Tail(toServer[c])
  /\ toClient'[c] = Append(toClient[c], v) /\ v.localSeq = h.localSeq
  /\ owed'[c] = h.localSeq
  /\ \A d \in Client : d # c =>
       /\ toServer'[d] = toServer[d] /\ toClient'[d] = toClient[d] /\ owed'[d] = owed[d]
  /\ DOMAIN toServer' = Client /\ DOMAIN toClient' = Client /\ DOMAIN owed' = Client
  /\ flushed' = flushed /\ confirmed' = confirmed /\ pending' = pending
  /\ caughtUp' = caughtUp /\ fate' = fate /\ scheduled' = TRUE
  /\ DOMAIN origin' = Doc

Refuses(h, v) ==
  /\ v.type = "reject" /\ v.seq = HeadSeq /\ log' = log
  /\ dirty' = dirty \cup {h.op.doc} \cup ({h.read.doc} \ {None})
  /\ \A d \in Doc : origin'[d] = origin[d] \/ origin'[d] = None

Writes(c, h) ==
  /\ dirty' = dirty \cup {h.op.doc}
  /\ \A d \in Doc : IF d = h.op.doc THEN OriginMoves(c, d) ELSE origin'[d] = origin[d]

Accepts(c, h, v, row) ==
  /\ v.type = "accept" /\ v.seq = HeadSeq + 1 /\ Resolved(c, h)
  /\ log' = Append(log, row) /\ row.client = c /\ row.commit = h
  /\ row.content = [d \in Doc |-> IF ~row.elided /\ d = h.op.doc
                                  THEN Apply(Stored(d), h.op) ELSE Stored(d)]
  /\ \/ /\ row.elided = TRUE /\ Apply(Stored(h.op.doc), h.op) = Stored(h.op.doc)
        /\ dirty' = dirty /\ \A d \in Doc : origin'[d] = origin[d]
     \/ row.elided = FALSE /\ ~Stale(c, h) /\ Writes(c, h)

(* Transact takes the first commit in flight from its client and answers   *)
(* it: with a refusal that leaves the log alone, or with a row.            *)
LEMMA TransactEffect ==
  ASSUME NEW c \in Client, Shapes, DOMAIN owed = Client, DOMAIN origin = Doc, Transact(c)
  PROVE  \E h, v : /\ Handles(c, h, v)
                   /\ Refuses(h, v) \/ \E row : Accepts(c, h, v, row)
<1> DEFINE h == Head(toServer[c])
           yes == [type |-> "accept", localSeq |-> h.localSeq, seq |-> Len(log')]
           no == [type |-> "reject", localSeq |-> h.localSeq, seq |-> HeadSeq]
<1>1. /\ toServer[c] # <<>> /\ toServer' = [toServer EXCEPT ![c] = Tail(toServer[c])]
      /\ owed' = [owed EXCEPT ![c] = h.localSeq]
      /\ flushed' = flushed /\ confirmed' = confirmed /\ pending' = pending
      /\ caughtUp' = caughtUp /\ fate' = fate
      /\ \/ Resolved(c, h) /\ ~Stale(c, h) /\ Accept(c, h, FALSE)
         \/ Resolved(c, h) /\ IsIdentityCommit(c, h) /\ Accept(c, h, TRUE)
         \/ Refuse(c, h)
  BY DEF Transact, replicaVars
<1>2. h = toServer[c][1] /\ h \in Sent(c)
  <2>1. IsSeq(toServer[c])
    BY DEF Shapes, Shaped
  <2>2. Len(toServer[c]) \in Nat \ {0} /\ h = toServer[c][1]
    BY <1>1, <2>1, TailSeq
  <2> QED BY <2>2 DEF Sent
<1>3. /\ toServer'[c] = Tail(toServer[c]) /\ owed'[c] = h.localSeq
      /\ DOMAIN toServer' = Client /\ DOMAIN owed' = Client
      /\ \A d \in Client : d # c => toServer'[d] = toServer[d] /\ owed'[d] = owed[d]
  BY <1>1 DEF Shapes
<1> HIDE DEF h
<1>4. ASSUME NEW v, toClient' = [toClient EXCEPT ![c] = Append(toClient[c], v)]
      PROVE  /\ toClient'[c] = Append(toClient[c], v) /\ DOMAIN toClient' = Client
             /\ \A d \in Client : d # c => toClient'[d] = toClient[d]
  BY <1>4 DEF Shapes
<1>5. CASE Refuse(c, h)
  <2>1. /\ toClient' = [toClient EXCEPT ![c] = Append(toClient[c], no)] /\ log' = log
        /\ MarkDirty({h.op.doc} \cup ({h.read.doc} \ {None}), None)
    BY <1>5 DEF Refuse
  <2>2. /\ dirty' = dirty \cup {h.op.doc} \cup ({h.read.doc} \ {None})
        /\ DOMAIN origin' = Doc
        /\ \A d \in Doc : origin'[d] = origin[d] \/ origin'[d] = None
        /\ scheduled' = TRUE
    BY <2>1 DEF MarkDirty
  <2>3. no.type = "reject" /\ no.seq = HeadSeq /\ no.localSeq = h.localSeq
    OBVIOUS
  <2> HIDE DEF no
  <2>4. Handles(c, h, no)
    BY <1>1, <1>2, <1>3, <1>4, <2>1, <2>2, <2>3 DEF Handles
  <2>5. Refuses(h, no)
    BY <2>1, <2>2, <2>3 DEF Refuses
  <2> QED BY <2>4, <2>5
<1>6. ASSUME NEW e \in BOOLEAN, Accept(c, h, e), Resolved(c, h),
             IF e THEN Apply(Stored(h.op.doc), h.op) = Stored(h.op.doc) ELSE ~Stale(c, h)
      PROVE  Handles(c, h, yes) /\ \E row : Accepts(c, h, yes, row)
  <2> DEFINE row == [client |-> c, commit |-> h, elided |-> e,
                     content |-> [d \in Doc |-> IF ~e /\ d = h.op.doc
                                   THEN Apply(Stored(d), h.op) ELSE Stored(d)]]
             from == [client |-> c, seq |-> Len(log'), patch |-> h.op.kind # "set"]
  <2>1. /\ log' = Append(log, row)
        /\ toClient' = [toClient EXCEPT ![c] = Append(toClient[c], yes)]
        /\ IF e THEN MarkDirty({}, None) ELSE MarkDirty({h.op.doc}, from)
    BY <1>6 DEF Accept
  <2>2. Len(log') = HeadSeq + 1
    BY <2>1, AppendSeq DEF Shapes, HeadSeq
  <2>3. /\ row.client = c /\ row.commit = h /\ row.elided = e
        /\ row.content = [d \in Doc |-> IF ~e /\ d = h.op.doc
                                THEN Apply(Stored(d), h.op) ELSE Stored(d)]
    OBVIOUS
  <2>4. scheduled' = TRUE /\ DOMAIN origin' = Doc
    BY <2>1 DEF MarkDirty
  <2>5. e => dirty' = dirty /\ \A d \in Doc : origin'[d] = origin[d]
    BY <2>1 DEF MarkDirty
  <2>6. ~e => dirty' = dirty \cup {h.op.doc}
    BY <2>1 DEF MarkDirty
  <2>7. ASSUME ~e, NEW d \in Doc
        PROVE  IF d = h.op.doc THEN OriginMoves(c, d) ELSE origin'[d] = origin[d]
    <3>1. origin'[d] = IF d \notin {h.op.doc} THEN origin[d]
                       ELSE IF from = None THEN None
                       ELSE IF d \in dirty /\ (origin[d] = None \/ origin[d].client # from.client)
                       THEN None ELSE from
      BY <2>1, <2>7 DEF MarkDirty
    <3>2. from.client = c
      OBVIOUS
    <3> HIDE DEF from
    <3> QED BY <3>1, <3>2 DEF OriginMoves
  <2> HIDE DEF row, from
  <2>8. yes.type = "accept" /\ yes.seq = HeadSeq + 1 /\ yes.localSeq = h.localSeq
    BY <2>2
  <2> HIDE DEF yes
  <2>9. Handles(c, h, yes)
    BY <1>1, <1>2, <1>3, <1>4, <2>1, <2>4, <2>8 DEF Handles
  <2>10. Accepts(c, h, yes, row)
    <3>1. ~e => Writes(c, h)
      BY <2>6, <2>7 DEF Writes
    <3> QED BY <1>6, <2>1, <2>3, <2>5, <2>8, <3>1 DEF Accepts
  <2> QED BY <2>9, <2>10
<1> HIDE DEF yes, no
<1>7. CASE Resolved(c, h) /\ ~Stale(c, h) /\ Accept(c, h, FALSE)
  BY <1>6, <1>7
<1>8. CASE Resolved(c, h) /\ IsIdentityCommit(c, h) /\ Accept(c, h, TRUE)
  <2>1. Apply(Stored(h.op.doc), h.op) = Stored(h.op.doc)
    BY <1>8 DEF IsIdentityCommit
  <2> QED BY <1>6, <1>8, <2>1
<1> QED BY <1>1, <1>5, <1>7, <1>8

(* The layers a frame brings to promotion, and the bases after each.        *)
Due(p, caught) == p.status = "parked" /\ p.commit.localSeq <= caught

PromoteRun(g, n, bases, layers, caught) ==
  g = [k \in 0..n |->
        IF k = 0 THEN bases
        ELSE IF Due(layers[k], caught) THEN Promote(g[k - 1], layers[k])
        ELSE g[k - 1]]

PromoteFold(bases, layers, caught) ==
  FoldLeft(LAMBDA b, p : IF Due(p, caught) THEN Promote(b, p) ELSE b, bases, layers)

(* The fold by which a frame promotes parked layers is the last of the     *)
(* bases of its run.                                                       *)
LEMMA PromoteIsRun ==
  ASSUME NEW n \in Nat, NEW layers, DOMAIN layers = 1..n, NEW bases, NEW caught
  PROVE  \E g : /\ PromoteRun(g, n, bases, layers, caught)
                /\ PromoteFold(bases, layers, caught) = g[n]
<1> DEFINE Put(b, k) == IF Due(layers[k], caught) THEN Promote(b, layers[k]) ELSE b
           Fold(m, g) == g = [s \in SUBSET (1..m) |->
                         IF s = {} THEN bases ELSE Put(g[s \ {Max(s)}], Max(s))]
           G == CHOOSE g : Fold(n, g)
<1>1. PromoteFold(bases, layers, caught) = G[1..n]
  <2>1. PromoteFold(bases, layers, caught)
          = (CHOOSE g : g = [s \in SUBSET DOMAIN layers |->
               IF s = {} THEN bases
               ELSE IF Due(layers[Max(s)], caught)
               THEN Promote(g[s \ {Max(s)}], layers[Max(s)])
               ELSE g[s \ {Max(s)}]])[DOMAIN layers]
    BY DEF PromoteFold, FoldLeft, MapThenFoldSet
  <2> QED BY <2>1
<1>2. \A m \in Nat : \E g : Fold(m, g)
  <2> DEFINE T == {m \in Nat : \E g : Fold(m, g)}
  <2>1. 0 \in T
    <3> DEFINE g == [s \in SUBSET (1..0) |-> bases]
    <3>1. Fold(0, g)
      <4>1. \A s \in SUBSET (1..0) : s = {}
        OBVIOUS
      <4> QED BY <4>1
    <3> QED BY <3>1
  <2>2. ASSUME NEW m \in Nat, m \in T PROVE m + 1 \in T
    <3>1. PICK g : Fold(m, g)
      BY <2>2
    <3> DEFINE g1 == [s \in SUBSET (1..(m + 1)) |->
                 IF s = {} THEN bases
                 ELSE IF s \in SUBSET (1..m) THEN g[s] ELSE Put(g[s \ {m + 1}], m + 1)]
    <3>2. Fold(m + 1, g1)
      <4>1. ASSUME NEW s \in SUBSET (1..(m + 1)), s # {}
            PROVE  g1[s] = Put(g1[s \ {Max(s)}], Max(s))
        <5>1. CASE s \in SUBSET (1..m)
          <6>1. Max(s) \in s
            BY <4>1, m + 1 \in Nat, MaxProperties
          <6>2. s \ {Max(s)} \in SUBSET (1..m) /\ s \ {Max(s)} \in SUBSET (1..(m + 1))
            BY <5>1
          <6>3. g[{}] = bases /\ {} \in SUBSET (1..m)
            BY <3>1
          <6>4. g1[s \ {Max(s)}] = g[s \ {Max(s)}]
            BY <6>2, <6>3
          <6>5. g1[s] = g[s] /\ g[s] = Put(g[s \ {Max(s)}], Max(s))
            BY <3>1, <4>1, <5>1
          <6> HIDE DEF g1, Put
          <6> QED BY <6>4, <6>5
        <5>2. CASE s \notin SUBSET (1..m)
          <6>1. m + 1 \in s /\ Max(s) = m + 1
            BY <5>2, MaxInterval
          <6>2. s \ {m + 1} \in SUBSET (1..m) /\ s \ {m + 1} \in SUBSET (1..(m + 1))
            OBVIOUS
          <6>3. g[{}] = bases /\ {} \in SUBSET (1..m)
            BY <3>1
          <6>4. g1[s \ {m + 1}] = g[s \ {m + 1}]
            BY <6>2, <6>3
          <6>5. g1[s] = Put(g[s \ {m + 1}], m + 1)
            BY <4>1, <5>2
          <6> HIDE DEF g1, Put
          <6> QED BY <6>1, <6>4, <6>5
        <5> QED BY <5>1, <5>2
      <4> QED BY <4>1
    <3> HIDE DEF Fold
    <3> QED BY <3>2
  <2> HIDE DEF T
  <2>3. \A m \in Nat : m \in T
    BY <2>1, <2>2, SetInduction
  <2> QED BY <2>3 DEF T
<1>3. Fold(n, G)
  <2>1. \E g : Fold(n, g)
    BY <1>2
  <2> HIDE DEF Fold
  <2> QED BY <2>1
<1> DEFINE h == [k \in 0..n |-> G[1..k]]
<1> HIDE DEF G
<1>4. PromoteRun(h, n, bases, layers, caught)
  <2>1. ASSUME NEW k \in 1..n PROVE G[1..k] = Put(G[1..(k - 1)], k)
    <3>1. k - 1 \in Nat /\ (k - 1) + 1 = k /\ k \in 1..k /\ 1..k \in SUBSET (1..n)
      OBVIOUS
    <3>2. Max(1..k) = k
      BY <3>1, MaxInterval
    <3>3. (1..k) \ {k} = 1..(k - 1)
      OBVIOUS
    <3> HIDE DEF Put
    <3> QED BY <1>3, <3>1, <3>2, <3>3
  <2>2. G[1..0] = bases
    BY <1>3
  <2>3. \A k \in 0..n : k # 0 => k \in 1..n /\ k - 1 \in 0..n
    OBVIOUS
  <2> QED BY <2>1, <2>2, <2>3 DEF PromoteRun
<1>5. h[n] = G[1..n]
  OBVIOUS
<1> QED BY <1>1, <1>4, <1>5

(* A frame at a replica that watches something.                             *)
Caught(c, m) == IF m.marker > caughtUp[c] THEN m.marker ELSE caughtUp[c]
Bases(c, m) == [d \in Doc |-> Integrated(c, d, m.upserts)]

Syncs(c, m, g) ==
  /\ PromoteRun(g, Len(fate[c]), Bases(c, m), pending[c], Caught(c, m))
  /\ confirmed'[c] = g[Len(fate[c])]
  /\ caughtUp'[c] = Caught(c, m)
  /\ pending'[c] = [l \in Locals(c) |->
       IF Due(pending[c][l], Caught(c, m)) THEN Gone ELSE pending[c][l]]
  /\ fate' = fate

(* A frame at a replica that watches something: upserts first, then one    *)
(* promotion after another, each in the order of the layers.               *)
LEMMA SyncEffect ==
  ASSUME NEW c \in Client, Shapes, DOMAIN confirmed = Client, DOMAIN caughtUp = Client,
         NEW m, Parkable(c), ReceiveSync(c, m)
  PROVE  \E g : Syncs(c, m, g)
<1> DEFINE caught == Caught(c, m)
           isDue(p) == p.status = "parked" /\ p.commit.localSeq <= caught
<1>1. /\ caughtUp' = [caughtUp EXCEPT ![c] = caught]
      /\ confirmed' = [confirmed EXCEPT ![c] =
           FoldLeft(LAMBDA b, p : IF isDue(p) THEN Promote(b, p) ELSE b,
                    Bases(c, m), pending[c])]
      /\ pending' = [pending EXCEPT ![c] =
           [l \in DOMAIN pending[c] |->
              IF isDue(pending[c][l]) THEN Gone ELSE pending[c][l]]]
      /\ fate' = fate
  BY DEF ReceiveSync, Caught, Bases
<1>2. DOMAIN pending[c] = 1..Len(fate[c]) /\ Len(fate[c]) \in Nat
  BY AnySeq DEF Shapes, Shaped, IsSeq
<1>3. confirmed'[c] = PromoteFold(Bases(c, m), pending[c], caught)
  BY <1>1 DEF Due, PromoteFold
<1> HIDE DEF caught
<1>4. PICK g : /\ PromoteRun(g, Len(fate[c]), Bases(c, m), pending[c], caught)
               /\ PromoteFold(Bases(c, m), pending[c], caught) = g[Len(fate[c])]
  BY <1>2, PromoteIsRun
<1>5. pending'[c] = [l \in Locals(c) |->
       IF Due(pending[c][l], caught) THEN Gone ELSE pending[c][l]]
  BY <1>1, <1>2 DEF Due, Shapes, Locals
<1>6. Syncs(c, m, g)
  BY <1>1, <1>3, <1>4, <1>5 DEF Syncs, caught
<1> QED BY <1>6

-----------------------------------------------------------------------------
(* Steps of a client, as what they do to its layers and its link.           *)
LinkSame(c) == toServer'[c] = toServer[c] /\ toClient'[c] = toClient[c]
BaseSame(c) == confirmed'[c] = confirmed[c] /\ caughtUp'[c] = caughtUp[c]
Apart(d) ==
  /\ pending'[d] = pending[d] /\ fate'[d] = fate[d]
  /\ LinkSame(d) /\ BaseSame(d) /\ owed'[d] = owed[d]

Kept(c, l) == pending'[c][l] = pending[c][l] /\ fate'[c][l] = fate[c][l]
AllKept(c, gone) == \A l \in Locals(c) \ gone : Kept(c, l)

\* A layer that is dropped, doomed or sealed.
Loses(c, l) ==
  \/ Kept(c, l)
  \/ St(c, l) = "repairing" /\ St(c, l)' = "gone" /\ fate'[c][l] = fate[c][l]
  \/ /\ St(c, l) = "queued" /\ St(c, l)' = "doomed" /\ fate'[c][l] = fate[c][l]
     /\ pending'[c][l].commit = pending[c][l].commit
  \/ /\ St(c, l) \in {"queued", "doomed", "sent"} /\ St(c, l)' = "repairing"
     /\ pending'[c][l].commit = pending[c][l].commit
     /\ pending'[c][l].gate.marker = 0 /\ fate'[c][l] = "rejected"

Retreats(c) ==
  /\ LinkSame(c) /\ BaseSame(c) /\ Len(fate'[c]) = Len(fate[c])
  /\ \A l \in Locals(c) : Loses(c, l)

Commits(c, tx) ==
  LET n == NextLocal(c) IN
  /\ LinkSame(c) /\ BaseSame(c) /\ n <= MaxLocal[c]
  /\ Len(fate'[c]) = n /\ \A l \in Locals(c) : Kept(c, l)
  /\ pending'[c][n].commit = Built(c, tx.op, tx.read)
  /\ \/ pending'[c][n].status = "queued" /\ fate'[c][n] = "open"
     \/ /\ pending'[c][n].status = "repairing" /\ fate'[c][n] = "rejected"
        /\ pending'[c][n].gate.marker = 0

Dispatches(c, l) ==
  /\ toClient'[c] = toClient[c] /\ BaseSame(c) /\ Len(fate'[c]) = Len(fate[c])
  /\ AllKept(c, {l}) /\ l \in Locals(c)
  /\ \A m \in Locals(c) : St(c, m) \in {"queued", "doomed"} => l <= m
  /\ St(c, l) = "queued" /\ St(c, l)' = "sent" /\ fate'[c][l] = fate[c][l]
  /\ pending'[c][l].commit = pending[c][l].commit
  /\ toServer'[c] = Append(toServer[c], pending[c][l].commit)

Takes(c, m) ==
  /\ toClient[c] # <<>> /\ m = toClient[c][1] /\ toClient'[c] = Tail(toClient[c])
  /\ toServer'[c] = toServer[c]

Ignores(c, m) ==
  /\ Takes(c, m) /\ BaseSame(c) /\ pending'[c] = pending[c] /\ fate'[c] = fate[c]
  /\ IF m.type = "sync" THEN ~Parkable(c) ELSE St(c, m.localSeq) # "sent"

Promotes(c, l, seq) ==
  \E p : /\ p.commit = pending[c][l].commit /\ p.seq = seq
         /\ confirmed'[c] = Promote(confirmed[c], p)

Heeds(c, m, l) ==
  /\ Takes(c, m) /\ m.type # "sync" /\ l \in Locals(c) /\ l = m.localSeq /\ St(c, l) = "sent"
  /\ caughtUp'[c] = caughtUp[c] /\ Len(fate'[c]) = Len(fate[c]) /\ AllKept(c, {l})
  /\ \/ /\ m.type = "accept" /\ Parkable(c) /\ caughtUp[c] < l
        /\ confirmed'[c] = confirmed[c] /\ fate'[c][l] = "accepted"
        /\ St(c, l)' = "parked" /\ pending'[c][l].seq = m.seq
        /\ pending'[c][l].commit = pending[c][l].commit
     \/ /\ m.type = "accept" /\ ~(Parkable(c) /\ caughtUp[c] < l)
        /\ fate'[c][l] = "accepted" /\ St(c, l)' = "gone"
        /\ Promotes(c, l, m.seq)
     \/ /\ m.type # "accept" /\ confirmed'[c] = confirmed[c]
        /\ fate'[c][l] = "rejected" /\ St(c, l)' = "repairing"
        /\ pending'[c][l].commit = pending[c][l].commit
        /\ pending'[c][l].gate.marker = l /\ pending'[c][l].gate.seq = m.seq

ClientMoves(c) ==
  \/ Retreats(c)
  \/ \E tx \in Tx[c] : Commits(c, tx)
  \/ \E l : Dispatches(c, l)
  \/ \E m : Ignores(c, m)
  \/ \E m, l : Heeds(c, m, l)
  \/ \E m, g : Takes(c, m) /\ m.type = "sync" /\ Parkable(c) /\ Syncs(c, m, g)

ServerSame ==
  /\ log' = log /\ dirty' = dirty /\ origin' = origin /\ scheduled' = scheduled
  /\ flushed' = flushed /\ owed' = owed

(* Layers and fates of a client have the same positions, 1 to the number   *)
(* of its commits.                                                         *)
LEMMA LocalsDomain ==
  ASSUME NEW c \in Client, Shapes
  PROVE  /\ DOMAIN pending[c] = Locals(c) /\ DOMAIN fate[c] = Locals(c)
         /\ IsSeq(pending[c]) /\ IsSeq(fate[c]) /\ IsSeq(toServer[c]) /\ IsSeq(toClient[c])
         /\ Len(pending[c]) = Len(fate[c]) /\ Len(fate[c]) \in Nat
  BY AnySeq DEF Shapes, Shaped, Locals, IsSeq

(* A commit adds one layer, queued or sealed at once, and moves nothing    *)
(* else.                                                                   *)
LEMMA CommitEffect ==
  ASSUME NEW c \in Client, NEW tx \in Tx[c], Shapes, Commit(c, tx)
  PROVE  Commits(c, tx)
<1> DEFINE n == NextLocal(c)
           commit == Built(c, tx.op, tx.read)
           entry == [commit |-> commit, status |-> "queued", seq |-> 0, gate |-> NoGate]
           dead == commit.layers \cap RejectedLayers(c) # {}
           x == IF dead THEN Repairing(entry, DeadGate(c, commit)) ELSE entry
           y == IF dead THEN "rejected" ELSE "open"
<1>1. /\ pending' = [pending EXCEPT ![c] = Append(@, x)]
      /\ fate' = [fate EXCEPT ![c] = Append(@, y)]
      /\ n <= MaxLocal[c] /\ LinkSame(c) /\ BaseSame(c)
  BY DEF Commit, LinkSame, BaseSame
<1>2. pending'[c] = Append(pending[c], x) /\ fate'[c] = Append(fate[c], y)
  BY <1>1 DEF Shapes
<1>3. /\ x.commit = commit
      /\ \/ x.status = "queued" /\ y = "open"
         \/ x.status = "repairing" /\ y = "rejected" /\ x.gate.marker = 0
  BY DEF Repairing, DeadGate, NoGate
<1> HIDE DEF x, y, commit
<1>4. /\ Len(fate[c]) \in Nat /\ Len(fate'[c]) = n
      /\ fate'[c][n] = y /\ \A l \in Locals(c) : fate'[c][l] = fate[c][l]
  BY <1>2, LocalsDomain, AppendSeq DEF Locals, NextLocal
<1>5. pending'[c][n] = x /\ \A l \in Locals(c) : pending'[c][l] = pending[c][l]
  BY <1>2, LocalsDomain, AppendSeq DEF Locals, NextLocal
<1> QED BY <1>1, <1>3, <1>4, <1>5 DEF Commits, Kept, commit

(* Replacing the layer of one commit.                                       *)
LEMMA ReplaceLayer ==
  ASSUME NEW c \in Client, Shapes, NEW l \in Locals(c), NEW q, NEW y,
         pending' = [pending EXCEPT ![c][l] = q],
         fate' = [fate EXCEPT ![c][l] = y] \/ (fate' = fate /\ y = fate[c][l])
  PROVE  /\ Len(fate'[c]) = Len(fate[c]) /\ AllKept(c, {l})
         /\ pending'[c][l] = q /\ fate'[c][l] = y
<1>1. /\ IsSeq(pending[c]) /\ IsSeq(fate[c])
      /\ l \in 1..Len(pending[c]) /\ l \in 1..Len(fate[c])
      /\ Len(pending[c]) = Len(fate[c])
  BY LocalsDomain DEF Locals
<1>2. pending'[c] = With(pending[c], l, q)
  BY DEF Shapes, With
<1>3. fate'[c] = With(fate[c], l, y) \/ (fate'[c] = fate[c] /\ y = fate[c][l])
  BY DEF Shapes, With
<1>4. \A i \in 1..Len(pending[c]) : pending'[c][i] = IF i = l THEN q ELSE pending[c][i]
  BY <1>1, <1>2, UpdateSeq
<1>5. /\ Len(fate'[c]) = Len(fate[c])
      /\ \A i \in 1..Len(fate[c]) : fate'[c][i] = IF i = l THEN y ELSE fate[c][i]
  <2>1. CASE fate'[c] = With(fate[c], l, y)
    BY <2>1, <1>1, UpdateSeq
  <2> QED BY <2>1, <1>3
<1> QED BY <1>1, <1>4, <1>5 DEF AllKept, Kept, Locals

(* Sending seals the first layer that waits, or puts its commit in flight. *)
LEMMA SendEffect ==
  ASSUME NEW c \in Client, Shapes, Send(c)
  PROVE  Retreats(c) \/ \E l : Dispatches(c, l)
<1>1. PICK l \in Unsent(c) :
        /\ \A m \in Unsent(c) : l <= m
        /\ LET p == pending[c][l]
               sealed == \/ p.status = "doomed"
                         \/ p.commit.layers \cap RejectedLayers(c) # {}
               gate == IF p.status = "doomed" THEN NoGate ELSE DeadGate(c, p.commit)
           IN  IF sealed
               THEN /\ pending' = [pending EXCEPT ![c][l] = Repairing(p, gate)]
                    /\ fate' = [fate EXCEPT ![c][l] = "rejected"]
                    /\ UNCHANGED toServer
               ELSE /\ pending' = [pending EXCEPT ![c][l].status = "sent"]
                    /\ toServer' = [toServer EXCEPT ![c] = Append(@, p.commit)]
                    /\ UNCHANGED fate
  BY DEF Send
<1>2. l \in Locals(c) /\ St(c, l) \in {"queued", "doomed"}
  BY LocalsDomain DEF Unsent, WithStatus, St
<1>3. \A m \in Locals(c) : St(c, m) \in {"queued", "doomed"} => l <= m
  BY <1>1, LocalsDomain DEF Unsent, WithStatus, St
<1>4. toClient' = toClient /\ BaseSame(c)
  BY DEF Send, BaseSame
<1> DEFINE p == pending[c][l]
           sealed == p.status = "doomed" \/ p.commit.layers \cap RejectedLayers(c) # {}
           gate == IF p.status = "doomed" THEN NoGate ELSE DeadGate(c, p.commit)
<1>5. CASE sealed
  <2> DEFINE q == Repairing(p, gate)
  <2>1. /\ pending' = [pending EXCEPT ![c][l] = q]
        /\ fate' = [fate EXCEPT ![c][l] = "rejected"] /\ toServer' = toServer
    BY <1>1, <1>5
  <2>2. q.status = "repairing" /\ q.commit = p.commit /\ q.gate.marker = 0
    BY DEF Repairing, DeadGate, NoGate
  <2> HIDE DEF q
  <2>3. /\ Len(fate'[c]) = Len(fate[c]) /\ AllKept(c, {l})
        /\ pending'[c][l] = q /\ fate'[c][l] = "rejected"
    BY <1>2, <2>1, ReplaceLayer
  <2>4. Loses(c, l)
    BY <1>2, <2>2, <2>3 DEF Loses, St
  <2> QED BY <1>4, <2>1, <2>3, <2>4 DEF Retreats, LinkSame, AllKept, Loses
<1>6. CASE ~sealed
  <2> DEFINE q == [p EXCEPT !.status = "sent"]
  <2>1. /\ pending' = [pending EXCEPT ![c][l].status = "sent"] /\ fate' = fate
        /\ toServer' = [toServer EXCEPT ![c] = Append(toServer[c], p.commit)]
    BY <1>1, <1>6
  <2>2. pending' = [pending EXCEPT ![c][l] = q]
    BY <2>1
  <2>3. q.status = "sent" /\ q.commit = p.commit
    OBVIOUS
  <2> HIDE DEF q
  <2>4. /\ Len(fate'[c]) = Len(fate[c]) /\ AllKept(c, {l})
        /\ pending'[c][l] = q /\ fate'[c][l] = fate[c][l]
    BY <1>2, <2>1, <2>2, ReplaceLayer
  <2>5. toServer'[c] = Append(toServer[c], p.commit)
    BY <2>1 DEF Shapes
  <2>6. St(c, l) = "queued"
    BY <1>2, <1>6 DEF St
  <2>7. Dispatches(c, l)
    BY <1>2, <1>3, <1>4, <2>1, <2>3, <2>4, <2>5, <2>6 DEF Dispatches, St
  <2> QED BY <2>7
<1> QED BY <1>5, <1>6

(* Dropping a layer loses it, dooms what waits over it and rejects what is *)
(* in flight over it.                                                      *)
LEMMA DropEffect ==
  ASSUME NEW c \in Client, NEW l \in RejectedLayers(c), Shapes, Tracked(c), Drop(c, l)
  PROVE  Retreats(c)
<1>1. l \in Locals(c) /\ St(c, l) = "repairing"
  BY LocalsDomain DEF RejectedLayers, WithStatus, St
<1>2. /\ pending'[c] = [m \in Locals(c) |->
           IF m = l THEN Gone ELSE Cascaded(l, pending[c][m])]
      /\ fate'[c] = [m \in Locals(c) |->
           IF m \in WithStatus(c, {"sent"}) /\ l \in pending[c][m].commit.layers
           THEN "rejected" ELSE fate[c][m]]
  BY LocalsDomain DEF Drop, Shapes
<1>3. LinkSame(c) /\ BaseSame(c)
  BY DEF Drop, LinkSame, BaseSame
<1>4. Len(fate'[c]) = Len(fate[c])
  <2> DEFINE n == Len(fate[c])
             f == fate'[c]
  <2>1. n \in Nat /\ DOMAIN f = 1..n /\ f = [m \in 1..n |-> f[m]]
    BY <1>2, LocalsDomain DEF Locals
  <2> HIDE DEF n, f
  <2>2. Len(f) = n
    BY <2>1, FunSeq
  <2> QED BY <2>2 DEF n, f
<1>5. ASSUME NEW m \in Locals(c) PROVE Loses(c, m)
  <2> DEFINE p == pending[c][m]
  <2>1. CASE m = l
    <3>1. pending'[c][m].status = "gone"
      BY <2>1, <1>1, <1>2 DEF Gone
    <3>2. fate'[c][m] = fate[c][m]
      BY <2>1, <1>1, <1>2 DEF WithStatus, St
    <3> QED BY <2>1, <1>1, <3>1, <3>2 DEF Loses, St
  <2>2. CASE m # l /\ p.status = "sent" /\ l \in p.commit.layers
    <3>1. pending'[c][m] = Repairing(p, NoGate)
      BY <2>2, <1>2 DEF Cascaded
    <3>2. /\ pending'[c][m].status = "repairing" /\ pending'[c][m].commit = p.commit
          /\ pending'[c][m].gate.marker = 0
      BY <3>1 DEF Repairing, NoGate
    <3>3. fate'[c][m] = "rejected"
      BY <2>2, <1>2, LocalsDomain DEF WithStatus
    <3> QED BY <2>2, <3>2, <3>3 DEF Loses, St
  <2>3. CASE m # l /\ p.status = "queued" /\ l \in p.commit.layers
    <3>1. pending'[c][m] = [p EXCEPT !.status = "doomed"]
      BY <2>3, <1>2 DEF Cascaded
    <3>2. pending'[c][m].status = "doomed" /\ pending'[c][m].commit = p.commit
      <4>1. p.status = "queued"
        BY <2>3
      <4> HIDE DEF p
      <4> QED BY <3>1, <4>1
    <3>3. fate'[c][m] = fate[c][m]
      BY <2>3, <1>2 DEF WithStatus
    <3> QED BY <2>3, <3>2, <3>3 DEF Loses, St
  <2>4. CASE m # l /\ ~(p.status \in {"sent", "queued"} /\ l \in p.commit.layers)
    <3>1. pending'[c][m] = p
      BY <2>4, <1>2 DEF Cascaded
    <3>2. fate'[c][m] = fate[c][m]
      BY <2>4, <1>2 DEF WithStatus
    <3> QED BY <3>1, <3>2 DEF Loses, Kept
  <2> QED BY <2>1, <2>2, <2>3, <2>4
<1> QED BY <1>3, <1>4, <1>5 DEF Retreats

(* What a replica makes of a message: nothing, a verdict on a layer that   *)
(* was sent, or a frame.                                                   *)
LEMMA ReceiveEffect ==
  ASSUME NEW c \in Client, Shapes, Tracked(c), DOMAIN confirmed = Client,
         DOMAIN caughtUp = Client, Receive(c)
  PROVE  \/ \E m : Ignores(c, m)
         \/ \E m, l : Heeds(c, m, l)
         \/ \E m, g : Takes(c, m) /\ m.type = "sync" /\ Parkable(c) /\ Syncs(c, m, g)
<1> DEFINE m == Head(toClient[c])
<1>1. /\ toClient[c] # <<>> /\ toClient'[c] = Tail(toClient[c])
      /\ IF m.type = "sync" THEN ReceiveSync(c, m) ELSE ReceiveVerdict(c, m)
      /\ toServer' = toServer
  BY DEF Receive, Shapes
<1>2. Takes(c, m)
  BY <1>1, LocalsDomain, TailSeq DEF Takes
<1>3. m.type # "sync" => m.localSeq \in Locals(c)
  <2>1. m = toClient[c][1] /\ 1 \in 1..Len(toClient[c])
    BY <1>1, LocalsDomain, TailSeq
  <2> QED BY <2>1 DEF Verdicts, Tracked, Named
<1> HIDE DEF m
<1>4. CASE /\ UNCHANGED replicaVars
           /\ IF m.type = "sync" THEN ~Parkable(c) ELSE St(c, m.localSeq) # "sent"
  BY <1>2, <1>4 DEF Ignores, BaseSame, replicaVars
<1>5. CASE m.type = "sync" /\ Parkable(c)
  BY <1>1, <1>2, <1>5, SyncEffect
<1>6. CASE m.type # "sync" /\ St(c, m.localSeq) = "sent"
  <2>1. PICK l \in Locals(c) : l = m.localSeq
    BY <1>3, <1>6
  <2> DEFINE p == pending[c][l]
  <2>2. CASE m.type = "accept"
    <3> DEFINE q == [p EXCEPT !.status = "parked", !.seq = m.seq]
    <3>1. /\ fate' = [fate EXCEPT ![c][l] = "accepted"] /\ caughtUp' = caughtUp
          /\ \/ /\ Parkable(c) /\ caughtUp[c] < l
                /\ pending' = [pending EXCEPT ![c][l] = q] /\ confirmed' = confirmed
             \/ /\ ~(Parkable(c) /\ caughtUp[c] < l)
                /\ confirmed' = [confirmed EXCEPT ![c] = Promote(@, q)]
                /\ pending' = [pending EXCEPT ![c][l] = Gone]
      BY <1>1, <1>6, <2>1, <2>2 DEF ReceiveVerdict, ReceiveAccept, St
    <3>2. q.status = "parked" /\ q.seq = m.seq /\ q.commit = p.commit
      OBVIOUS
    <3> HIDE DEF q
    <3>3. CASE /\ Parkable(c) /\ caughtUp[c] < l
               /\ pending' = [pending EXCEPT ![c][l] = q] /\ confirmed' = confirmed
      <4>1. /\ Len(fate'[c]) = Len(fate[c]) /\ AllKept(c, {l})
            /\ pending'[c][l] = q /\ fate'[c][l] = "accepted"
        <5>1. /\ pending' = [pending EXCEPT ![c][l] = q]
              /\ fate' = [fate EXCEPT ![c][l] = "accepted"]
          BY <3>1, <3>3
        <5> QED BY <5>1, ReplaceLayer
      <4>2. Heeds(c, m, l)
        BY <1>2, <1>6, <2>1, <2>2, <3>1, <3>2, <3>3, <4>1 DEF Heeds, St
      <4> QED BY <4>2
    <3>4. CASE /\ ~(Parkable(c) /\ caughtUp[c] < l)
               /\ confirmed' = [confirmed EXCEPT ![c] = Promote(@, q)]
               /\ pending' = [pending EXCEPT ![c][l] = Gone]
      <4>1. /\ Len(fate'[c]) = Len(fate[c]) /\ AllKept(c, {l})
            /\ pending'[c][l] = Gone /\ fate'[c][l] = "accepted"
        <5>1. /\ pending' = [pending EXCEPT ![c][l] = Gone]
              /\ fate' = [fate EXCEPT ![c][l] = "accepted"]
          BY <3>1, <3>4
        <5> QED BY <5>1, ReplaceLayer
      <4>2. confirmed'[c] = Promote(confirmed[c], q)
        BY <3>4
      <4>3. Gone.status = "gone"
        BY DEF Gone
      <4>4. Promotes(c, l, m.seq)
        BY <3>2, <4>2 DEF Promotes
      <4>5. ~(Parkable(c) /\ caughtUp[c] < l) /\ caughtUp'[c] = caughtUp[c]
        BY <3>1, <3>4
      <4>6. Heeds(c, m, l)
        BY <1>2, <1>6, <2>1, <2>2, <4>1, <4>3, <4>4, <4>5 DEF Heeds, St
      <4> QED BY <4>6
    <3> QED BY <3>1, <3>3, <3>4
  <2>3. CASE m.type # "accept"
    <3> DEFINE gate == [NoGate EXCEPT !.marker = l, !.seq = m.seq]
               q == Repairing(p, gate)
    <3>1. /\ fate' = [fate EXCEPT ![c][l] = "rejected"] /\ caughtUp' = caughtUp
          /\ pending' = [pending EXCEPT ![c][l] = q] /\ confirmed' = confirmed
      BY <1>1, <1>6, <2>1, <2>3 DEF ReceiveVerdict, ReceiveReject, St
    <3>2. /\ q.status = "repairing" /\ q.commit = p.commit
          /\ q.gate.marker = l /\ q.gate.seq = m.seq
      <4>1. gate.marker = l /\ gate.seq = m.seq
        BY DEF NoGate
      <4> HIDE DEF gate
      <4> QED BY <4>1 DEF Repairing
    <3> HIDE DEF q
    <3>3. /\ Len(fate'[c]) = Len(fate[c]) /\ AllKept(c, {l})
          /\ pending'[c][l] = q /\ fate'[c][l] = "rejected"
      <4>1. /\ pending' = [pending EXCEPT ![c][l] = q]
            /\ fate' = [fate EXCEPT ![c][l] = "rejected"]
        BY <3>1
      <4> QED BY <4>1, ReplaceLayer
    <3>4. Heeds(c, m, l)
      BY <1>2, <1>6, <2>1, <2>3, <3>1, <3>2, <3>3 DEF Heeds, St
    <3> QED BY <3>4
  <2> QED BY <2>2, <2>3
<1> QED BY <1>1, <1>4, <1>5, <1>6 DEF ReceiveSync, ReceiveVerdict, St

Domains == DOMAIN owed = Client /\ DOMAIN caughtUp = Client /\ DOMAIN confirmed = Client
           /\ DOMAIN origin = Doc

(* Each action of a client is one of its moves; the server and the other   *)
(* clients stay as they are.                                               *)
LEMMA StepEffect ==
  ASSUME NEW c \in Client, Shapes, Tracked(c), Domains, StepOf(c)
  PROVE  /\ ClientMoves(c) /\ ServerSame /\ Domains'
         /\ \A d \in Client \ {c} : Apart(d)
<1>1. ClientMoves(c)
  <2>1. CASE \E tx \in Tx[c] : Commit(c, tx)
    BY <2>1, CommitEffect DEF ClientMoves
  <2>2. CASE Send(c)
    BY <2>2, SendEffect DEF ClientMoves
  <2>3. CASE Receive(c)
    BY <2>3, ReceiveEffect DEF ClientMoves, Domains
  <2>4. CASE FinishRejection(c) \/ RepairTimeout(c)
    BY <2>4, DropEffect DEF ClientMoves, FinishRejection, RepairTimeout
  <2> QED BY <2>1, <2>2, <2>3, <2>4 DEF StepOf
<1>2. ServerSame
  BY DEF StepOf, Commit, Send, Receive, FinishRejection, RepairTimeout, Drop,
         ServerSame, serverVars
<1>3. /\ \/ confirmed' = confirmed
         \/ \E b : confirmed' = [confirmed EXCEPT ![c] = b]
      /\ \/ caughtUp' = caughtUp
         \/ \E k : caughtUp' = [caughtUp EXCEPT ![c] = k]
  <2>1. CASE Receive(c)
    <3>1. PICK m : IF m.type = "sync" THEN ReceiveSync(c, m) ELSE ReceiveVerdict(c, m)
      BY <2>1 DEF Receive
    <3>2. CASE UNCHANGED replicaVars
      BY <3>2 DEF replicaVars
    <3>3. CASE ReceiveAccept(c, m.localSeq, m.seq) \/ ReceiveReject(c, m.localSeq, m.seq)
      BY <3>3, Zenon DEF ReceiveAccept, ReceiveReject
    <3>4. CASE Parkable(c) /\ ReceiveSync(c, m)
      BY <3>4, Zenon DEF ReceiveSync
    <3> QED BY <3>1, <3>2, <3>3, <3>4 DEF ReceiveVerdict, ReceiveSync
  <2>2. CASE ~Receive(c)
    BY <2>2 DEF StepOf, Commit, Send, FinishRejection, RepairTimeout, Drop
  <2> QED BY <2>1, <2>2
<1>4. /\ DOMAIN confirmed' = Client /\ DOMAIN caughtUp' = Client
      /\ \A d \in Client \ {c} : BaseSame(d)
  BY <1>3 DEF Domains, BaseSame
<1>5. Domains'
  BY <1>2, <1>4 DEF Domains, ServerSame
<1>6. \A d \in Client \ {c} : Apart(d)
  BY <1>2, <1>4, StepsAreLocal DEF Apart, LinkSame, ServerSame
<1> QED BY <1>1, <1>2, <1>5, <1>6

-----------------------------------------------------------------------------
(* What a flush does to the link of each client.                            *)
Flushes(d) ==
  /\ toServer'[d] = toServer[d] /\ BaseSame(d)
  /\ pending'[d] = pending[d] /\ fate'[d] = fate[d] /\ owed'[d] = 0
  /\ \/ toClient'[d] = toClient[d] /\ Upserts(d) = {} /\ owed[d] = 0
     \/ toClient'[d] = Append(toClient[d], Frame(d))

(* A flush empties the window and puts a frame behind all that is in       *)
(* flight, or nothing.                                                     *)
LEMMA FlushEffect ==
  ASSUME Shapes, Flush
  PROVE  /\ log' = log /\ dirty' = {} /\ flushed' = HeadSeq /\ scheduled' = FALSE
         /\ origin' = [d \in Doc |-> None]
         /\ DOMAIN owed' = Client /\ confirmed' = confirmed /\ caughtUp' = caughtUp
         /\ \A d \in Client : Flushes(d)
<1>1. \A d \in Client : /\ toServer'[d] = toServer[d] /\ BaseSame(d)
                        /\ pending'[d] = pending[d] /\ fate'[d] = fate[d] /\ owed'[d] = 0
  BY DEF Flush, replicaVars, BaseSame
<1>2. \A d \in Client : \/ toClient'[d] = toClient[d] /\ Upserts(d) = {} /\ owed[d] = 0
                        \/ toClient'[d] = Append(toClient[d], Frame(d))
  BY DEF Flush
<1> QED BY <1>1, <1>2 DEF Flush, Flushes, replicaVars

-----------------------------------------------------------------------------
(* Shapes and ranges.                                                       *)
Places(c) == 1..Len(toClient[c])

WellFormed(c, m) ==
  /\ \E tx \in Tx[c] : m.op = tx.op /\ m.read = tx.read
  /\ m.layers \subseteq 1..(m.localSeq - 1)

LayerOK(c, l) ==
  /\ fate[c][l] \in {"open", "accepted", "rejected"} /\ St(c, l) \in Status
  /\ St(c, l) # "gone" => WellFormed(c, pending[c][l].commit)
  /\ St(c, l) = "parked" => pending[c][l].seq \in 1..HeadSeq
  /\ St(c, l) = "repairing" =>
       \/ pending[c][l].gate.marker = 0
       \/ pending[c][l].gate.marker = l /\ pending[c][l].gate.seq \in 0..HeadSeq
  /\ fate[c][l] = "open" => St(c, l) \in {"queued", "doomed", "sent"}

MessageOK(c, m) ==
  \/ m.type = "accept" /\ m.seq \in 1..HeadSeq
  \/ m.type = "reject" /\ m.seq \in 0..HeadSeq
  \/ /\ m.type = "sync" /\ m.marker \in 0..Len(fate[c])
     /\ \A u \in m.upserts : u.doc \in Watched[c] /\ u.seq \in 0..HeadSeq

BasesOK(b) == DOMAIN b = Doc /\ \A d \in Doc : b[d].seq \in -1..HeadSeq

TypedOf(c) ==
  /\ Len(fate[c]) <= MaxLocal[c]
  /\ owed[c] \in 0..Len(fate[c]) /\ caughtUp[c] \in 0..Len(fate[c])
  /\ \A l \in Locals(c) : LayerOK(c, l)
  /\ \A m \in Sent(c) : WellFormed(c, m)
  /\ \A i \in Places(c) : MessageOK(c, toClient[c][i])
  /\ BasesOK(confirmed[c])

Typed ==
  /\ Domains
  /\ dirty \subseteq Doc /\ scheduled \in BOOLEAN /\ flushed \in 0..HeadSeq
  /\ \A c \in Client : TypedOf(c)

\* What a commit of c writes and reads.
LEMMA WellFormedOp ==
  ASSUME NEW c \in Client, NEW m, WellFormed(c, m)
  PROVE  /\ m.op.doc \in Doc /\ m.op.kind \in {"set", "put", "add"}
         /\ m.read.fields \subseteq Field
         /\ m.read.doc \in Doc \/ (m.read.doc = None /\ m.read.fields = {})
  BY TransactionsAssumption DEF WellFormed

(* Promotion touches the base of one document, and only when it is older   *)
(* than the accepted commit.                                               *)
LEMMA PromoteStep ==
  ASSUME NEW b, BasesOK(b), NEW p, p.seq \in 0..HeadSeq, p.commit.op.doc \in Doc
  PROVE  /\ BasesOK(Promote(b, p))
         /\ \A d \in Doc : Promote(b, p)[d].seq >= b[d].seq
         /\ \A d \in Doc : d # p.commit.op.doc => Promote(b, p)[d] = b[d]
         /\ LET d == p.commit.op.doc IN
              IF b[d].seq >= p.seq THEN Promote(b, p)[d] = b[d]
              ELSE /\ Promote(b, p)[d].seq = p.seq
                   /\ Promote(b, p)[d].value = Apply(b[d].value, p.commit.op)
<1> DEFINE d == p.commit.op.doc
           q == Promote(b, p)
           new == [seq |-> p.seq, value |-> Apply(b[d].value, p.commit.op)]
<1>1. CASE b[d].seq >= p.seq
  <2>1. Promote(b, p) = b
    BY <1>1 DEF Promote
  <2>2. \A e \in Doc : b[e].seq >= b[e].seq
    BY DEF BasesOK
  <2> QED BY <1>1, <2>1, <2>2
<1>2. CASE ~(b[d].seq >= p.seq)
  <2>1. q = [b EXCEPT ![d] = new]
    BY <1>2 DEF Promote
  <2>2. new.seq = p.seq /\ new.value = Apply(b[d].value, p.commit.op)
    OBVIOUS
  <2>3. new.seq \in -1..HeadSeq /\ new.seq >= b[d].seq
    BY <1>2 DEF BasesOK
  <2> HIDE DEF new, q
  <2>4. q[d] = new /\ \A e \in Doc : e # d => q[e] = b[e]
    BY <2>1 DEF BasesOK
  <2>5. DOMAIN q = Doc
    BY <2>1 DEF BasesOK
  <2>6. \A e \in Doc : q[e].seq \in -1..HeadSeq /\ q[e].seq >= b[e].seq
    BY <2>3, <2>4 DEF BasesOK
  <2>7. BasesOK(q)
    BY <2>5, <2>6 DEF BasesOK
  <2>8. q[d].seq = p.seq /\ q[d].value = Apply(b[d].value, p.commit.op)
    BY <2>2, <2>4
  <2>9. q = Promote(b, p)
    BY DEF q
  <2> QED BY <1>2, <2>4, <2>6, <2>7, <2>8, <2>9
<1> QED BY <1>1, <1>2

(* Induction along a run of n steps.                                        *)
LEMMA RunInduction ==
  ASSUME NEW n \in Nat, NEW T, 0 \in T,
         \A k \in Nat : k < n /\ k \in T => k + 1 \in T
  PROVE  \A k \in 0..n : k \in T
<1> DEFINE S == {k \in Nat : k <= n => k \in T}
<1>1. 0 \in S
  OBVIOUS
<1>2. \A k \in Nat : k \in S => k + 1 \in S
  OBVIOUS
<1> HIDE DEF S
<1>3. \A k \in Nat : k \in S
  BY <1>1, <1>2, SetInduction
<1> QED BY <1>3 DEF S

(* Bases only rise along a frame, up to every layer it brings to promotion. *)
LEMMA RunRises ==
  ASSUME NEW n \in Nat, NEW bases, BasesOK(bases), NEW layers, NEW caught, NEW g,
         PromoteRun(g, n, bases, layers, caught),
         \A l \in 1..n : Due(layers[l], caught) =>
           layers[l].seq \in 0..HeadSeq /\ layers[l].commit.op.doc \in Doc
  PROVE  /\ \A k \in 0..n : BasesOK(g[k])
         /\ \A k \in 0..n : \A d \in Doc : g[k][d].seq >= bases[d].seq
         /\ \A k \in 0..n : \A l \in 1..k : Due(layers[l], caught) =>
              g[k][layers[l].commit.op.doc].seq >= layers[l].seq
<1> DEFINE Rises(k) ==
      /\ BasesOK(g[k]) /\ \A d \in Doc : g[k][d].seq >= bases[d].seq
      /\ \A l \in 1..k : Due(layers[l], caught) =>
           g[k][layers[l].commit.op.doc].seq >= layers[l].seq
  T == {k \in 0..n : Rises(k)}
<1>1. 0 \in T
  <2>1. g[0] = bases
    BY DEF PromoteRun
  <2>2. \A d \in Doc : bases[d].seq >= bases[d].seq
    BY DEF BasesOK
  <2> QED BY <2>1, <2>2
<1>2. ASSUME NEW k \in Nat, k < n, k \in T PROVE k + 1 \in T
  <2> DEFINE p == layers[k + 1]
  <2>1. /\ k + 1 \in 1..n /\ k + 1 \in 0..n /\ k \in 0..n /\ k + 1 # 0
        /\ \A l \in 1..(k + 1) : l \in 1..k \/ l = k + 1
        /\ \A l \in 1..(k + 1) : l \in 1..n
    BY <1>2
  <2>2. g[k + 1] = IF Due(p, caught) THEN Promote(g[k], p) ELSE g[k]
    BY <2>1, (k + 1) - 1 = k DEF PromoteRun
  <2>3. Rises(k)
    BY <1>2
  <2>4. CASE Due(p, caught)
    <3>1. p.seq \in 0..HeadSeq /\ p.commit.op.doc \in Doc
      BY <2>1, <2>4
    <3>2. g[k + 1] = Promote(g[k], p)
      BY <2>2, <2>4
    <3>3. /\ BasesOK(g[k + 1])
          /\ \A d \in Doc : g[k + 1][d].seq >= g[k][d].seq
          /\ g[k + 1][p.commit.op.doc].seq >= p.seq
      <4> HIDE DEF p
      <4>1. /\ BasesOK(g[k + 1])
            /\ \A d \in Doc : g[k + 1][d].seq >= g[k][d].seq
            /\ LET d == p.commit.op.doc IN
                 IF g[k][d].seq >= p.seq THEN g[k + 1][d] = g[k][d]
                 ELSE g[k + 1][d].seq = p.seq
        BY <2>3, <3>1, <3>2, PromoteStep
      <4> QED BY <3>1, <4>1
    <3>4. \A d \in Doc : /\ g[k + 1][d].seq \in Int /\ g[k][d].seq \in Int
                         /\ bases[d].seq \in Int
      BY SMTT(30), <2>3, <3>3 DEF BasesOK
    <3>5. \A d \in Doc : g[k + 1][d].seq >= bases[d].seq
      BY <2>3, <3>3, <3>4
    <3>6. ASSUME NEW l \in 1..(k + 1), Due(layers[l], caught)
          PROVE  g[k + 1][layers[l].commit.op.doc].seq >= layers[l].seq
      <4>1. layers[l].seq \in Int /\ layers[l].commit.op.doc \in Doc
        BY <2>1, <3>6
      <4>2. CASE l = k + 1
        BY <3>3, <4>2
      <4>3. CASE l \in 1..k
        BY SMTT(30), <2>3, <3>3, <3>4, <3>6, <4>1, <4>3
      <4> QED BY <2>1, <4>2, <4>3
    <3> QED BY <2>1, <3>3, <3>5, <3>6
  <2>5. CASE ~Due(p, caught)
    <3>1. g[k + 1] = g[k]
      BY <2>2, <2>5
    <3> QED BY <2>1, <2>3, <2>5, <3>1
  <2> QED BY <2>4, <2>5
<1> HIDE DEF T
<1>3. \A k \in 0..n : k \in T
  BY <1>1, <1>2, RunInduction
<1> QED BY <1>3 DEF T

(* A frame or verdict leaves its place to the next.                         *)
LEMMA TakesPlaces ==
  ASSUME NEW c \in Client, Shapes, NEW m, Takes(c, m)
  PROVE  /\ Len(toClient[c]) \in Nat /\ Len(toClient'[c]) = Len(toClient[c]) - 1
         /\ 1 \in Places(c) /\ toClient[c][1] = m
         /\ \A i \in Places(c)' : i + 1 \in Places(c) /\ toClient'[c][i] = toClient[c][i + 1]
         /\ \A i \in Places(c) :
              i = 1 \/ (i - 1 \in Places(c)' /\ toClient'[c][i - 1] = toClient[c][i])
<1>1. /\ Len(toClient[c]) \in Nat \ {0} /\ Len(toClient'[c]) = Len(toClient[c]) - 1
      /\ \A i \in 1..Len(toClient'[c]) : toClient'[c][i] = toClient[c][i + 1]
      /\ m = toClient[c][1]
  BY LocalsDomain, TailSeq DEF Takes
<1>2. \A i \in Places(c)' : i + 1 \in Places(c) /\ toClient'[c][i] = toClient[c][i + 1]
  BY <1>1 DEF Places
<1>3. ASSUME NEW i \in Places(c), i # 1
      PROVE  i - 1 \in Places(c)' /\ toClient'[c][i - 1] = toClient[c][i]
  <2>1. i - 1 \in 1..Len(toClient'[c]) /\ (i - 1) + 1 = i
    BY <1>1, <1>3 DEF Places
  <2> QED BY <1>1, <2>1 DEF Places
<1> QED BY <1>1, <1>2, <1>3 DEF Places

(* A message put in flight takes the last place.                            *)
LEMMA AppendPlaces ==
  ASSUME NEW c \in Client, Shapes, NEW m, toClient'[c] = Append(toClient[c], m)
  PROVE  /\ Len(toClient[c]) \in Nat /\ Len(toClient'[c]) = Len(toClient[c]) + 1
         /\ Places(c)' = Places(c) \cup {Len(toClient[c]) + 1}
         /\ \A i \in Places(c) : toClient'[c][i] = toClient[c][i]
         /\ toClient'[c][Len(toClient[c]) + 1] = m
  BY LocalsDomain, AppendSeq DEF Places

(* What is at the server, after the head is taken or one is put.            *)
LEMMA TailSent ==
  ASSUME NEW c \in Client, Shapes, toServer[c] # <<>>, toServer'[c] = Tail(toServer[c])
  PROVE  Sent(c)' \subseteq Sent(c)
<1>1. Sent(c) = {Tail(toServer[c])[i] : i \in 1..Len(Tail(toServer[c]))} \cup {Head(toServer[c])}
  BY LocalsDomain, TailElems DEF Sent
<1> QED BY <1>1 DEF Sent

(* A commit put in flight is at the server besides all that was.           *)
LEMMA AppendSent ==
  ASSUME NEW c \in Client, Shapes, NEW m, toServer'[c] = Append(toServer[c], m)
  PROVE  Sent(c)' = Sent(c) \cup {m}
  BY LocalsDomain, AppendElems DEF Sent

(* Ranges only widen.                                                       *)
Grows(c) ==
  /\ Len(fate[c]) \in Nat /\ Len(fate'[c]) \in Nat /\ Len(fate[c]) <= Len(fate'[c])
  /\ HeadSeq \in Nat /\ HeadSeq' \in Nat /\ HeadSeq <= HeadSeq'

(* A message that was well shaped stays so while fates and the log grow.   *)
LEMMA MessageGrows ==
  ASSUME NEW c \in Client, Grows(c), NEW i, NEW j, MessageOK(c, toClient[c][j]),
         toClient'[c][i] = toClient[c][j]
  PROVE  MessageOK(c, toClient[c][i])'
  BY DEF Grows, MessageOK

(* Commits in flight stay what their transactions made them.               *)
LEMMA WellFormedStays ==
  ASSUME NEW c, \A m \in Sent(c) : WellFormed(c, m), Sent(c)' \subseteq Sent(c)
  PROVE  \A m \in Sent(c)' : WellFormed(c, m)'
<1> SUFFICES ASSUME NEW m \in Sent(c)' PROVE WellFormed(c, m)'
  OBVIOUS
<1>1. WellFormed(c, m)
  OBVIOUS
<1> QED BY <1>1 DEF WellFormed

(* A layer that is left alone stays well shaped while the log grows.       *)
LEMMA LayerGrows ==
  ASSUME NEW c \in Client, Grows(c), NEW l, LayerOK(c, l), Kept(c, l)
  PROVE  LayerOK(c, l)'
  BY DEF Grows, LayerOK, Kept, St, WellFormed

(* Bases stay in range while the log grows.                                *)
LEMMA BasesGrow ==
  ASSUME HeadSeq \in Nat, HeadSeq' \in Nat, HeadSeq <= HeadSeq', NEW b, BasesOK(b)
  PROVE  BasesOK(b)'
  BY DEF BasesOK

(* Replica and link of a client that takes no part in a step keep their    *)
(* shapes.                                                                 *)
LEMMA ApartTyped ==
  ASSUME NEW c \in Client, TypedOf(c), Apart(c), Grows(c)
  PROVE  TypedOf(c)'
<1>1. /\ Locals(c)' = Locals(c) /\ Sent(c)' = Sent(c) /\ Places(c)' = Places(c)
      /\ \A l \in Locals(c) : Kept(c, l)
  BY DEF Apart, LinkSame, Locals, Sent, Places, Kept
<1>2. \A l \in Locals(c)' : LayerOK(c, l)'
  BY <1>1, LayerGrows DEF TypedOf
<1>3. \A i \in Places(c)' : MessageOK(c, toClient[c][i])'
  <2>1. \A i \in Places(c) : MessageOK(c, toClient[c][i]) /\ toClient'[c][i] = toClient[c][i]
    BY DEF TypedOf, Apart, LinkSame
  <2> QED BY <1>1, <2>1, MessageGrows
<1>4. BasesOK(confirmed[c])'
  BY BasesGrow DEF Grows, TypedOf, Apart, BaseSame
<1>5. \A m \in Sent(c)' : WellFormed(c, m)'
  BY <1>1 DEF TypedOf, WellFormed
<1> QED BY <1>2, <1>3, <1>4, <1>5 DEF TypedOf, Apart, BaseSame

(* A client keeps the shapes of its layers, its link and its bases         *)
(* whatever it does.                                                       *)
LEMMA MovesTyped ==
  ASSUME NEW c \in Client, Shapes, Shapes', Tracked(c), TypedOf(c), ServerSame, ClientMoves(c)
  PROVE  TypedOf(c)'
<1>1. /\ Len(fate[c]) \in Nat /\ Len(fate'[c]) \in Nat /\ Locals(c) = 1..Len(fate[c])
      /\ Locals(c)' = 1..Len(fate'[c])
      /\ HeadSeq' = HeadSeq /\ HeadSeq \in Nat /\ owed' = owed
  BY AnySeq DEF Shapes, Shaped, IsSeq, Locals, ServerSame, HeadSeq
<1>2. /\ \A l \in Locals(c) : LayerOK(c, l)
      /\ \A m \in Sent(c) : WellFormed(c, m)
      /\ \A i \in Places(c) : MessageOK(c, toClient[c][i])
      /\ Len(fate[c]) <= MaxLocal[c] /\ BasesOK(confirmed[c])
      /\ owed[c] \in 0..Len(fate[c]) /\ caughtUp[c] \in 0..Len(fate[c])
  BY DEF TypedOf
<1>3. ASSUME LinkSame(c), BaseSame(c), Len(fate[c]) <= Len(fate'[c]),
             Len(fate'[c]) <= MaxLocal[c], \A l \in Locals(c)' : LayerOK(c, l)'
      PROVE  TypedOf(c)'
  <2>1. Grows(c)
    BY <1>1, <1>3 DEF Grows
  <2>2. Places(c)' = Places(c) /\ \A i \in Places(c) : toClient'[c][i] = toClient[c][i]
    BY <1>3 DEF LinkSame, Places
  <2>3. \A i \in Places(c)' : MessageOK(c, toClient[c][i])'
    BY <1>2, <2>1, <2>2, MessageGrows
  <2>4. \A m \in Sent(c)' : WellFormed(c, m)'
    <3>1. Sent(c)' = Sent(c)
      BY <1>3 DEF LinkSame, Sent
    <3> QED BY <1>2, <3>1, WellFormedStays
  <2>5. BasesOK(confirmed[c])'
    BY <1>1, <1>2, <1>3 DEF BaseSame, BasesOK
  <2>6. owed'[c] \in 0..Len(fate'[c]) /\ caughtUp'[c] \in 0..Len(fate'[c])
    BY <1>1, <1>2, <1>3 DEF BaseSame
  <2> QED BY <1>3, <2>3, <2>4, <2>5, <2>6 DEF TypedOf
<1>4. CASE Retreats(c)
  <2>1. Locals(c)' = Locals(c) /\ Len(fate'[c]) = Len(fate[c])
    BY <1>1, <1>4 DEF Retreats
  <2>2. ASSUME NEW l \in Locals(c) PROVE LayerOK(c, l)'
    <3>1. Loses(c, l) /\ LayerOK(c, l)
      BY <1>2, <1>4 DEF Retreats
    <3>2. CASE Kept(c, l)
      BY <1>1, <3>1, <3>2, <2>1, LayerGrows DEF Grows
    <3>3. CASE St(c, l) = "repairing" /\ St(c, l)' = "gone" /\ fate'[c][l] = fate[c][l]
      BY <3>1, <3>3 DEF LayerOK, Status
    <3>4. CASE /\ St(c, l) = "queued" /\ St(c, l)' = "doomed" /\ fate'[c][l] = fate[c][l]
               /\ pending'[c][l].commit = pending[c][l].commit
      BY <3>1, <3>4 DEF LayerOK, Status, WellFormed
    <3>5. CASE /\ St(c, l) \in {"queued", "doomed", "sent"} /\ St(c, l)' = "repairing"
               /\ pending'[c][l].commit = pending[c][l].commit
               /\ pending'[c][l].gate.marker = 0 /\ fate'[c][l] = "rejected"
      BY <3>1, <3>5 DEF LayerOK, Status, WellFormed
    <3> QED BY <3>1, <3>2, <3>3, <3>4, <3>5 DEF Loses
  <2> QED BY <1>1, <1>2, <1>3, <1>4, <2>1, <2>2 DEF Retreats
<1>5. ASSUME NEW tx \in Tx[c], Commits(c, tx) PROVE TypedOf(c)'
  <2>0. PICK n \in Nat : n = Len(fate[c]) + 1
    BY <1>1
  <2>1. /\ Len(fate'[c]) = n /\ n <= MaxLocal[c] /\ n \in Nat
        /\ \A l \in Locals(c)' : l \in Locals(c) \/ l = n
        /\ Len(fate[c]) <= n
    BY <1>1, <1>5, <2>0 DEF Commits, NextLocal
  <2>2. LayerOK(c, n)'
    <3>1. pending'[c][n].commit = Built(c, tx.op, tx.read)
      BY <1>5, <2>0 DEF Commits, NextLocal
    <3>2. /\ Built(c, tx.op, tx.read).op = tx.op /\ Built(c, tx.op, tx.read).read = tx.read
          /\ Built(c, tx.op, tx.read).localSeq = n
          /\ Built(c, tx.op, tx.read).layers \subseteq LayersOn(c, tx.read.doc)
      BY <2>0 DEF Built, NextLocal
    <3>3. LayersOn(c, tx.read.doc) \subseteq 1..(n - 1)
      BY <1>1, <2>0, LocalsDomain DEF LayersOn, Standing
    <3>4. WellFormed(c, pending[c][n].commit)'
      <4> DEFINE x == Built(c, tx.op, tx.read)
      <4> HIDE DEF x
      <4>1. x.op = tx.op /\ x.read = tx.read /\ x.layers \subseteq 1..(x.localSeq - 1)
        BY <3>2, <3>3 DEF x
      <4>2. pending'[c][n].commit = x
        BY <3>1 DEF x
      <4> QED BY <4>1, <4>2 DEF WellFormed
    <3>5. \/ pending'[c][n].status = "queued" /\ fate'[c][n] = "open"
          \/ /\ pending'[c][n].status = "repairing" /\ fate'[c][n] = "rejected"
             /\ pending'[c][n].gate.marker = 0
      BY <1>5, <2>0 DEF Commits, NextLocal
    <3> QED BY <3>4, <3>5 DEF LayerOK, St, Status
  <2>3. \A l \in Locals(c) : LayerOK(c, l)'
    <3>1. \A l \in Locals(c) : Kept(c, l)
      BY <1>5 DEF Commits
    <3>2. Grows(c)
      BY <1>1, <2>1 DEF Grows
    <3> QED BY <1>2, <3>1, <3>2, LayerGrows
  <2> QED BY <1>3, <1>5, <2>1, <2>2, <2>3 DEF Commits
<1>6. ASSUME NEW l, Len(fate'[c]) = Len(fate[c]), AllKept(c, {l}), l \in Locals(c),
             LayerOK(c, l)'
      PROVE  Grows(c) /\ Locals(c)' = Locals(c) /\ \A k \in Locals(c)' : LayerOK(c, k)'
  <2>1. Grows(c) /\ Locals(c)' = Locals(c)
    BY <1>1, <1>6 DEF Grows
  <2>2. ASSUME NEW k \in Locals(c), k # l PROVE LayerOK(c, k)'
    BY <1>2, <1>6, <2>1, <2>2, LayerGrows DEF AllKept
  <2> QED BY <1>6, <2>1, <2>2
<1>7. ASSUME NEW l, Dispatches(c, l) PROVE TypedOf(c)'
  <2>1. /\ l \in Locals(c) /\ LayerOK(c, l) /\ St(c, l) = "queued" /\ St(c, l)' = "sent"
        /\ fate'[c][l] = fate[c][l] /\ pending'[c][l].commit = pending[c][l].commit
    BY <1>2, <1>7 DEF Dispatches
  <2>2. LayerOK(c, l)' /\ WellFormed(c, pending[c][l].commit)
    BY <2>1 DEF LayerOK, Status, WellFormed
  <2>3. Grows(c) /\ Locals(c)' = Locals(c) /\ \A k \in Locals(c)' : LayerOK(c, k)'
    BY <1>6, <1>7, <2>1, <2>2 DEF Dispatches
  <2>4. Sent(c)' = Sent(c) \cup {pending[c][l].commit}
    BY <1>7, AppendSent DEF Dispatches
  <2>5. \A m \in Sent(c)' : WellFormed(c, m)'
    <3> SUFFICES ASSUME NEW m \in Sent(c)' PROVE WellFormed(c, m)'
      OBVIOUS
    <3>1. WellFormed(c, m)
      BY <1>2, <2>2, <2>4
    <3> QED BY <3>1 DEF WellFormed
  <2>6. Places(c)' = Places(c) /\ \A i \in Places(c) : toClient'[c][i] = toClient[c][i]
    BY <1>7 DEF Dispatches, Places
  <2>7. \A i \in Places(c)' : MessageOK(c, toClient[c][i])'
    BY <1>2, <2>3, <2>6, MessageGrows
  <2>8. BasesOK(confirmed[c])' /\ Len(fate'[c]) = Len(fate[c]) /\ caughtUp'[c] = caughtUp[c]
    BY <1>1, <1>2, <1>7 DEF BaseSame, BasesOK, Dispatches
  <2> QED BY <1>1, <1>2, <2>3, <2>5, <2>7, <2>8 DEF TypedOf
<1>8. ASSUME NEW m, Takes(c, m), Len(fate'[c]) = Len(fate[c]),
             caughtUp'[c] \in 0..Len(fate[c]), BasesOK(confirmed'[c]),
             \A l \in Locals(c)' : LayerOK(c, l)'
      PROVE  TypedOf(c)'
  <2>1. Grows(c)
    BY <1>1, <1>8 DEF Grows
  <2>2. \A i \in Places(c)' : MessageOK(c, toClient[c][i])'
    BY <1>2, <1>8, <2>1, TakesPlaces, MessageGrows
  <2>3. \A k \in Sent(c)' : WellFormed(c, k)'
    <3>1. Sent(c)' = Sent(c)
      BY <1>8 DEF Takes, Sent
    <3> QED BY <1>2, <3>1, WellFormedStays
  <2>4. BasesOK(confirmed[c])'
    BY <1>1, <1>8 DEF BasesOK
  <2> QED BY <1>1, <1>2, <1>8, <2>2, <2>3, <2>4 DEF TypedOf
<1>9. ASSUME NEW m, Ignores(c, m) PROVE TypedOf(c)'
  <2>1. /\ Len(fate'[c]) = Len(fate[c]) /\ Locals(c)' = Locals(c) /\ Grows(c)
        /\ \A l \in Locals(c) : Kept(c, l)
    BY <1>1, <1>9 DEF Ignores, Kept, Locals, Grows
  <2>2. \A l \in Locals(c)' : LayerOK(c, l)'
    BY <1>2, <2>1, LayerGrows
  <2> QED BY <1>2, <1>8, <1>9, <2>1, <2>2 DEF Ignores, BaseSame
<1>10. ASSUME NEW m, NEW l, Heeds(c, m, l) PROVE TypedOf(c)'
  <2>1. /\ Takes(c, m) /\ l \in Locals(c) /\ St(c, l) = "sent" /\ m.type # "sync"
        /\ caughtUp'[c] = caughtUp[c] /\ Len(fate'[c]) = Len(fate[c]) /\ AllKept(c, {l})
    BY <1>10 DEF Heeds
  <2>2. /\ LayerOK(c, l) /\ WellFormed(c, pending[c][l].commit)
        /\ WellFormed(c, pending[c][l].commit) => WellFormed(c, pending[c][l].commit)'
           \/ pending'[c][l].commit # pending[c][l].commit
    BY <1>2, <2>1 DEF LayerOK, WellFormed
  <2>3. MessageOK(c, m)
    BY <1>2, <2>1, TakesPlaces
  <2>4. LayerOK(c, l)' /\ BasesOK(confirmed'[c])
    <3>1. CASE /\ m.type = "accept" /\ confirmed'[c] = confirmed[c] /\ fate'[c][l] = "accepted"
               /\ St(c, l)' = "parked" /\ pending'[c][l].seq = m.seq
               /\ pending'[c][l].commit = pending[c][l].commit
      <4>1. m.seq \in 1..HeadSeq
        BY <2>3, <3>1 DEF MessageOK
      <4> QED BY <1>1, <1>2, <2>2, <3>1, <4>1 DEF LayerOK, Status
    <3>2. CASE /\ m.type = "accept" /\ fate'[c][l] = "accepted" /\ St(c, l)' = "gone"
               /\ Promotes(c, l, m.seq)
      <4>1. m.seq \in 1..HeadSeq
        BY <2>3, <3>2 DEF MessageOK
      <4>2. PICK p : /\ p.commit = pending[c][l].commit /\ p.seq = m.seq
                     /\ confirmed'[c] = Promote(confirmed[c], p)
        BY <3>2 DEF Promotes
      <4>3. p.seq \in 0..HeadSeq /\ p.commit.op.doc \in Doc
        BY <1>1, <2>2, <4>1, <4>2, WellFormedOp
      <4>4. BasesOK(Promote(confirmed[c], p))
        BY <1>2, <4>3, PromoteStep
      <4> QED BY <3>2, <4>2, <4>4 DEF LayerOK, Status
    <3>3. CASE /\ m.type # "accept" /\ confirmed'[c] = confirmed[c]
               /\ fate'[c][l] = "rejected" /\ St(c, l)' = "repairing"
               /\ pending'[c][l].commit = pending[c][l].commit
               /\ pending'[c][l].gate.marker = l /\ pending'[c][l].gate.seq = m.seq
      <4>1. m.seq \in 0..HeadSeq
        BY <2>1, <2>3, <3>3 DEF MessageOK
      <4> QED BY <1>1, <1>2, <2>2, <3>3, <4>1 DEF LayerOK, Status
    <3> QED BY <1>10, <3>1, <3>2, <3>3 DEF Heeds
  <2>5. \A k \in Locals(c)' : LayerOK(c, k)'
    BY <1>6, <2>1, <2>4
  <2> QED BY <1>2, <1>8, <2>1, <2>4, <2>5
<1>11. ASSUME NEW m, NEW g, Takes(c, m), m.type = "sync", Syncs(c, m, g) PROVE TypedOf(c)'
  <2>1. MessageOK(c, m)
    BY <1>2, <1>11, TakesPlaces
  <2>2. /\ m.marker \in 0..Len(fate[c])
        /\ \A u \in m.upserts : u.doc \in Watched[c] /\ u.seq \in 0..HeadSeq
    BY <1>11, <2>1 DEF MessageOK
  <2>3. caughtUp'[c] \in 0..Len(fate[c]) /\ fate' = fate
    BY <1>2, <1>11, <2>2 DEF Syncs, Caught
  <2>4. BasesOK(Bases(c, m))
    <3>1. ASSUME NEW d \in Doc PROVE Integrated(c, d, m.upserts).seq \in -1..HeadSeq
      <4> DEFINE newer == {u \in m.upserts : u.doc = d /\ u.seq >= confirmed[c][d].seq}
                 v == CHOOSE u \in newer : TRUE
      <4>1. CASE newer = {}
        BY <1>2, <4>1 DEF Integrated, BasesOK
      <4>2. CASE newer # {}
        <5>1. v \in newer
          BY <4>2
        <5>2. Integrated(c, d, m.upserts) = [seq |-> v.seq, value |-> v.value]
          BY <4>2 DEF Integrated
        <5> QED BY <1>1, <2>2, <5>1, <5>2
      <4> QED BY <4>1, <4>2
    <3> QED BY <3>1 DEF BasesOK, Bases
  <2>5. \A l \in Locals(c) : Due(pending[c][l], Caught(c, m)) =>
          pending[c][l].seq \in 0..HeadSeq /\ pending[c][l].commit.op.doc \in Doc
    <3>1. \A l \in Locals(c) : Due(pending[c][l], Caught(c, m)) => St(c, l) = "parked"
      BY DEF Due, St
    <3>2. \A l \in Locals(c) : St(c, l) = "parked" =>
            pending[c][l].seq \in 0..HeadSeq /\ WellFormed(c, pending[c][l].commit)
      BY <1>1, <1>2 DEF LayerOK
    <3> QED BY <3>1, <3>2, WellFormedOp
  <2>6. BasesOK(confirmed'[c])
    <3>1. /\ PromoteRun(g, Len(fate[c]), Bases(c, m), pending[c], Caught(c, m))
          /\ confirmed'[c] = g[Len(fate[c])]
      BY <1>11 DEF Syncs
    <3>2. \A k \in 0..Len(fate[c]) : BasesOK(g[k])
      BY <1>1, <2>4, <2>5, <3>1, RunRises
    <3> QED BY <1>1, <3>1, <3>2
  <2>7. ASSUME NEW l \in Locals(c) PROVE LayerOK(c, l)'
    <3>1. pending'[c][l] = IF Due(pending[c][l], Caught(c, m)) THEN Gone ELSE pending[c][l]
      BY <1>11 DEF Syncs
    <3>2. LayerOK(c, l)
      BY <1>2
    <3>3. CASE Due(pending[c][l], Caught(c, m))
      <4>1. fate[c][l] # "open" /\ pending'[c][l].status = "gone"
        BY <3>1, <3>2, <3>3 DEF LayerOK, Due, St, Gone
      <4> QED BY <2>3, <3>2, <4>1 DEF LayerOK, St, Status
    <3>4. CASE ~Due(pending[c][l], Caught(c, m))
      BY <1>1, <2>3, <3>1, <3>2, <3>4, LayerGrows DEF Kept, Grows
    <3> QED BY <3>3, <3>4
  <2> QED BY <1>1, <1>8, <1>11, <2>3, <2>6, <2>7
<1> QED BY <1>4, <1>5, <1>7, <1>9, <1>10, <1>11 DEF ClientMoves

-----------------------------------------------------------------------------
(* The log only grows, and its documents stay as they were.                 *)
LEMMA LogGrows ==
  ASSUME Shapes, NEW row, log' = Append(log, row)
  PROVE  /\ HeadSeq \in Nat /\ HeadSeq' = HeadSeq + 1
         /\ 1..HeadSeq' = (1..HeadSeq) \cup {HeadSeq + 1}
         /\ \A s \in 1..HeadSeq : log'[s] = log[s]
         /\ log'[HeadSeq + 1] = row
         /\ \A d : \A s \in 0..HeadSeq : DocAt(d, s)' = DocAt(d, s)
         /\ \A d : Stored(d)' = row.content[d]
         /\ \A d, n : n = HeadSeq + 1 => DocAt(d, n)' = row.content[d]
<1>1. /\ HeadSeq \in Nat /\ HeadSeq' = HeadSeq + 1
      /\ \A s \in 1..HeadSeq : log'[s] = log[s]
      /\ log'[HeadSeq + 1] = row
  BY AppendSeq DEF Shapes, HeadSeq
<1>2. 1..HeadSeq' = (1..HeadSeq) \cup {HeadSeq + 1}
  BY <1>1
<1>3. ASSUME NEW d, NEW s \in 0..HeadSeq PROVE DocAt(d, s)' = DocAt(d, s)
  <2>1. s \in 1..HeadSeq <=> s \in 1..HeadSeq'
    BY <1>1
  <2> QED BY <1>1, <2>1 DEF DocAt
<1>4. ASSUME NEW d, NEW n, n = HeadSeq + 1 PROVE DocAt(d, n)' = row.content[d]
  <2>1. n \in 1..HeadSeq'
    BY <1>1, <1>4
  <2> QED BY <1>1, <1>4, <2>1 DEF DocAt
<1>5. \A d : Stored(d)' = row.content[d]
  BY <1>1, HeadSeq + 1 \in 1..(HeadSeq + 1) DEF Stored, DocAt
<1> QED BY <1>1, <1>2, <1>3, <1>4, <1>5

(* Every row leaves the document it wrote as its operation makes it, and an  *)
(* elided row leaves all as they were.                                      *)
RowOK(s) ==
  /\ log[s].client \in Client /\ log[s].elided \in BOOLEAN
  /\ WellFormed(log[s].client, log[s].commit)
  /\ \A d \in Doc :
       /\ d # log[s].commit.op.doc \/ log[s].elided => DocAt(d, s) = DocAt(d, s - 1)
       /\ d = log[s].commit.op.doc =>
            DocAt(d, s) = Apply(DocAt(d, s - 1), log[s].commit.op)

LogOK ==
  /\ \A s \in 1..HeadSeq : RowOK(s)
  /\ \A s \in 0..HeadSeq : \A d \in Doc : DOMAIN DocAt(d, s) = Field

(* What the window remembers: dirty documents, and whose they are.          *)
WindowOK ==
  /\ HeadSeq > flushed => scheduled
  /\ \A d \in Doc : \A s \in 1..HeadSeq :
       Wrote(s, d) /\ s > flushed =>
         /\ d \in dirty
         /\ origin[d] # None => log[s].client = origin[d].client
  /\ \A d \in Doc : origin[d] # None => d \in dirty

(* An operation leaves a document with the fields it had.                  *)
LEMMA ApplyDomain ==
  ASSUME NEW v, DOMAIN v = Field, NEW op, op.kind \in {"set", "put", "add"}
  PROVE  DOMAIN Apply(v, op) = Field
<1>1. CASE op.kind = "set"
  BY <1>1 DEF Apply
<1>2. CASE op.kind = "put"
  BY <1>2 DEF Apply
<1>3. CASE op.kind = "add"
  BY <1>3 DEF Apply
<1> QED BY <1>1, <1>2, <1>3

(* The row that transact appends leaves every document as its operation    *)
(* makes it.                                                               *)
LEMMA AcceptedRow ==
  ASSUME NEW c \in Client, Shapes, LogOK, NEW h, NEW v, NEW row, WellFormed(c, h),
         Accepts(c, h, v, row)
  PROVE  LogOK'
<1>1. log' = Append(log, row)
  BY DEF Accepts
<1> DEFINE n == HeadSeq + 1
<1>2. /\ HeadSeq \in Nat /\ HeadSeq' = n /\ log'[n] = row
      /\ 1..HeadSeq' = (1..HeadSeq) \cup {n} /\ 0..HeadSeq' = (0..HeadSeq) \cup {n}
      /\ \A s \in 1..HeadSeq : log'[s] = log[s] /\ s - 1 \in 0..HeadSeq /\ s \in 0..HeadSeq
      /\ \A d : \A s \in 0..HeadSeq : DocAt(d, s)' = DocAt(d, s)
      /\ \A d : Stored(d)' = row.content[d]
      /\ n - 1 = HeadSeq
  <2>1. /\ HeadSeq \in Nat /\ HeadSeq' = n /\ log'[n] = row
        /\ \A s \in 1..HeadSeq : log'[s] = log[s]
        /\ \A d : \A s \in 0..HeadSeq : DocAt(d, s)' = DocAt(d, s)
        /\ \A d : Stored(d)' = row.content[d]
    BY <1>1, LogGrows
  <2> QED BY <2>1
<1>3. PICK k : k = n
  OBVIOUS
<1>4. /\ row.client = c /\ row.commit = h /\ row.elided \in BOOLEAN
      /\ row.content = [d \in Doc |-> IF ~row.elided /\ d = h.op.doc
                                  THEN Apply(Stored(d), h.op) ELSE Stored(d)]
      /\ row.elided => Apply(Stored(h.op.doc), h.op) = Stored(h.op.doc)
  BY DEF Accepts
<1>5. /\ h.op.doc \in Doc /\ h.op.kind \in {"set", "put", "add"}
  BY WellFormedOp
<1>6. \A d \in Doc : DocAt(d, k)' = row.content[d] /\ DocAt(d, k - 1)' = Stored(d)
  <2>1. k - 1 = HeadSeq /\ HeadSeq \in 0..HeadSeq
    BY <1>2, <1>3
  <2>2. \A d : DocAt(d, k)' = row.content[d]
    BY <1>1, <1>3, LogGrows
  <2>3. PICK j : j = HeadSeq
    OBVIOUS
  <2>4. \A d : DocAt(d, j)' = DocAt(d, j) /\ Stored(d) = DocAt(d, j)
    BY <1>2, <2>1, <2>3 DEF Stored
  <2>5. k - 1 = j
    BY <2>1, <2>3
  <2> QED BY <2>2, <2>4, <2>5
<1>7. \A d \in Doc : DOMAIN row.content[d] = Field
  <2>1. \A d \in Doc : DOMAIN Stored(d) = Field
    BY <1>2 DEF Stored, LogOK
  <2> QED BY <1>4, <1>5, <2>1, ApplyDomain
<1>8. RowOK(k)'
  <2>1. log'[k] = row
    BY <1>2, <1>3
  <2>2. WellFormed(row.client, row.commit)
    BY <1>4
  <2>3. WellFormed(log[k].client, log[k].commit)'
    BY <2>1, <2>2 DEF WellFormed
  <2>4. ASSUME NEW d \in Doc
        PROVE  /\ d # h.op.doc \/ row.elided => row.content[d] = Stored(d)
               /\ d = h.op.doc => row.content[d] = Apply(Stored(d), h.op)
    BY <1>4
  <2> QED BY <1>4, <1>6, <2>1, <2>3, <2>4 DEF RowOK
<1>9. ASSUME NEW s \in 1..HeadSeq PROVE RowOK(s)'
  <2>1. RowOK(s) /\ log'[s] = log[s]
    BY <1>2 DEF LogOK
  <2>2. \A d : DocAt(d, s)' = DocAt(d, s) /\ DocAt(d, s - 1)' = DocAt(d, s - 1)
    BY <1>2
  <2>3. WellFormed(log[s].client, log[s].commit)'
    BY <2>1 DEF RowOK, WellFormed
  <2> QED BY <2>1, <2>2, <2>3 DEF RowOK
<1>10. \A s \in 0..HeadSeq : \A d \in Doc : DOMAIN DocAt(d, s)' = Field
  BY <1>2 DEF LogOK
<1>11. \A d \in Doc : DOMAIN DocAt(d, k)' = Field
  BY <1>6, <1>7
<1> QED BY <1>2, <1>3, <1>8, <1>9, <1>10, <1>11 DEF LogOK

(* While the log stays, so do its documents.                               *)
LEMMA SameLog ==
  ASSUME LogOK, log' = log
  PROVE  LogOK' /\ HeadSeq' = HeadSeq /\ \A d, s : DocAt(d, s)' = DocAt(d, s)
<1>1. HeadSeq' = HeadSeq /\ \A d, s : DocAt(d, s)' = DocAt(d, s)
  BY DEF HeadSeq, DocAt
<1>2. ASSUME NEW s \in 1..HeadSeq PROVE RowOK(s)'
  <2>1. RowOK(s) /\ WellFormed(log[s].client, log[s].commit)
    BY DEF LogOK, RowOK
  <2>2. WellFormed(log[s].client, log[s].commit)'
    BY <2>1 DEF WellFormed
  <2> QED BY <1>1, <2>1, <2>2 DEF RowOK
<1> QED BY <1>1, <1>2 DEF LogOK

(* The seq of the last revision of a document: it is one, and none is later. *)
LEMMA DocSeqIn ==
  ASSUME Shapes, NEW d
  PROVE  /\ DocSeq(d) \in 0..HeadSeq
         /\ DocSeq(d) = 0 \/ Wrote(DocSeq(d), d)
         /\ \A t \in 1..HeadSeq : Wrote(t, d) => t <= DocSeq(d)
<1>1. HeadSeq \in Nat
  BY AnySeq DEF Shapes, IsSeq, HeadSeq
<1> DEFINE Top(s, n) == /\ s = 0 \/ Wrote(s, d)
                        /\ \A t \in (s + 1)..n : ~Wrote(t, d)
           T == {n \in Nat : \E s \in 0..n : Top(s, n)}
<1>2. 0 \in T
  <2>1. 0 \in 0..0 /\ Top(0, 0)
    OBVIOUS
  <2> QED BY <2>1
<1>3. ASSUME NEW n \in Nat, n \in T PROVE n + 1 \in T
  <2>1. PICK s \in 0..n : Top(s, n)
    BY <1>3
  <2>2. CASE Wrote(n + 1, d)
    <3>1. n + 1 \in 0..(n + 1) /\ \A t \in ((n + 1) + 1)..(n + 1) : FALSE
      OBVIOUS
    <3> QED BY <2>2, <3>1
  <2>3. CASE ~Wrote(n + 1, d)
    <3>1. s \in 0..(n + 1) /\ \A t \in (s + 1)..(n + 1) : t \in (s + 1)..n \/ t = n + 1
      OBVIOUS
    <3>2. Top(s, n + 1)
      BY <2>1, <2>3, <3>1
    <3> QED BY <3>1, <3>2
  <2> QED BY <2>2, <2>3
<1> HIDE DEF T
<1>4. HeadSeq \in T
  BY <1>1, <1>2, <1>3, SetInduction
<1>5. \E s \in 0..HeadSeq : Top(s, HeadSeq)
  BY <1>4 DEF T
<1>6. DocSeq(d) \in 0..HeadSeq /\ Top(DocSeq(d), HeadSeq)
  BY <1>5 DEF DocSeq
<1>7. ASSUME NEW t \in 1..HeadSeq, Wrote(t, d) PROVE t <= DocSeq(d)
  <2>1. ~(t \in (DocSeq(d) + 1)..HeadSeq)
    BY <1>6, <1>7
  <2> QED BY <1>1, <1>6, <2>1
<1> QED BY <1>6, <1>7

TypedInv == FatesInv /\ Typed /\ LogOK /\ WindowOK

(* Transact keeps the shapes, the log and what the window remembers of it. *)
LEMMA TransactTyped ==
  ASSUME NEW c \in Client, TypedInv, Shapes', Transact(c)
  PROVE  Typed' /\ LogOK' /\ WindowOK'
<1>1. /\ Shapes /\ Domains /\ Tracked(c) /\ LogOK /\ WindowOK
      /\ dirty \subseteq Doc /\ flushed \in 0..HeadSeq
      /\ \A d \in Client : TypedOf(d)
  BY DEF TypedInv, Typed, FatesInv
<1>2. PICK h, v : Handles(c, h, v) /\ (Refuses(h, v) \/ \E row : Accepts(c, h, v, row))
  BY <1>1, TransactEffect DEF Domains
<1>3. /\ toServer[c] # <<>> /\ h \in Sent(c)
      /\ toServer'[c] = Tail(toServer[c])
      /\ toClient'[c] = Append(toClient[c], v) /\ owed'[c] = h.localSeq
      /\ \A d \in Client : d # c =>
           /\ toServer'[d] = toServer[d] /\ toClient'[d] = toClient[d] /\ owed'[d] = owed[d]
      /\ flushed' = flushed /\ confirmed' = confirmed /\ pending' = pending
      /\ caughtUp' = caughtUp /\ fate' = fate /\ scheduled' = TRUE
      /\ Domains'
  BY <1>1, <1>2 DEF Handles, Domains
<1>4. WellFormed(c, h) /\ h.localSeq \in Locals(c)
  BY <1>1, <1>3 DEF TypedOf, Tracked, Named
<1>5. /\ h.op.doc \in Doc /\ h.read.doc \in Doc \cup {None}
  BY <1>4, WellFormedOp
<1>6. HeadSeq \in Nat
  BY <1>1, AnySeq DEF Shapes, IsSeq, HeadSeq
<1>7. /\ HeadSeq' \in Nat /\ HeadSeq <= HeadSeq' /\ dirty' \subseteq Doc
      /\ \/ v.type = "accept" /\ v.seq \in 1..HeadSeq'
         \/ v.type = "reject" /\ v.seq \in 0..HeadSeq'
  <2>1. CASE Refuses(h, v)
    BY <1>1, <1>5, <1>6, <2>1 DEF Refuses, HeadSeq
  <2>2. ASSUME NEW row, Accepts(c, h, v, row) PROVE <1>7!:
    <3>1. HeadSeq' = HeadSeq + 1
      BY <1>1, <2>2, LogGrows DEF Accepts
    <3>2. dirty' \subseteq Doc
      BY <1>1, <1>5, <2>2 DEF Accepts, Writes
    <3> QED BY <1>6, <2>2, <3>1, <3>2 DEF Accepts
  <2> QED BY <1>2, <2>1, <2>2
<1>8. \A d \in Client : Grows(d)
  BY <1>1, <1>3, <1>6, <1>7, LocalsDomain DEF Grows
<1>9. ASSUME NEW d \in Client, d # c PROVE TypedOf(d)'
  <2>1. Apart(d)
    BY <1>3, <1>9 DEF Apart, LinkSame, BaseSame
  <2> QED BY <1>1, <1>8, <2>1, ApartTyped
<1>10. TypedOf(c)'
  <2>1. /\ Locals(c)' = Locals(c) /\ \A l \in Locals(c) : Kept(c, l)
    BY <1>3 DEF Locals, Kept
  <2>2. \A l \in Locals(c)' : LayerOK(c, l)'
    BY <1>1, <1>8, <2>1, LayerGrows DEF TypedOf
  <2>3. \A m \in Sent(c)' : WellFormed(c, m)'
    BY <1>1, <1>3, TailSent, WellFormedStays DEF TypedOf
  <2>4. \A i \in Places(c)' : MessageOK(c, toClient[c][i])'
    <3>1. PICK n : n = Len(toClient[c]) + 1
      OBVIOUS
    <3>2. /\ Places(c)' = Places(c) \cup {n} /\ toClient'[c][n] = v
          /\ \A i \in Places(c) : toClient'[c][i] = toClient[c][i]
      BY <1>1, <1>3, <3>1, AppendPlaces
    <3>3. \A i \in Places(c) : MessageOK(c, toClient[c][i])'
      BY <1>1, <1>8, <3>2, MessageGrows DEF TypedOf
    <3>4. MessageOK(c, toClient[c][n])'
      BY <1>7, <3>2 DEF MessageOK
    <3> QED BY <3>2, <3>3, <3>4
  <2>5. BasesOK(confirmed[c])'
    BY <1>1, <1>3, <1>6, <1>7, BasesGrow DEF TypedOf
  <2>6. /\ Len(fate'[c]) <= MaxLocal[c]
        /\ owed'[c] \in 0..Len(fate'[c]) /\ caughtUp'[c] \in 0..Len(fate'[c])
    BY <1>1, <1>3, <1>4, LocalsDomain DEF TypedOf, Locals
  <2> QED BY <2>2, <2>3, <2>4, <2>5, <2>6 DEF TypedOf
<1>11. Typed'
  BY <1>1, <1>3, <1>6, <1>7, <1>9, <1>10 DEF Typed
<1>12. CASE Refuses(h, v)
  <2>1. log' = log
    BY <1>12 DEF Refuses
  <2>2. LogOK' /\ HeadSeq' = HeadSeq
    BY <1>1, <2>1, SameLog
  <2>3. WindowOK'
    <3>1. \A d \in Doc : origin'[d] = origin[d] \/ origin'[d] = None
      BY <1>12 DEF Refuses
    <3>2. dirty \subseteq dirty'
      BY <1>12 DEF Refuses
    <3>3. \A s, d : Wrote(s, d)' <=> Wrote(s, d)
      BY <2>1 DEF Wrote
    <3> QED BY <1>1, <1>3, <2>1, <2>2, <3>1, <3>2, <3>3 DEF WindowOK
  <2> QED BY <1>11, <2>2, <2>3
<1>13. ASSUME NEW row, Accepts(c, h, v, row) PROVE LogOK' /\ WindowOK'
  <2>1. LogOK'
    BY <1>1, <1>4, <1>13, AcceptedRow
  <2>2. PICK n : n = HeadSeq + 1
    OBVIOUS
  <2>3. /\ HeadSeq' = n /\ 1..HeadSeq' = (1..HeadSeq) \cup {n}
        /\ \A s \in 1..HeadSeq : log'[s] = log[s]
        /\ log'[n] = row /\ row.client = c /\ row.commit = h
    BY <1>1, <1>13, <2>2, LogGrows DEF Accepts
  <2>4. dirty \subseteq dirty'
    BY <1>13 DEF Accepts, Writes
  <2>5. ASSUME NEW d \in Doc, NEW s \in 1..HeadSeq', Wrote(s, d)', s > flushed
        PROVE  d \in dirty' /\ (origin'[d] # None => log'[s].client = origin'[d].client)
    <3>1. CASE s = n
      <4>1. row.elided = FALSE /\ d = h.op.doc
        BY <1>13, <2>3, <2>5, <3>1 DEF Wrote, Accepts
      <4>2. Writes(c, h)
        BY <1>13, <4>1 DEF Accepts
      <4> QED BY <2>3, <3>1, <4>1, <4>2 DEF Writes, OriginMoves
    <3>2. CASE s \in 1..HeadSeq
      <4>1. Wrote(s, d) /\ log'[s] = log[s]
        BY <2>3, <2>5, <3>2 DEF Wrote
      <4>2. d \in dirty /\ (origin[d] # None => log[s].client = origin[d].client)
        BY <1>1, <2>5, <3>2, <4>1 DEF WindowOK
      <4>3. \/ origin'[d] = origin[d]
            \/ d = h.op.doc /\ OriginMoves(c, d)
        BY <1>13 DEF Accepts, Writes
      <4> QED BY <2>4, <4>1, <4>2, <4>3 DEF OriginMoves
    <3> QED BY <2>3, <2>5, <3>1, <3>2
  <2>6. ASSUME NEW d \in Doc, origin'[d] # None PROVE d \in dirty'
    <3>1. origin'[d] = origin[d] \/ d \in dirty'
      BY <1>13 DEF Accepts, Writes
    <3> QED BY <1>1, <2>4, <2>6, <3>1 DEF WindowOK
  <2> QED BY <1>3, <2>1, <2>5, <2>6 DEF WindowOK
<1> QED BY <1>2, <1>11, <1>12, <1>13

(* A flush keeps the shapes, and starts a window that remembers nothing.   *)
LEMMA FlushTyped ==
  ASSUME TypedInv, Shapes', Flush
  PROVE  Typed' /\ LogOK' /\ WindowOK'
<1>1. /\ Shapes /\ Domains /\ LogOK
      /\ dirty \subseteq Doc /\ flushed \in 0..HeadSeq
      /\ \A d \in Client : TypedOf(d)
  BY DEF TypedInv, Typed, FatesInv
<1>2. /\ log' = log /\ dirty' = {} /\ flushed' = HeadSeq /\ scheduled' = FALSE
      /\ origin' = [d \in Doc |-> None]
      /\ DOMAIN owed' = Client /\ confirmed' = confirmed /\ caughtUp' = caughtUp
      /\ \A d \in Client : Flushes(d)
  BY <1>1, FlushEffect
<1>3. HeadSeq \in Nat /\ HeadSeq' = HeadSeq
  BY <1>1, <1>2, AnySeq DEF Shapes, IsSeq, HeadSeq
<1>4. ASSUME NEW d \in Client PROVE TypedOf(d)'
  <2>1. /\ toServer'[d] = toServer[d] /\ BaseSame(d)
        /\ pending'[d] = pending[d] /\ fate'[d] = fate[d] /\ owed'[d] = 0
        /\ toClient'[d] = toClient[d] \/ toClient'[d] = Append(toClient[d], Frame(d))
    BY <1>2 DEF Flushes
  <2>2. /\ Locals(d)' = Locals(d) /\ Sent(d)' = Sent(d) /\ Grows(d)
        /\ \A l \in Locals(d) : Kept(d, l)
    BY <1>1, <1>3, <2>1, LocalsDomain DEF Locals, Sent, Grows, Kept
  <2>3. \A l \in Locals(d)' : LayerOK(d, l)'
    BY <1>1, <2>2, LayerGrows DEF TypedOf
  <2>4. \A m \in Sent(d)' : WellFormed(d, m)'
    BY <1>1, <2>2, WellFormedStays DEF TypedOf
  <2>5. \A i \in Places(d)' : MessageOK(d, toClient[d][i])'
    <3>1. CASE toClient'[d] = toClient[d]
      <4>1. Places(d)' = Places(d) /\ \A i \in Places(d) : toClient'[d][i] = toClient[d][i]
        BY <3>1 DEF Places
      <4> QED BY <1>1, <2>2, <4>1, MessageGrows DEF TypedOf
    <3>2. CASE toClient'[d] = Append(toClient[d], Frame(d))
      <4>1. PICK n : n = Len(toClient[d]) + 1
        OBVIOUS
      <4>2. /\ Places(d)' = Places(d) \cup {n} /\ toClient'[d][n] = Frame(d)
            /\ \A i \in Places(d) : toClient'[d][i] = toClient[d][i]
        BY <1>1, <3>2, <4>1, AppendPlaces
      <4>3. \A i \in Places(d) : MessageOK(d, toClient[d][i])'
        BY <1>1, <2>2, <4>2, MessageGrows DEF TypedOf
      <4>4. /\ Frame(d).type = "sync" /\ Frame(d).marker = owed[d]
            /\ Frame(d).upserts = Upserts(d)
        BY DEF Frame
      <4>5. ASSUME NEW u \in Upserts(d) PROVE u.doc \in Watched[d] /\ u.seq \in 0..HeadSeq
        <5>1. PICK x \in Watched[d] \cap dirty :
                DocSeq(x) > flushed /\ u = [doc |-> x, seq |-> DocSeq(x), value |-> Stored(x)]
          BY DEF Upserts
        <5>2. DocSeq(x) \in 0..HeadSeq
          BY <5>1, DocSeqIn, <1>1
        <5> QED BY <5>1, <5>2
      <4>6. owed[d] \in 0..Len(fate[d])
        BY <1>1 DEF TypedOf
      <4>7. MessageOK(d, toClient[d][n])'
        BY <1>3, <2>1, <4>2, <4>4, <4>5, <4>6 DEF MessageOK
      <4> QED BY <4>2, <4>3, <4>7
    <3> QED BY <2>1, <3>1, <3>2
  <2>6. BasesOK(confirmed[d])'
    BY <1>1, <1>2, <1>3 DEF TypedOf, BasesOK
  <2>7. /\ Len(fate'[d]) <= MaxLocal[d]
        /\ owed'[d] \in 0..Len(fate'[d]) /\ caughtUp'[d] \in 0..Len(fate'[d])
    BY <1>1, <1>2, <2>1, LocalsDomain DEF TypedOf
  <2> QED BY <2>3, <2>4, <2>5, <2>6, <2>7 DEF TypedOf
<1>5. Typed'
  <2>1. Domains'
    BY <1>1, <1>2 DEF Domains
  <2>2. dirty' \subseteq Doc /\ scheduled' \in BOOLEAN /\ flushed' \in 0..HeadSeq'
    <3>1. flushed' \in 0..HeadSeq'
      BY <1>2, <1>3
    <3> QED BY <1>2, <3>1
  <2> QED BY <1>4, <2>1, <2>2 DEF Typed
<1>6. WindowOK'
  BY <1>2, <1>3 DEF WindowOK
<1> QED BY <1>1, <1>2, <1>5, <1>6, SameLog

(* Shapes, log and window hold at the start.                               *)
LEMMA InitTyped == Init => TypedInv
<1> SUFFICES ASSUME Init PROVE TypedInv
  OBVIOUS
<1>1. FatesInv /\ Shapes
  BY InitFates DEF FatesInv
<1>2. HeadSeq = 0 /\ \A d, s : DocAt(d, s) = Zero
  BY DEF Init, HeadSeq, DocAt
<1>3. LogOK
  BY <1>2 DEF LogOK, Zero
<1>4. WindowOK
  BY <1>2 DEF WindowOK, Init
<1>5. ASSUME NEW c \in Client PROVE TypedOf(c)
  <2>1. /\ Len(fate[c]) = 0 /\ Locals(c) = {} /\ Sent(c) = {} /\ Places(c) = {}
        /\ owed[c] = 0 /\ caughtUp[c] = 0
    BY DEF Init, Locals, Sent, Places
  <2>2. BasesOK(confirmed[c])
    <3>1. confirmed[c] = [d \in Doc |->
            [seq |-> IF d \in Watched[c] THEN 0 ELSE Unseen, value |-> Zero]]
      BY DEF Init
    <3> QED BY <1>2, <3>1 DEF BasesOK, Unseen
  <2> QED BY <2>1, <2>2, ConstantsAssumption DEF TypedOf
<1>6. Domains /\ dirty \subseteq Doc /\ scheduled \in BOOLEAN /\ flushed \in 0..HeadSeq
  <2>1. flushed \in 0..HeadSeq
    BY <1>2 DEF Init
  <2>2. Domains
    BY DEF Init, Domains
  <2>3. dirty = {} /\ scheduled = FALSE
    BY DEF Init
  <2> QED BY <2>1, <2>2, <2>3
<1> QED BY <1>1, <1>3, <1>4, <1>5, <1>6 DEF TypedInv, Typed

(* Every step keeps the shapes, the log and the window.                    *)
LEMMA NextTyped == TypedInv /\ [Next]_vars => TypedInv'
<1> SUFFICES ASSUME TypedInv, [Next]_vars PROVE TypedInv'
  OBVIOUS
<1>1. FatesInv' /\ Shapes'
  BY NextFates DEF TypedInv, FatesInv
<1>2. /\ Shapes /\ Domains /\ LogOK /\ WindowOK
      /\ dirty \subseteq Doc /\ scheduled \in BOOLEAN /\ flushed \in 0..HeadSeq
      /\ \A d \in Client : TypedOf(d)
      /\ \A d \in Client : Tracked(d)
  BY DEF TypedInv, Typed, FatesInv
<1>3. HeadSeq \in Nat
  BY <1>2, AnySeq DEF Shapes, IsSeq, HeadSeq
<1>4. ASSUME ServerSame, Domains', \A d \in Client : TypedOf(d)' PROVE TypedInv'
  <2>1. LogOK' /\ HeadSeq' = HeadSeq
    BY <1>2, <1>4, SameLog DEF ServerSame
  <2>2. WindowOK'
    BY <1>2, <1>4, <2>1 DEF WindowOK, Wrote, ServerSame
  <2>3. Typed'
    BY <1>2, <1>4, <2>1 DEF Typed, ServerSame
  <2> QED BY <1>1, <2>1, <2>2, <2>3 DEF TypedInv
<1>5. ASSUME ServerSame, NEW d \in Client, Apart(d) PROVE TypedOf(d)'
  <2>1. HeadSeq' = HeadSeq /\ fate'[d] = fate[d]
    BY <1>5 DEF ServerSame, HeadSeq, Apart
  <2>2. Grows(d)
    BY <1>2, <1>3, <2>1, LocalsDomain DEF Grows
  <2> QED BY <1>2, <1>5, <2>2, ApartTyped
<1>6. ASSUME NEW c \in Client, StepOf(c) PROVE TypedInv'
  <2>1. /\ ClientMoves(c) /\ ServerSame /\ Domains'
        /\ \A d \in Client \ {c} : Apart(d)
    BY <1>2, <1>6, StepEffect
  <2>2. TypedOf(c)'
    BY <1>1, <1>2, <2>1, MovesTyped
  <2>3. \A d \in Client : TypedOf(d)'
    BY <1>5, <2>1, <2>2
  <2> QED BY <1>4, <2>1, <2>3
<1>7. ASSUME NEW c \in Client, Transact(c) PROVE TypedInv'
  BY <1>1, <1>7, TransactTyped DEF TypedInv
<1>8. CASE Flush
  BY <1>1, <1>8, FlushTyped DEF TypedInv
<1>9. CASE UNCHANGED vars
  <2>1. ServerSame /\ Domains' /\ \A d \in Client : Apart(d)
    BY <1>2, <1>9 DEF vars, serverVars, replicaVars, ServerSame, Domains, Apart, LinkSame,
                      BaseSame
  <2> QED BY <1>4, <1>5, <2>1
<1> QED BY <1>6, <1>7, <1>8, <1>9 DEF Next, StepOf

(* Queues, layers, bases and fates always have their shapes, with one fate *)
(* for each layer and every marker, seq and base within its range          *)
(* (TypeOK), whatever clients, documents and transactions there are.       *)
THEOREM TypeAlwaysOK == Spec => []TypeOK
<1>1. TypedInv => TypeOK
  <2> SUFFICES ASSUME TypedInv PROVE TypeOK
    OBVIOUS
  <2>1. Shapes /\ Typed /\ \A c \in Client : Tracked(c)
    BY DEF TypedInv, FatesInv
  <2>2. ASSUME NEW c \in Client
        PROVE  /\ owed[c] \in 0..MaxLocal[c] /\ caughtUp[c] \in 0..MaxLocal[c]
               /\ fate[c] \in Seq({"open", "accepted", "rejected"})
               /\ \A d \in Doc : confirmed[c][d].seq \in -1..HeadSeq
               /\ DOMAIN pending[c] = DOMAIN fate[c]
               /\ \A l \in DOMAIN pending[c] : pending[c][l].status \in Status
               /\ \A l \in Standing(c) : pending[c][l].commit.localSeq = l
    <3>1. TypedOf(c)
      BY <2>1 DEF Typed
    <3>2. owed[c] \in 0..MaxLocal[c] /\ caughtUp[c] \in 0..MaxLocal[c]
      BY <2>1, <3>1, LocalsDomain, ConstantsAssumption DEF TypedOf
    <3>3. /\ DOMAIN pending[c] = Locals(c) /\ DOMAIN fate[c] = Locals(c)
          /\ IsSeq(fate[c]) /\ Len(fate[c]) \in Nat
      BY <2>1, LocalsDomain
    <3>4. \A l \in Locals(c) :
            fate[c][l] \in {"open", "accepted", "rejected"} /\ St(c, l) \in Status
      BY <3>1 DEF TypedOf, LayerOK
    <3>5. {fate[c][l] : l \in Locals(c)} \subseteq {"open", "accepted", "rejected"}
      BY <3>4
    <3>6. fate[c] \in Seq({"open", "accepted", "rejected"})
      BY <3>3, <3>5, SeqMonotonic DEF IsSeq, Locals
    <3>7. \A l \in Standing(c) : pending[c][l].commit.localSeq = l
      BY <2>1, <3>3 DEF Standing, Tracked, Named, St
    <3> QED BY <3>1, <3>2, <3>3, <3>4, <3>6, <3>7 DEF TypedOf, BasesOK, St
  <2> QED BY <2>1, <2>2 DEF TypeOK, Typed
<1> QED BY <1>1, InitTyped, NextTyped, PTL DEF Spec
=============================================================================
