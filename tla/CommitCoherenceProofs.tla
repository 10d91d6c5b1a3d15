----------------------- MODULE CommitCoherenceProofs -----------------------
(***************************************************************************)
(* The coherence of replicas, reads and the space, for every set of        *)
(* clients, documents, views and transactions.                             *)
(*                                                                         *)
(* CoherentInv adds three parts to the shapes. Ordered: the rows, the      *)
(* commits in flight and the commits not yet sent of a client follow one   *)
(* another, and no marker runs ahead. Answers: a verdict reaches its       *)
(* replica before the marker of its commit, and what decided it lies in    *)
(* the window that marker ends. Arrivals: each foreign revision of a       *)
(* watched document is in the base, in the window, or in a frame that      *)
(* comes no later than any marker decided after it; a base is a document   *)
(* of the log and holds no own commit whose marker has not come; and an    *)
(* accepted commit has its layer until its document's base has it. Neither *)
(* part is inductive without the others: promotion over a base is right    *)
(* only because nothing foreign lies between the base and the row, which   *)
(* is Arrivals by way of the order of verdicts and markers.                *)
(*                                                                         *)
(* ReadInv adds that what an open commit saw is its layers replayed over   *)
(* its base (Reads). When the server finds the layers accepted and nothing *)
(* else that overlaps, that replay meets the log at its head               *)
(* (ReplayMeetsLog), so the commit is admitted on what the space holds.    *)
(* The refinement of SerialSpace follows, action by action.                *)
(***************************************************************************)
EXTENDS OptimisticCommitProofs

-----------------------------------------------------------------------------
(* Where a marker is: noted by the replica, or in a frame in flight.        *)
Own(s, c) == s \in 1..HeadSeq /\ log[s].client = c
Local(s) == log[s].commit.localSeq

IsSync(c, i) == toClient[c][i].type = "sync"
Marks(c, i, l) == IsSync(c, i) /\ toClient[c][i].marker >= l

\* The replica has no marker of l before it handles what is at place i, and
\* none is in flight at all.
Unmarked(c, i, l) ==
  caughtUp[c] < l /\ \A j \in Places(c) : j < i => ~Marks(c, j, l)
Unheard(c, l) == caughtUp[c] < l /\ \A j \in Places(c) : ~Marks(c, j, l)

(* A replica that handles nothing hears of nothing.                        *)
LEMMA LinkSameMarks ==
  ASSUME NEW c, toClient'[c] = toClient[c], caughtUp'[c] = caughtUp[c], NEW l
  PROVE  /\ Unheard(c, l)' <=> Unheard(c, l)
         /\ \A i : Unmarked(c, i, l)' <=> Unmarked(c, i, l)
<1>1. \A i : Marks(c, i, l)' <=> Marks(c, i, l)
  BY DEF Marks, IsSync
<1>2. Places(c)' = Places(c)
  BY DEF Places
<1> QED BY <1>1, <1>2 DEF Unheard, Unmarked

(* Handling what is first moves every marker one place up, the first into   *)
(* the replica, unless the replica watches nothing and forgets it.          *)
Notes(c, m) ==
  \/ m.type # "sync" /\ caughtUp'[c] = caughtUp[c]
  \/ m.type = "sync" /\ caughtUp'[c] = Caught(c, m)

(* Handling the first message moves its marker into the replica: what is   *)
(* unheard stays so, and so does what comes first at each later place.     *)
LEMMA NotesMarks ==
  ASSUME NEW c \in Client, Shapes, TypedOf(c), NEW m, Takes(c, m), Notes(c, m), NEW l \in Int
  PROVE  /\ Unheard(c, l)' <=> Unheard(c, l)
         /\ \A i \in Places(c)' : Unmarked(c, i, l)' <=> Unmarked(c, i + 1, l)
<1>1. /\ Len(toClient[c]) \in Nat /\ Len(toClient'[c]) = Len(toClient[c]) - 1
      /\ 1 \in Places(c) /\ toClient[c][1] = m
      /\ \A i \in Places(c)' : i + 1 \in Places(c) /\ toClient'[c][i] = toClient[c][i + 1]
      /\ \A i \in Places(c) :
           i = 1 \/ (i - 1 \in Places(c)' /\ toClient'[c][i - 1] = toClient[c][i])
  BY TakesPlaces
<1>2. caughtUp[c] \in Nat /\ (m.type = "sync" => m.marker \in Nat)
  BY <1>1, LocalsDomain DEF TypedOf, MessageOK
<1>3. caughtUp'[c] < l <=> caughtUp[c] < l /\ ~Marks(c, 1, l)
  BY <1>1, <1>2 DEF Notes, Marks, IsSync, Caught
<1>4. \A i \in Places(c)' : Marks(c, i, l)' <=> Marks(c, i + 1, l)
  BY <1>1 DEF Marks, IsSync
<1>5. \A i \in Places(c) : i = 1 \/ (i - 1 \in Places(c)' /\ (Marks(c, i - 1, l)' <=> Marks(c, i, l)))
  BY <1>1 DEF Marks, IsSync
<1>6. Places(c) \subseteq Nat /\ Places(c)' \subseteq Nat /\ \A i \in Places(c)' : i >= 1
  BY DEF Places
<1>7. Unheard(c, l)' <=> Unheard(c, l)
  BY <1>1, <1>3, <1>4, <1>5 DEF Unheard
<1>8. ASSUME NEW i \in Places(c)' PROVE Unmarked(c, i, l)' <=> Unmarked(c, i + 1, l)
  <2>1. ASSUME Unmarked(c, i, l)' PROVE Unmarked(c, i + 1, l)
    <3>1. \A j \in Places(c) : j < i + 1 => ~Marks(c, j, l)
      <4> SUFFICES ASSUME NEW j \in Places(c), j < i + 1 PROVE ~Marks(c, j, l)
        OBVIOUS
      <4>1. CASE j = 1
        BY <1>3, <2>1, <4>1 DEF Unmarked
      <4>2. CASE j # 1
        <5>1. j - 1 \in Places(c)' /\ j - 1 < i /\ (Marks(c, j - 1, l)' <=> Marks(c, j, l))
          BY <1>5, <1>6, <4>2
        <5> QED BY <2>1, <5>1 DEF Unmarked
      <4> QED BY <4>1, <4>2
    <3> QED BY <1>3, <2>1, <3>1 DEF Unmarked
  <2>2. ASSUME Unmarked(c, i + 1, l) PROVE Unmarked(c, i, l)'
    <3>1. 1 < i + 1
      BY <1>6
    <3>2. \A j \in Places(c)' : j < i => j + 1 \in Places(c) /\ j + 1 < i + 1
      BY <1>1, <1>6
    <3>3. \A j \in Places(c)' : j < i => ~Marks(c, j, l)'
      BY <1>4, <2>2, <3>2 DEF Unmarked
    <3> QED BY <1>1, <1>3, <2>2, <3>1, <3>3 DEF Unmarked
  <2> QED BY <2>1, <2>2
<1> QED BY <1>7, <1>8

(* A replica that watches nothing drops a marker; it may only hear less.   *)
LEMMA ForgetsMarks ==
  ASSUME NEW c \in Client, Shapes, NEW m, Takes(c, m), caughtUp'[c] = caughtUp[c], NEW l \in Int
  PROVE  /\ Unheard(c, l) => Unheard(c, l)'
         /\ \A i \in Places(c)' : Unmarked(c, i + 1, l) => Unmarked(c, i, l)'
<1>1. \A i \in Places(c)' : i + 1 \in Places(c) /\ toClient'[c][i] = toClient[c][i + 1]
  BY TakesPlaces
<1>2. \A i \in Places(c)' : i + 1 \in Places(c) /\ (Marks(c, i, l)' <=> Marks(c, i + 1, l))
  BY <1>1 DEF Marks, IsSync
<1>3. Places(c) \subseteq Nat /\ Places(c)' \subseteq Nat
  BY DEF Places
<1>4. Unheard(c, l) => Unheard(c, l)'
  BY <1>2 DEF Unheard
<1>5. ASSUME NEW i \in Places(c)', Unmarked(c, i + 1, l) PROVE Unmarked(c, i, l)'
  <2>1. \A j \in Places(c)' : j < i => j + 1 < i + 1
    BY <1>3
  <2> QED BY <1>2, <1>5, <2>1 DEF Unmarked
<1> QED BY <1>4, <1>5

(* A message put in flight is behind all that is there.                     *)
LEMMA AppendMarks ==
  ASSUME NEW c \in Client, Shapes, NEW m, toClient'[c] = Append(toClient[c], m),
         caughtUp'[c] = caughtUp[c], NEW l
  PROVE  /\ Unheard(c, l)' <=> Unheard(c, l) /\ ~(m.type = "sync" /\ m.marker >= l)
         /\ \A i \in Places(c) : Unmarked(c, i, l)' <=> Unmarked(c, i, l)
         /\ \A i : i = Len(toClient[c]) + 1 => (Unmarked(c, i, l)' <=> Unheard(c, l))
<1>1. PICK n : n = Len(toClient[c]) + 1
  OBVIOUS
<1>2. /\ n \in Nat /\ Places(c)' = Places(c) \cup {n} /\ toClient'[c][n] = m
      /\ \A i \in Places(c) : toClient'[c][i] = toClient[c][i] /\ i < n /\ i \in Nat
  BY <1>1, AppendPlaces DEF Places
<1>3. /\ \A i \in Places(c) : Marks(c, i, l)' <=> Marks(c, i, l)
      /\ Marks(c, n, l)' <=> m.type = "sync" /\ m.marker >= l
  BY <1>2 DEF Marks, IsSync
<1>4. \A i \in Places(c) : ~(n < i) /\ ~(n < n)
  BY <1>2
<1>5. Unheard(c, l)' <=> Unheard(c, l) /\ ~(m.type = "sync" /\ m.marker >= l)
  BY <1>2, <1>3 DEF Unheard
<1>6. \A i \in Places(c) : Unmarked(c, i, l)' <=> Unmarked(c, i, l)
  BY <1>2, <1>3, <1>4 DEF Unmarked
<1>7. Unmarked(c, n, l)' <=> Unheard(c, l)
  <2>1. ~(n < n)
    BY <1>2
  <2> QED BY <1>2, <1>3, <2>1 DEF Unmarked, Unheard
<1> QED BY <1>1, <1>5, <1>6, <1>7

(* No marker before the end is none before any place.                       *)
LEMMA UnheardUnmarked ==
  ASSUME NEW c, NEW i, NEW l, Unheard(c, l)
  PROVE  Unmarked(c, i, l)
  BY DEF Unheard, Unmarked

-----------------------------------------------------------------------------
(* The commits of a client stay in order: rows, then what is at the server, *)
(* then what waits to be sent, and no marker runs ahead of what was handled. *)
RowsOrdered(c) ==
  \A s, t \in 1..HeadSeq :
    log[s].client = c /\ log[t].client = c /\ s < t => Local(s) < Local(t)

SentOrdered(c) ==
  \A i, j \in 1..Len(toServer[c]) :
    i < j => toServer[c][i].localSeq < toServer[c][j].localSeq

Behind(c, l) ==
  /\ \A s \in 1..HeadSeq : log[s].client = c => Local(s) < l
  /\ owed[c] < l /\ Unheard(c, l)

Waiting(c, l) == l \in Locals(c) /\ St(c, l) \in {"queued", "doomed"}

SentLast(c) == \A m \in Sent(c) : Behind(c, m.localSeq)
WaitLast(c) ==
  \A l \in Locals(c) : Waiting(c, l) =>
    Behind(c, l) /\ \A m \in Sent(c) : m.localSeq < l
NextLast(c) == Behind(c, Len(fate[c]) + 1)

Ordered(c) ==
  RowsOrdered(c) /\ SentOrdered(c) /\ SentLast(c) /\ WaitLast(c) /\ NextLast(c)

\* What the parts of TypedInv say of one client.
Known(c) == Shapes /\ Tracked(c) /\ TypedOf(c) /\ HeadSeq \in Nat

(* Where a client is known, its commits are numbered, and all that waits,  *)
(* is in flight or is in the log is one of them.                           *)
LEMMA LocalsAreNat ==
  ASSUME NEW c \in Client, Known(c)
  PROVE  /\ \A l \in Locals(c) : l \in Nat /\ l >= 1 /\ l < Len(fate[c]) + 1
         /\ Len(fate[c]) + 1 \in Nat /\ owed[c] \in Nat /\ caughtUp[c] \in Nat
         /\ \A m \in Sent(c) : m.localSeq \in Locals(c)
         /\ \A m \in Verdicts(c) : m.localSeq \in Locals(c)
         /\ \A s \in 1..HeadSeq : log[s].client = c => Local(s) \in Locals(c)
         /\ Locals(c) \subseteq Int
<1>1. \A s \in 1..HeadSeq : log[s].client = c => log[s].commit \in Rows(c)
  BY DEF Rows
<1>2. /\ \A m \in Rows(c) \cup Sent(c) \cup Verdicts(c) : m.localSeq \in Locals(c)
      /\ owed[c] \in 0..Len(fate[c]) /\ caughtUp[c] \in 0..Len(fate[c])
      /\ Len(fate[c]) \in Nat /\ Locals(c) = 1..Len(fate[c])
  BY LocalsDomain DEF Known, Tracked, Named, TypedOf, Locals
<1> QED BY <1>1, <1>2 DEF Local

(* What comes after everything else still does when only markers are       *)
(* forgotten.                                                              *)
LEMMA BehindStays ==
  ASSUME NEW c, NEW l, Behind(c, l), log' = log, owed'[c] = owed[c],
         Unheard(c, l) => Unheard(c, l)'
  PROVE  Behind(c, l)'
  BY DEF Behind, HeadSeq, Local

(* What comes after a commit that is behind all is behind all as well.     *)
LEMMA BehindMore ==
  ASSUME NEW c \in Client, Known(c), NEW k \in Int, NEW l \in Int, k < l, Behind(c, k)
  PROVE  Behind(c, l)
<1>1. \A s \in 1..HeadSeq : log[s].client = c => Local(s) < l
  BY LocalsAreNat DEF Behind
<1>2. owed[c] < l /\ caughtUp[c] < l
  BY LocalsAreNat DEF Behind, Unheard
<1>3. \A j \in Places(c) : ~Marks(c, j, l)
  <2>1. \A j \in Places(c) : IsSync(c, j) => toClient[c][j].marker \in Nat
    BY LocalsDomain DEF Known, TypedOf, MessageOK, IsSync
  <2> QED BY <2>1 DEF Behind, Unheard, Marks
<1> QED BY <1>1, <1>2, <1>3 DEF Behind, Unheard

(* What the steps of c, those of its replica and of its link, do to markers. *)
LEMMA MovesMarks ==
  ASSUME NEW c \in Client, Shapes, TypedOf(c), ClientMoves(c), NEW l \in Int
  PROVE  /\ Unheard(c, l) => Unheard(c, l)'
         /\ Parkable(c) => (Unheard(c, l)' <=> Unheard(c, l))
<1>1. CASE \/ Retreats(c)
           \/ \E tx \in Tx[c] : Commits(c, tx)
           \/ \E k : Dispatches(c, k)
  <2>1. toClient'[c] = toClient[c] /\ caughtUp'[c] = caughtUp[c]
    BY <1>1 DEF Retreats, Commits, Dispatches, LinkSame, BaseSame
  <2> QED BY <2>1, LinkSameMarks
<1>2. CASE \E m : Takes(c, m) /\ m.type = "sync" /\ ~Parkable(c) /\ caughtUp'[c] = caughtUp[c]
  BY <1>2, ForgetsMarks
<1>3. CASE \E m : Takes(c, m) /\ Notes(c, m)
  BY <1>3, NotesMarks
<1>4. ASSUME NEW m, Ignores(c, m)
      PROVE  \/ Takes(c, m) /\ Notes(c, m)
             \/ Takes(c, m) /\ m.type = "sync" /\ ~Parkable(c) /\ caughtUp'[c] = caughtUp[c]
  BY <1>4 DEF Ignores, Notes, BaseSame
<1>5. ASSUME NEW m, NEW k, Heeds(c, m, k) PROVE Takes(c, m) /\ Notes(c, m)
  BY <1>5 DEF Heeds, Notes
<1>6. ASSUME NEW m, NEW g, Takes(c, m), m.type = "sync", Syncs(c, m, g)
      PROVE  Takes(c, m) /\ Notes(c, m)
  BY <1>6 DEF Syncs, Notes
<1> QED BY <1>1, <1>2, <1>3, <1>4, <1>5, <1>6 DEF ClientMoves

(* A step of a client keeps its commits in order.                          *)
LEMMA OrderedMoves ==
  ASSUME NEW c \in Client, Known(c), Ordered(c), ServerSame, ClientMoves(c)
  PROVE  Ordered(c)'
<1>1. ASSUME NEW l \in Int, Behind(c, l) PROVE Behind(c, l)'
  BY <1>1, MovesMarks, BehindStays DEF Known, ServerSame
<1>2. /\ \A l \in Locals(c) : l \in Int /\ l < Len(fate[c]) + 1 /\ l \in Nat
      /\ Len(fate[c]) + 1 \in Nat /\ \A m \in Sent(c) : m.localSeq \in Locals(c)
  BY LocalsAreNat
<1>3. RowsOrdered(c)'
  BY DEF Ordered, RowsOrdered, ServerSame, HeadSeq, Local
<1>4. ASSUME toServer'[c] = toServer[c], Len(fate'[c]) = Len(fate[c]),
             \A l \in Locals(c) : Waiting(c, l)' => Waiting(c, l)
      PROVE  Ordered(c)'
  <2>1. SentOrdered(c)' /\ Sent(c)' = Sent(c) /\ Locals(c)' = Locals(c)
    BY <1>4 DEF Ordered, SentOrdered, Sent, Locals
  <2>2. SentLast(c)'
    BY <1>1, <1>2, <2>1 DEF Ordered, SentLast
  <2>3. WaitLast(c)'
    BY <1>1, <1>2, <1>4, <2>1 DEF Ordered, WaitLast
  <2>4. NextLast(c)'
    <3>1. PICK n \in Int : n = Len(fate[c]) + 1 /\ n = Len(fate'[c]) + 1
      BY <1>2, <1>4
    <3>2. Behind(c, n)'
      BY <1>1, <3>1 DEF Ordered, NextLast
    <3> QED BY <3>1, <3>2 DEF NextLast
  <2> QED BY <1>3, <2>1, <2>2, <2>3, <2>4 DEF Ordered
<1>5. CASE Retreats(c)
  <2>1. toServer'[c] = toServer[c] /\ Len(fate'[c]) = Len(fate[c])
    BY <1>5 DEF Retreats, LinkSame
  <2>2. \A l \in Locals(c) : Waiting(c, l)' => Waiting(c, l)
    BY <1>5 DEF Retreats, Loses, Waiting, St, Kept
  <2> QED BY <1>4, <2>1, <2>2
<1>6. ASSUME NEW tx \in Tx[c], Commits(c, tx) PROVE Ordered(c)'
  <2>1. PICK n \in Nat : n = Len(fate[c]) + 1
    BY <1>2
  <2>2. /\ toServer'[c] = toServer[c] /\ Len(fate'[c]) = n /\ n + 1 \in Nat /\ n < n + 1
        /\ \A l \in Locals(c) : Kept(c, l)
    BY <1>6, <2>1 DEF Commits, LinkSame, NextLocal
  <2>3. /\ SentOrdered(c)' /\ Sent(c)' = Sent(c)
        /\ \A l \in Locals(c)' : l \in Locals(c) \/ l = n
    BY <2>1, <2>2 DEF Ordered, SentOrdered, Sent, Locals
  <2>4. Behind(c, n)' /\ Behind(c, n)
    BY <1>1, <2>1 DEF Ordered, NextLast
  <2>5. SentLast(c)'
    BY <1>1, <1>2, <2>3 DEF Ordered, SentLast
  <2>6. WaitLast(c)'
    <3>1. \A l \in Locals(c) : Waiting(c, l)' => Waiting(c, l)
      BY <2>2 DEF Kept, Waiting, St
    <3>2. \A m \in Sent(c) : m.localSeq < n
      BY <1>2, <2>1
    <3> QED BY <1>1, <1>2, <2>3, <2>4, <3>1, <3>2 DEF Ordered, WaitLast
  <2>7. Behind(c, n + 1)
    BY <2>2, <2>4, BehindMore
  <2>8. PICK k \in Int : k = n + 1
    OBVIOUS
  <2>9. Behind(c, k)'
    BY <1>1, <2>7, <2>8
  <2>10. NextLast(c)'
    BY <2>2, <2>8, <2>9 DEF NextLast
  <2> QED BY <1>3, <2>3, <2>5, <2>6, <2>10 DEF Ordered
<1>7. ASSUME NEW l, Dispatches(c, l) PROVE Ordered(c)'
  <2> DEFINE q == pending[c][l].commit
  <2>1. /\ l \in Locals(c) /\ St(c, l) = "queued" /\ q.localSeq = l /\ Waiting(c, l)
        /\ toServer'[c] = Append(toServer[c], q) /\ Len(fate'[c]) = Len(fate[c])
        /\ \A k \in Locals(c) : Waiting(c, k) => l <= k
        /\ \A k \in Locals(c) : Waiting(c, k)' => Waiting(c, k) /\ k # l
    BY <1>7 DEF Dispatches, Waiting, AllKept, Kept, St, Known, Tracked, Named
  <2> HIDE DEF q
  <2>2. Sent(c)' = Sent(c) \cup {q} /\ Locals(c)' = Locals(c)
    BY <2>1, AppendSent DEF Known, Locals
  <2>3. \A m \in Sent(c) : m.localSeq < l
    BY <2>1 DEF Ordered, WaitLast
  <2>4. Behind(c, l)
    BY <2>1 DEF Ordered, WaitLast
  <2>5. SentOrdered(c)'
    <3>1. /\ Len(toServer[c]) \in Nat /\ Len(toServer'[c]) = Len(toServer[c]) + 1
          /\ \A i \in 1..Len(toServer[c]) : toServer'[c][i] = toServer[c][i]
          /\ toServer'[c][Len(toServer[c]) + 1] = q
      BY <2>1, LocalsDomain, AppendSeq DEF Known
    <3>2. \A i \in 1..Len(toServer[c]) : toServer[c][i] \in Sent(c)
      BY DEF Sent
    <3> SUFFICES ASSUME NEW i \in 1..Len(toServer'[c]), NEW j \in 1..Len(toServer'[c]), i < j
                 PROVE  toServer'[c][i].localSeq < toServer'[c][j].localSeq
      BY DEF SentOrdered
    <3>3. i \in 1..Len(toServer[c]) /\ (j \in 1..Len(toServer[c]) \/ j = Len(toServer[c]) + 1)
      BY <3>1
    <3>4. CASE j \in 1..Len(toServer[c])
      BY <3>1, <3>3, <3>4 DEF Ordered, SentOrdered
    <3>5. CASE j = Len(toServer[c]) + 1
      BY <2>1, <2>3, <3>1, <3>2, <3>3, <3>5
    <3> QED BY <3>3, <3>4, <3>5
  <2>6. SentLast(c)'
    BY <1>1, <1>2, <2>1, <2>2, <2>4 DEF Ordered, SentLast
  <2>7. WaitLast(c)'
    <3>1. \A k \in Locals(c) : Waiting(c, k)' => Behind(c, k)'
      BY <1>1, <1>2, <2>1 DEF Ordered, WaitLast
    <3>2. \A k \in Locals(c) : Waiting(c, k)' => l < k
      BY <1>2, <2>1
    <3>3. \A k \in Locals(c) : Waiting(c, k)' => \A m \in Sent(c) : m.localSeq < k
      BY <2>1 DEF Ordered, WaitLast
    <3> QED BY <2>1, <2>2, <3>1, <3>2, <3>3 DEF WaitLast
  <2>8. NextLast(c)'
    <3>1. PICK n \in Int : n = Len(fate[c]) + 1 /\ n = Len(fate'[c]) + 1
      BY <1>2, <2>1
    <3>2. Behind(c, n)'
      BY <1>1, <3>1 DEF Ordered, NextLast
    <3> QED BY <3>1, <3>2 DEF NextLast
  <2> QED BY <1>3, <2>5, <2>6, <2>7, <2>8 DEF Ordered
<1>8. ASSUME NEW m, Ignores(c, m) PROVE Ordered(c)'
  BY <1>4, <1>8 DEF Ignores, Takes, Waiting, St, Locals
<1>9. ASSUME NEW m, NEW l, Heeds(c, m, l) PROVE Ordered(c)'
  <2>1. toServer'[c] = toServer[c] /\ Len(fate'[c]) = Len(fate[c])
    BY <1>9 DEF Heeds, Takes
  <2>2. ASSUME NEW k \in Locals(c), Waiting(c, k)' PROVE Waiting(c, k)
    <3>1. St(c, l)' \notin {"queued", "doomed"} /\ AllKept(c, {l})
      BY <1>9 DEF Heeds
    <3> QED BY <2>2, <3>1 DEF AllKept, Kept, Waiting, St
  <2> QED BY <1>4, <2>1, <2>2
<1>10. ASSUME NEW m, NEW g, Takes(c, m), Syncs(c, m, g) PROVE Ordered(c)'
  <2>1. toServer'[c] = toServer[c] /\ Len(fate'[c]) = Len(fate[c])
    BY <1>10 DEF Syncs, Takes
  <2>2. ASSUME NEW k \in Locals(c), Waiting(c, k)' PROVE Waiting(c, k)
    <3>1. pending'[c][k] = IF Due(pending[c][k], Caught(c, m)) THEN Gone ELSE pending[c][k]
      BY <1>10 DEF Syncs
    <3> QED BY <2>2, <3>1 DEF Waiting, St, Gone
  <2> QED BY <1>4, <2>1, <2>2
<1> QED BY <1>5, <1>6, <1>7, <1>8, <1>9, <1>10 DEF ClientMoves

(* The log as a client sees it when it gains no row of its own.             *)
RowsSame(d) ==
  /\ HeadSeq \in Nat /\ HeadSeq' \in Nat /\ HeadSeq <= HeadSeq'
  /\ \A s \in 1..HeadSeq : log'[s] = log[s] /\ s \in 1..HeadSeq'
  /\ \A s \in 1..HeadSeq' : log'[s].client = d => s \in 1..HeadSeq

(* So does a step of another client, which adds no row of this one.        *)
LEMMA ApartOrdered ==
  ASSUME NEW d, Ordered(d), Apart(d), RowsSame(d)
  PROVE  Ordered(d)'
<1>1. \A l : Behind(d, l) => Behind(d, l)'
  <2>1. \A l : Unheard(d, l)' <=> Unheard(d, l)
    BY LinkSameMarks DEF Apart, LinkSame, BaseSame
  <2> QED BY <2>1 DEF Behind, RowsSame, Apart, Local
<1>2. /\ Sent(d)' = Sent(d) /\ Locals(d)' = Locals(d) /\ Len(fate'[d]) = Len(fate[d])
      /\ \A l : Waiting(d, l)' <=> Waiting(d, l)
  BY DEF Apart, LinkSame, Sent, Locals, Waiting, St
<1>3. RowsOrdered(d)'
  BY DEF Ordered, RowsOrdered, RowsSame, Local
<1>4. SentOrdered(d)'
  BY DEF Ordered, SentOrdered, Apart, LinkSame
<1>5. SentLast(d)' /\ WaitLast(d)'
  BY <1>1, <1>2 DEF Ordered, SentLast, WaitLast
<1>6. NextLast(d)'
  <2>1. PICK n : n = Len(fate[d]) + 1 /\ n = Len(fate'[d]) + 1
    BY <1>2
  <2>2. Behind(d, n)'
    BY <1>1, <2>1 DEF Ordered, NextLast
  <2> QED BY <2>1, <2>2 DEF NextLast
<1> QED BY <1>3, <1>4, <1>5, <1>6 DEF Ordered

(* An answer to h: every commit of c still to come is behind h.             *)
Gains(c, h) ==
  /\ HeadSeq \in Nat /\ HeadSeq' \in Nat /\ HeadSeq <= HeadSeq' /\ HeadSeq' <= HeadSeq + 1
  /\ \A s \in 1..HeadSeq : log'[s] = log[s] /\ s \in 1..HeadSeq'
  /\ \A s \in 1..HeadSeq' : s \in 1..HeadSeq \/ (s = HeadSeq + 1 /\ log'[s].client = c
                                                /\ log'[s].commit = h)

(* An answer appends the commit it answers, or nothing.                    *)
LEMMA AnswerGains ==
  ASSUME NEW c, Shapes, NEW h, NEW v, Refuses(h, v) \/ \E row : Accepts(c, h, v, row)
  PROVE  Gains(c, h)
<1>1. HeadSeq \in Nat
  BY AnySeq DEF Shapes, IsSeq, HeadSeq
<1>2. CASE Refuses(h, v)
  BY <1>1, <1>2 DEF Refuses, Gains, HeadSeq
<1>3. ASSUME NEW row, Accepts(c, h, v, row) PROVE Gains(c, h)
  <2>1. /\ HeadSeq' = HeadSeq + 1 /\ 1..HeadSeq' = (1..HeadSeq) \cup {HeadSeq + 1}
        /\ \A s \in 1..HeadSeq : log'[s] = log[s]
        /\ log'[HeadSeq + 1] = row /\ row.client = c /\ row.commit = h
    BY <1>3, LogGrows DEF Accepts
  <2> QED BY <1>1, <2>1 DEF Gains
<1> QED BY <1>2, <1>3

(* An answer keeps the order: the commit answered came first of those in   *)
(* flight.                                                                 *)
LEMMA OrderedAnswer ==
  ASSUME NEW c \in Client, Known(c), Ordered(c), NEW h, NEW v, Handles(c, h, v),
         v.type # "sync", Gains(c, h)
  PROVE  Ordered(c)'
<1>1. /\ h \in Sent(c) /\ h = toServer[c][1] /\ toServer[c] # <<>>
      /\ toServer'[c] = Tail(toServer[c]) /\ toClient'[c] = Append(toClient[c], v)
      /\ owed'[c] = h.localSeq /\ caughtUp' = caughtUp /\ pending' = pending /\ fate' = fate
  BY DEF Handles
<1>2. /\ \A l \in Locals(c) : l \in Int /\ l < Len(fate[c]) + 1 /\ l \in Nat
      /\ Len(fate[c]) + 1 \in Nat /\ \A m \in Sent(c) : m.localSeq \in Locals(c)
  BY LocalsAreNat
<1>3. \A l : Unheard(c, l)' <=> Unheard(c, l)
  BY <1>1, AppendMarks DEF Known
<1>4. ASSUME NEW l \in Int, h.localSeq < l, Behind(c, l) PROVE Behind(c, l)'
  <2>1. \A s \in 1..HeadSeq' : log'[s].client = c => Local(s)' < l
    BY <1>4 DEF Gains, Behind, Local
  <2> QED BY <1>1, <1>3, <1>4, <2>1 DEF Behind
<1>5. /\ Len(toServer[c]) \in Nat /\ Len(toServer'[c]) = Len(toServer[c]) - 1
      /\ \A i \in 1..Len(toServer'[c]) : toServer'[c][i] = toServer[c][i + 1]
      /\ Len(toServer[c]) >= 1
  BY <1>1, LocalsDomain, TailSeq DEF Known
<1>6. \A i \in 1..Len(toServer'[c]) : i + 1 \in 1..Len(toServer[c]) /\ 1 < i + 1 /\ i \in Nat
  BY <1>5
<1>7. SentOrdered(c)'
  <2>1. \A i, j \in 1..Len(toServer'[c]) : i < j => i + 1 < j + 1
    BY <1>6
  <2> QED BY <1>5, <1>6, <2>1 DEF Ordered, SentOrdered
<1>8. ASSUME NEW m \in Sent(c)' PROVE m \in Sent(c) /\ h.localSeq < m.localSeq
  <2>1. PICK i \in 1..Len(toServer'[c]) : m = toServer'[c][i]
    BY <1>8 DEF Sent
  <2>2. 1 \in 1..Len(toServer[c])
    BY <1>5
  <2> QED BY <1>1, <1>5, <1>6, <2>1, <2>2 DEF Ordered, SentOrdered, Sent
<1>9. SentLast(c)'
  BY <1>2, <1>4, <1>8 DEF Ordered, SentLast
<1>10. WaitLast(c)'
  <2>1. Locals(c)' = Locals(c) /\ \A l : Waiting(c, l)' <=> Waiting(c, l)
    BY <1>1 DEF Locals, Waiting, St
  <2>2. \A l \in Locals(c) : Waiting(c, l) => Behind(c, l) /\ \A m \in Sent(c) : m.localSeq < l
    BY DEF Ordered, WaitLast
  <2> QED BY <1>1, <1>2, <1>4, <1>8, <2>1, <2>2 DEF WaitLast
<1>11. NextLast(c)'
  <2>1. PICK n \in Int : n = Len(fate[c]) + 1
    BY <1>2
  <2>2. Behind(c, n)'
    BY <1>1, <1>2, <1>4, <2>1 DEF Ordered, NextLast
  <2> QED BY <1>1, <2>1, <2>2 DEF NextLast
<1>12. RowsOrdered(c)'
  <2> SUFFICES ASSUME NEW s \in 1..HeadSeq', NEW t \in 1..HeadSeq',
                      log'[s].client = c, log'[t].client = c, s < t
               PROVE  Local(s)' < Local(t)'
    BY DEF RowsOrdered
  <2>1. s \in 1..HeadSeq
    BY DEF Gains
  <2>2. CASE t \in 1..HeadSeq
    BY <2>1, <2>2 DEF Ordered, RowsOrdered, Gains, Local
  <2>3. CASE t \notin 1..HeadSeq
    <3>1. log'[t].commit = h /\ log'[s] = log[s]
      BY <2>1, <2>3 DEF Gains
    <3>2. Local(s) < h.localSeq
      BY <1>1, <2>1, <3>1 DEF Ordered, SentLast, Behind
    <3> QED BY <3>1, <3>2 DEF Local
  <2> QED BY <2>2, <2>3
<1> QED BY <1>7, <1>9, <1>10, <1>11, <1>12 DEF Ordered

(* A flush keeps the order: the marker it sends is of a commit answered.   *)
LEMMA OrderedFlush ==
  ASSUME NEW d \in Client, Known(d), Ordered(d), Flushes(d), log' = log
  PROVE  Ordered(d)'
<1>1. /\ toServer'[d] = toServer[d] /\ caughtUp'[d] = caughtUp[d]
      /\ pending'[d] = pending[d] /\ fate'[d] = fate[d] /\ owed'[d] = 0
      /\ \/ toClient'[d] = toClient[d]
         \/ toClient'[d] = Append(toClient[d], Frame(d))
  BY DEF Flushes, BaseSame
<1>2. /\ \A l \in Locals(d) : l \in Nat /\ l >= 1
      /\ Len(fate[d]) \in Nat /\ Len(fate[d]) + 1 \in Nat /\ owed[d] \in Nat
      /\ \A m \in Sent(d) : m.localSeq \in Locals(d)
  BY LocalsAreNat, LocalsDomain DEF Known
<1>3. ASSUME NEW l \in Nat, l >= 1, Behind(d, l) PROVE Behind(d, l)'
  <2>1. ~(Frame(d).marker >= l)
    BY <1>2, <1>3 DEF Frame, Behind
  <2>2. Unheard(d, l)'
    BY <1>1, <1>3, <2>1, LinkSameMarks, AppendMarks DEF Known, Behind
  <2>3. owed'[d] < l
    BY <1>1, <1>3
  <2> QED BY <1>3, <2>2, <2>3 DEF Behind, HeadSeq, Local
<1>4. /\ Sent(d)' = Sent(d) /\ Locals(d)' = Locals(d) /\ Len(fate'[d]) = Len(fate[d])
      /\ \A l : Waiting(d, l)' <=> Waiting(d, l)
  BY <1>1 DEF Sent, Locals, Waiting, St
<1>5. RowsOrdered(d)' /\ SentOrdered(d)'
  BY <1>1 DEF Ordered, RowsOrdered, SentOrdered, HeadSeq, Local
<1>6. SentLast(d)' /\ WaitLast(d)'
  BY <1>2, <1>3, <1>4 DEF Ordered, SentLast, WaitLast
<1>7. NextLast(d)'
  <2>1. PICK n \in Nat : n = Len(fate[d]) + 1 /\ n = Len(fate'[d]) + 1
    BY <1>2, <1>4
  <2>2. n >= 1
    BY <1>2, <2>1
  <2>3. Behind(d, n)'
    BY <1>3, <2>1, <2>2 DEF Ordered, NextLast
  <2> QED BY <2>1, <2>3 DEF NextLast
<1> QED BY <1>5, <1>6, <1>7 DEF Ordered

-----------------------------------------------------------------------------
(* Decisions: the verdicts in flight, the rows and the repairs they come to. *)
(* Commit l of c was decided when the head of the log was g.                *)
Refused(c, l, g) ==
  \/ \E i \in Places(c) : /\ toClient[c][i].type = "reject"
                          /\ toClient[c][i].localSeq = l
                          /\ toClient[c][i].seq = g
  \/ /\ l \in Locals(c) /\ St(c, l) = "repairing"
     /\ pending[c][l].gate.marker = l /\ pending[c][l].gate.seq = g

Decided(c, l, g) == (Own(g, c) /\ Local(g) = l) \/ Refused(c, l, g)

VerdictSeqs(c) ==
  \A i \in Places(c) : toClient[c][i].type = "accept" =>
    Own(toClient[c][i].seq, c) /\ Local(toClient[c][i].seq) = toClient[c][i].localSeq
ParkedSeqs(c) ==
  \A l \in Locals(c) : St(c, l) = "parked" =>
    /\ Own(pending[c][l].seq, c)
    /\ log[pending[c][l].seq].commit = pending[c][l].commit
Awaiting(c) ==
  \A l \in Locals(c) : St(c, l) = "sent" =>
    \/ AtServer(c, l)
    \/ \E i \in Places(c) : ~IsSync(c, i) /\ toClient[c][i].localSeq = l
VerdictFirst(c) ==
  \A i \in Places(c) : ~IsSync(c, i) => Unmarked(c, i, toClient[c][i].localSeq)
ParkedWaits(c) ==
  \A l \in Locals(c) : St(c, l) = "parked" => caughtUp[c] < l
RefusedAfter(c) ==
  \A l, g : Refused(c, l, g) =>
    /\ l \in Locals(c) /\ g \in 0..HeadSeq
    /\ \A s \in 1..HeadSeq : log[s].client = c /\ s <= g => Local(s) < l
RowsMarked(c) ==
  Parkable(c) => \A s \in 1..HeadSeq : log[s].client = c =>
    IF s > flushed THEN owed[c] >= Local(s) ELSE ~Unheard(c, Local(s))
MarksFlushed(c) ==
  \A l, g : Decided(c, l, g) /\ ~Unheard(c, l) => g <= flushed

Answers(c) ==
  /\ VerdictSeqs(c) /\ ParkedSeqs(c) /\ Awaiting(c) /\ VerdictFirst(c) /\ ParkedWaits(c)
  /\ RefusedAfter(c) /\ RowsMarked(c) /\ MarksFlushed(c)

-----------------------------------------------------------------------------
(* Steps of a replica leave messages where they are, or take the first.     *)
Shifts(c, k) ==
  /\ \A i \in Places(c)' : /\ i + k \in Places(c) /\ toClient'[c][i] = toClient[c][i + k]
                           /\ \A l \in Int : /\ Unmarked(c, i + k, l) => Unmarked(c, i, l)'
                                             /\ Parkable(c) /\ Unmarked(c, i, l)' => Unmarked(c, i + k, l)
  /\ \A i \in Places(c) : i <= k \/ (i - k \in Places(c)' /\ toClient'[c][i - k] = toClient[c][i])

(* In a move of a client its messages stay where they are, or the first is *)
(* taken.                                                                  *)
LEMMA MovesPlaces ==
  ASSUME NEW c \in Client, Shapes, TypedOf(c), ClientMoves(c)
  PROVE  \/ LinkSame(c) /\ Shifts(c, 0)
         \/ toClient'[c] = toClient[c] /\ Shifts(c, 0) /\ \E l : Dispatches(c, l)
         \/ \E m : Takes(c, m) /\ Shifts(c, 1)
<1>1. ASSUME toClient'[c] = toClient[c], caughtUp'[c] = caughtUp[c] PROVE Shifts(c, 0)
  <2>1. Places(c)' = Places(c) /\ \A i \in Places(c) : i + 0 = i /\ i - 0 = i
    BY <1>1 DEF Places
  <2>2. \A l \in Int : \A i : Unmarked(c, i, l)' <=> Unmarked(c, i, l)
    BY <1>1, LinkSameMarks
  <2> QED BY <1>1, <2>1, <2>2 DEF Shifts
<1>2. ASSUME NEW m, Takes(c, m),
             \/ Notes(c, m)
             \/ ~Parkable(c) /\ caughtUp'[c] = caughtUp[c]
      PROVE  Shifts(c, 1)
  <2>1. /\ \A i \in Places(c)' : i + 1 \in Places(c) /\ toClient'[c][i] = toClient[c][i + 1]
        /\ \A i \in Places(c) :
             i = 1 \/ (i - 1 \in Places(c)' /\ toClient'[c][i - 1] = toClient[c][i])
    BY <1>2, TakesPlaces
  <2>2. \A l \in Int : \A i \in Places(c)' :
          /\ Unmarked(c, i + 1, l) => Unmarked(c, i, l)'
          /\ Parkable(c) /\ Unmarked(c, i, l)' => Unmarked(c, i + 1, l)
    BY <1>2, NotesMarks, ForgetsMarks
  <2>3. \A i \in Places(c) : i = 1 => i <= 1
    OBVIOUS
  <2> QED BY <2>1, <2>2, <2>3 DEF Shifts
<1>3. CASE Retreats(c) \/ \E tx \in Tx[c] : Commits(c, tx)
  BY <1>1, <1>3 DEF Retreats, Commits, LinkSame, BaseSame
<1>4. CASE \E l : Dispatches(c, l)
  BY <1>1, <1>4 DEF Dispatches, BaseSame
<1>5. ASSUME NEW m, Ignores(c, m) PROVE Takes(c, m) /\ Shifts(c, 1)
  BY <1>2, <1>5 DEF Ignores, Notes, BaseSame
<1>6. ASSUME NEW m, NEW l, Heeds(c, m, l) PROVE Takes(c, m) /\ Shifts(c, 1)
  BY <1>2, <1>6 DEF Heeds, Notes
<1>7. ASSUME NEW m, NEW g, Takes(c, m), m.type = "sync", Syncs(c, m, g) PROVE Shifts(c, 1)
  BY <1>2, <1>7 DEF Syncs, Notes
<1> QED BY <1>3, <1>4, <1>5, <1>6, <1>7 DEF ClientMoves

(* What a layer of a replica comes to in a step of it.                      *)
LEMMA LayerComes ==
  ASSUME NEW c \in Client, Known(c), ClientMoves(c), NEW l \in Locals(c)'
  PROVE  /\ St(c, l)' = "parked" =>
              /\ l \in Locals(c)
              /\ \/ pending'[c][l] = pending[c][l] /\ caughtUp'[c] = caughtUp[c]
                 \/ pending'[c][l] = pending[c][l] /\ caughtUp'[c] < l
                 \/ \E m : /\ Takes(c, m) /\ m.type = "accept" /\ l = m.localSeq
                           /\ pending'[c][l].seq = m.seq /\ St(c, l) = "sent"
                           /\ pending'[c][l].commit = pending[c][l].commit
                           /\ caughtUp'[c] < l
         /\ St(c, l)' = "sent" =>
              /\ l \in Locals(c)
              /\ \/ /\ St(c, l) = "sent" /\ toServer'[c] = toServer[c]
                    /\ \A m : Takes(c, m) /\ m.type # "sync" => m.localSeq # l
                 \/ toServer'[c] = toServer[c] /\ LinkSame(c) /\ St(c, l) = "sent"
                 \/ /\ toServer'[c] = Append(toServer[c], pending[c][l].commit)
                    /\ toClient'[c] = toClient[c] /\ St(c, l) = "queued"
                 \/ \E k : Dispatches(c, k) /\ St(c, l) = "sent"
         /\ St(c, l)' = "repairing" =>
              \/ pending'[c][l] = pending[c][l] /\ l \in Locals(c)
              \/ pending'[c][l].gate.marker = 0
              \/ \E m : /\ Takes(c, m) /\ m.type \notin {"sync", "accept"} /\ l = m.localSeq
                        /\ pending'[c][l].gate.seq = m.seq
<1>1. CASE Retreats(c)
  <2>1. l \in Locals(c) /\ Loses(c, l) /\ LinkSame(c) /\ BaseSame(c)
    BY <1>1 DEF Retreats, Locals
  <2> QED BY <2>1 DEF Loses, Kept, St, LinkSame, BaseSame
<1>2. ASSUME NEW tx \in Tx[c], Commits(c, tx) PROVE
         /\ St(c, l)' # "sent" \/ (l \in Locals(c) /\ Kept(c, l))
         /\ St(c, l)' # "parked" \/ (l \in Locals(c) /\ Kept(c, l))
         /\ pending'[c][l].gate.marker = 0 \/ St(c, l)' # "repairing" \/ (l \in Locals(c) /\ Kept(c, l))
         /\ LinkSame(c) /\ BaseSame(c)
  <2>1. PICK n : n = NextLocal(c)
    OBVIOUS
  <2>2. l \in Locals(c) \/ l = n
    BY <1>2, <2>1, LocalsDomain DEF Commits, Known, Locals, NextLocal
  <2> QED BY <1>2, <2>1, <2>2 DEF Commits, St
<1>3. CASE \E tx \in Tx[c] : Commits(c, tx)
  BY <1>2, <1>3 DEF Kept, St, LinkSame, BaseSame
<1>4. ASSUME NEW k, Dispatches(c, k) PROVE
         /\ l \in Locals(c) /\ BaseSame(c) /\ toClient'[c] = toClient[c]
         /\ \/ pending'[c][l] = pending[c][l] /\ l # k
            \/ /\ l = k /\ St(c, l) = "queued" /\ St(c, l)' = "sent"
               /\ toServer'[c] = Append(toServer[c], pending[c][l].commit)
  BY <1>4 DEF Dispatches, AllKept, Kept, Locals
<1>5. CASE \E k : Dispatches(c, k)
  BY <1>4, <1>5 DEF St, BaseSame
<1>6. CASE \E m : Ignores(c, m)
  <2>1. PICK m : Ignores(c, m)
    BY <1>6
  <2>2. l \in Locals(c) /\ pending'[c][l] = pending[c][l] /\ caughtUp'[c] = caughtUp[c]
    BY <2>1 DEF Ignores, BaseSame, Locals
  <2>3. \A n : Takes(c, n) => n = m
    BY <2>1 DEF Ignores, Takes
  <2>4. m.type # "sync" => St(c, m.localSeq) # "sent"
    BY <2>1 DEF Ignores
  <2> QED BY <2>1, <2>2, <2>3, <2>4 DEF Ignores, Takes, St
<1>7. CASE \E m, k : Heeds(c, m, k)
  <2>1. PICK m, k : Heeds(c, m, k)
    BY <1>7
  <2>2. /\ l \in Locals(c) /\ caughtUp'[c] = caughtUp[c] /\ Takes(c, m)
        /\ k = m.localSeq /\ St(c, k) = "sent" /\ m.type # "sync"
    BY <2>1 DEF Heeds, Locals
  <2>3. \A n : Takes(c, n) => n = m
    BY <2>1 DEF Heeds, Takes
  <2>4. CASE l # k
    <3>1. pending'[c][l] = pending[c][l]
      BY <2>1, <2>2, <2>4 DEF Heeds, AllKept, Kept
    <3> QED BY <2>2, <2>3, <2>4, <3>1 DEF St, Takes
  <2>5. CASE l = k
    BY <2>1, <2>2, <2>5 DEF Heeds, St
  <2> QED BY <2>4, <2>5
<1>8. CASE \E m, g : Takes(c, m) /\ m.type = "sync" /\ Syncs(c, m, g)
  <2>1. PICK m, g : Takes(c, m) /\ m.type = "sync" /\ Syncs(c, m, g)
    BY <1>8
  <2>2. \A n : Takes(c, n) => n = m
    BY <2>1 DEF Takes
  <2>3. /\ l \in Locals(c) /\ caughtUp'[c] = Caught(c, m)
        /\ pending'[c][l] = IF Due(pending[c][l], Caught(c, m)) THEN Gone ELSE pending[c][l]
    BY <2>1 DEF Syncs, Locals
  <2>4. CASE Due(pending[c][l], Caught(c, m))
    BY <2>3, <2>4 DEF St, Gone
  <2>5. CASE ~Due(pending[c][l], Caught(c, m))
    <3>1. pending'[c][l] = pending[c][l]
      BY <2>3, <2>5
    <3>2. St(c, l) = "parked" => caughtUp'[c] < l
      <4>1. PICK k \in Int : k = Caught(c, m)
        <5>1. caughtUp[c] \in Int /\ m.marker \in Int
          <6>1. 1 \in Places(c) /\ toClient[c][1] = m
            BY <2>1, TakesPlaces DEF Known
          <6>2. MessageOK(c, m)
            BY <6>1 DEF Known, TypedOf
          <6> QED BY <2>1, <6>2, LocalsDomain DEF Known, TypedOf, MessageOK
        <5> QED BY <5>1 DEF Caught
      <4>2. St(c, l) = "parked" => pending[c][l].commit.localSeq = l
        BY <2>3 DEF Known, Tracked, Named
      <4>3. l \in Int
        BY <2>3, LocalsAreNat
      <4> QED BY <2>3, <2>5, <4>1, <4>2, <4>3 DEF Due, St
    <3> QED BY <2>1, <2>2, <2>3, <3>1, <3>2 DEF St, Takes
  <2> QED BY <2>4, <2>5
<1> QED BY <1>1, <1>3, <1>5, <1>6, <1>7, <1>8 DEF ClientMoves

(* A step of a replica refuses nothing, it moves a refusal to its layer.    *)
LEMMA RefusedKept ==
  ASSUME NEW c \in Client, Known(c), ClientMoves(c), NEW l, NEW g, Refused(c, l, g)'
  PROVE  Refused(c, l, g)
<1>1. PICK k \in {0, 1} : Shifts(c, k)
  BY MovesPlaces DEF Known
<1>2. CASE \E i \in Places(c)' : /\ toClient'[c][i].type = "reject"
                                 /\ toClient'[c][i].localSeq = l
                                 /\ toClient'[c][i].seq = g
  <2>1. PICK i \in Places(c)' : /\ toClient'[c][i].type = "reject"
                                /\ toClient'[c][i].localSeq = l
                                /\ toClient'[c][i].seq = g
    BY <1>2
  <2>2. i + k \in Places(c) /\ toClient'[c][i] = toClient[c][i + k]
    BY <1>1, <2>1 DEF Shifts
  <2> QED BY <2>1, <2>2 DEF Refused
<1>3. CASE /\ l \in Locals(c)' /\ St(c, l)' = "repairing"
           /\ pending'[c][l].gate.marker = l /\ pending'[c][l].gate.seq = g
  <2>1. l # 0
    BY <1>3 DEF Locals
  <2>2. CASE pending'[c][l] = pending[c][l] /\ l \in Locals(c)
    BY <1>3, <2>2 DEF Refused, St
  <2>3. ASSUME NEW m, Takes(c, m), m.type \notin {"sync", "accept"}, l = m.localSeq,
               pending'[c][l].gate.seq = m.seq
        PROVE  Refused(c, l, g)
    <3>1. 1 \in Places(c) /\ toClient[c][1] = m
      BY <2>3, TakesPlaces DEF Known
    <3>2. m.type = "reject"
      BY <2>3, <3>1 DEF Known, TypedOf, MessageOK
    <3> QED BY <1>3, <2>3, <3>1, <3>2 DEF Refused
  <2> QED BY <1>3, <2>1, <2>2, <2>3, LayerComes
<1> QED BY <1>2, <1>3 DEF Refused

(* A move of a client decides nothing: what is decided after it was        *)
(* decided before.                                                         *)
LEMMA DecidedKept ==
  ASSUME NEW c \in Client, Known(c), ServerSame, ClientMoves(c), NEW l, NEW g, Decided(c, l, g)'
  PROVE  Decided(c, l, g)
<1>1. Own(g, c)' /\ Local(g)' = l => Own(g, c) /\ Local(g) = l
  BY DEF ServerSame, Own, Local, HeadSeq
<1> QED BY <1>1, RefusedKept DEF Decided

(* Where a commit decided is from.                                          *)
LEMMA DecidedIn ==
  ASSUME NEW c \in Client, Known(c), RefusedAfter(c), NEW l, NEW g, Decided(c, l, g)
  PROVE  l \in Locals(c) /\ l \in Int /\ g \in 0..HeadSeq
<1>1. CASE Own(g, c) /\ Local(g) = l
  BY <1>1, LocalsAreNat DEF Own, Known
<1>2. CASE Refused(c, l, g)
  BY <1>2, LocalsAreNat DEF RefusedAfter
<1> QED BY <1>1, <1>2 DEF Decided

(* No step of a replica loses a layer's place.                               *)
LEMMA LayersStay ==
  ASSUME NEW c \in Client, Known(c), ClientMoves(c)
  PROVE  Locals(c) \subseteq Locals(c)'
<1>1. Len(fate[c]) \in Nat
  BY LocalsDomain DEF Known
<1>2. Len(fate'[c]) = Len(fate[c]) \/ Len(fate'[c]) = Len(fate[c]) + 1
  BY DEF ClientMoves, Retreats, Commits, NextLocal, Dispatches, Ignores, Heeds, Syncs
<1> QED BY <1>1, <1>2 DEF Locals

(* A move of a client keeps what is known of its decisions.                *)
LEMMA AnswersMoves ==
  ASSUME NEW c \in Client, Known(c), Answers(c), ServerSame, ClientMoves(c)
  PROVE  Answers(c)'
<1>1. PICK k \in {0, 1} : Shifts(c, k) /\ (k = 1 => \E m : Takes(c, m))
                          /\ (k = 0 => toClient'[c] = toClient[c])
  BY MovesPlaces DEF Known, LinkSame
<1>2. /\ \A i \in Places(c)' : i + k \in Places(c) /\ toClient'[c][i] = toClient[c][i + k]
      /\ \A i \in Places(c)' : \A l \in Int : Unmarked(c, i + k, l) => Unmarked(c, i, l)'
      /\ \A i \in Places(c) : i <= k \/ (i - k \in Places(c)' /\ toClient'[c][i - k] = toClient[c][i])
  BY <1>1 DEF Shifts
<1>3. /\ HeadSeq' = HeadSeq /\ \A s : Own(s, c)' = Own(s, c) /\ Local(s)' = Local(s)
      /\ log' = log /\ flushed' = flushed /\ owed' = owed
  BY DEF ServerSame, Own, Local, HeadSeq
<1>4. \A i \in Places(c) : ~IsSync(c, i) => toClient[c][i].localSeq \in Locals(c)
  BY DEF Known, Tracked, Named, Verdicts, IsSync, Places
<1>5. VerdictSeqs(c)'
  <2> SUFFICES ASSUME NEW i \in Places(c)', toClient'[c][i].type = "accept"
               PROVE  /\ Own(toClient[c][i].seq, c)'
                      /\ Local(toClient[c][i].seq)' = toClient'[c][i].localSeq
    BY DEF VerdictSeqs
  <2>1. PICK m : m = toClient'[c][i] /\ Own(m.seq, c) /\ Local(m.seq) = m.localSeq
    BY <1>2 DEF Answers, VerdictSeqs
  <2>2. PICK s : s = m.seq
    OBVIOUS
  <2>3. Own(s, c)' /\ Local(s)' = m.localSeq
    BY <1>3, <2>1, <2>2
  <2> QED BY <2>1, <2>2, <2>3
<1>6. ParkedSeqs(c)' /\ ParkedWaits(c)'
  <2>1. ASSUME NEW l \in Locals(c)', St(c, l)' = "parked"
        PROVE  \E s : /\ s = pending'[c][l].seq /\ Own(s, c)
                      /\ log[s].commit = pending'[c][l].commit /\ caughtUp'[c] < l
    <3>1. l \in Locals(c)
      BY <2>1, LayerComes
    <3>2. CASE /\ pending'[c][l] = pending[c][l]
               /\ caughtUp'[c] = caughtUp[c] \/ caughtUp'[c] < l
      BY <2>1, <3>1, <3>2 DEF Answers, ParkedSeqs, ParkedWaits, St
    <3>3. ASSUME NEW m, Takes(c, m), m.type = "accept", l = m.localSeq,
                 pending'[c][l].seq = m.seq, St(c, l) = "sent",
                 pending'[c][l].commit = pending[c][l].commit, caughtUp'[c] < l
          PROVE  \E s : /\ s = pending'[c][l].seq /\ Own(s, c)
                        /\ log[s].commit = pending'[c][l].commit /\ caughtUp'[c] < l
      <4>1. 1 \in Places(c) /\ toClient[c][1] = m
        BY <3>3, TakesPlaces DEF Known
      <4>2. Own(m.seq, c) /\ Local(m.seq) = l
        BY <3>3, <4>1 DEF Answers, VerdictSeqs
      <4>3. log[m.seq].commit \in Rows(c) /\ log[m.seq].commit.localSeq = l
        BY <4>2 DEF Own, Local, Rows
      <4>4. log[m.seq].commit = pending[c][l].commit
        BY <3>1, <3>3, <4>3 DEF Known, Tracked, Unchanged
      <4> QED BY <3>3, <4>2, <4>4
    <3> QED BY <2>1, <3>1, <3>2, <3>3, LayerComes
  <2>2. ParkedSeqs(c)'
    <3> SUFFICES ASSUME NEW l \in Locals(c)', St(c, l)' = "parked"
                 PROVE  /\ Own(pending[c][l].seq, c)'
                        /\ log'[pending'[c][l].seq].commit = pending'[c][l].commit
      BY DEF ParkedSeqs
    <3>1. PICK s : /\ s = pending'[c][l].seq /\ Own(s, c)
                   /\ log[s].commit = pending'[c][l].commit
      BY <2>1
    <3>2. Own(s, c)'
      BY <1>3, <3>1
    <3> QED BY <1>3, <3>1, <3>2
  <2> QED BY <2>1, <2>2 DEF ParkedWaits
<1>7. Awaiting(c)'
  <2> SUFFICES ASSUME NEW l \in Locals(c)', St(c, l)' = "sent"
               PROVE  \/ \E m \in Sent(c)' : m.localSeq = l
                      \/ \E i \in Places(c)' : ~IsSync(c, i)' /\ toClient'[c][i].localSeq = l
    BY DEF Awaiting, AtServer
  <2>1. l \in Locals(c)
    BY LayerComes
  <2>2. CASE toServer'[c] = Append(toServer[c], pending[c][l].commit) /\ St(c, l) = "queued"
    <3>1. PICK q : q = pending[c][l].commit
      OBVIOUS
    <3>2. toServer'[c] = Append(toServer[c], q) /\ Shapes
      BY <2>2, <3>1 DEF Known
    <3>3. q \in Sent(c)'
      BY <3>2, AppendSent
    <3>4. q.localSeq = l
      BY <2>1, <2>2, <3>1 DEF Known, Tracked, Named, St
    <3> QED BY <3>3, <3>4
  <2>3. ASSUME St(c, l) = "sent", Sent(c) \subseteq Sent(c)',
               \A m : Takes(c, m) /\ m.type # "sync" => m.localSeq # l
        PROVE  \/ \E m \in Sent(c)' : m.localSeq = l
               \/ \E i \in Places(c)' : ~IsSync(c, i)' /\ toClient'[c][i].localSeq = l
    <3>1. CASE AtServer(c, l)
      BY <2>3, <3>1 DEF AtServer
    <3>2. ASSUME NEW i \in Places(c), ~IsSync(c, i), toClient[c][i].localSeq = l
          PROVE  \E j \in Places(c)' : ~IsSync(c, j)' /\ toClient'[c][j].localSeq = l
      <4>1. i > k
        <5>1. CASE k = 1
          <6>1. PICK m : Takes(c, m)
            BY <1>1, <5>1
          <6>2. m = toClient[c][1]
            BY <6>1 DEF Takes
          <6>3. i # 1
            BY <2>3, <3>2, <6>1, <6>2 DEF IsSync
          <6> QED BY <5>1, <6>3 DEF Places
        <5> QED BY <5>1 DEF Places
      <4>2. ~(i <= k)
        BY <4>1 DEF Places
      <4>3. PICK j \in Places(c)' : toClient'[c][j] = toClient[c][i]
        BY <1>2, <4>2
      <4> QED BY <3>2, <4>3 DEF IsSync
    <3> QED BY <2>1, <2>3, <3>1, <3>2 DEF Answers, Awaiting
  <2>4. CASE /\ St(c, l) = "sent" /\ toServer'[c] = toServer[c]
             /\ \A m : Takes(c, m) /\ m.type # "sync" => m.localSeq # l
    <3>1. Sent(c) \subseteq Sent(c)'
      BY <2>4 DEF Sent
    <3> QED BY <2>3, <2>4, <3>1
  <2>6. CASE LinkSame(c) /\ St(c, l) = "sent"
    <3>1. toClient'[c] = toClient[c] /\ Sent(c)' = Sent(c) /\ Places(c)' = Places(c)
      BY <2>6 DEF LinkSame, Sent, Places
    <3> QED BY <2>1, <2>6, <3>1 DEF Answers, Awaiting, AtServer, IsSync
  <2>5. ASSUME NEW j, Dispatches(c, j), St(c, l) = "sent"
        PROVE  \/ \E m \in Sent(c)' : m.localSeq = l
               \/ \E i \in Places(c)' : ~IsSync(c, i)' /\ toClient'[c][i].localSeq = l
    <3>1. toClient'[c] = toClient[c] /\ toServer'[c] = Append(toServer[c], pending[c][j].commit)
      BY <2>5 DEF Dispatches
    <3>2. Sent(c) \subseteq Sent(c)' /\ Places(c)' = Places(c)
      BY <3>1, AppendSent DEF Known, Places
    <3> QED BY <2>1, <2>5, <3>1, <3>2 DEF Answers, Awaiting, AtServer, IsSync
  <2> QED BY <2>2, <2>4, <2>5, <2>6, LayerComes
<1>8. VerdictFirst(c)'
  <2> SUFFICES ASSUME NEW i \in Places(c)', ~IsSync(c, i)'
               PROVE  Unmarked(c, i, toClient[c][i].localSeq)'
    BY DEF VerdictFirst
  <2>1. PICK l : l = toClient'[c][i].localSeq
    OBVIOUS
  <2>2. ~IsSync(c, i + k) /\ l = toClient[c][i + k].localSeq /\ i + k \in Places(c)
    BY <1>2, <2>1 DEF IsSync
  <2>3. Unmarked(c, i + k, l) /\ l \in Int
    BY <1>4, <2>2, LocalsAreNat DEF Answers, VerdictFirst
  <2>4. Unmarked(c, i, l)'
    BY <1>2, <2>3
  <2> QED BY <2>1, <2>4
<1>9. RefusedAfter(c)'
  <2> SUFFICES ASSUME NEW l, NEW g, Refused(c, l, g)'
               PROVE  /\ l \in Locals(c)' /\ g \in 0..HeadSeq'
                      /\ \A s \in 1..HeadSeq' : log'[s].client = c /\ s <= g => Local(s)' < l
    BY DEF RefusedAfter
  <2>1. Refused(c, l, g)
    BY RefusedKept
  <2>2. Locals(c) \subseteq Locals(c)'
    BY LayersStay
  <2> QED BY <1>3, <2>1, <2>2 DEF Answers, RefusedAfter
<1>10. RowsMarked(c)'
  <2> SUFFICES ASSUME Parkable(c), NEW s \in 1..HeadSeq, log[s].client = c
               PROVE  IF s > flushed THEN owed[c] >= Local(s) ELSE ~Unheard(c, Local(s))'
    BY <1>3 DEF RowsMarked, Parkable
  <2>1. PICK l \in Int : l = Local(s)
    BY LocalsAreNat
  <2>2. Unheard(c, l)' <=> Unheard(c, l)
    BY MovesMarks DEF Known
  <2>3. l = Local(s)'
    BY <1>3, <2>1
  <2> QED BY <2>1, <2>2, <2>3 DEF Answers, RowsMarked
<1>11. MarksFlushed(c)'
  <2> SUFFICES ASSUME NEW l, NEW g, Decided(c, l, g)', ~Unheard(c, l)'
               PROVE  g <= flushed'
    BY DEF MarksFlushed
  <2>1. Decided(c, l, g)
    BY DecidedKept
  <2>2. l \in Int
    BY <2>1, DecidedIn DEF Answers
  <2>3. ~Unheard(c, l)
    BY <2>2, MovesMarks DEF Known
  <2> QED BY <1>3, <2>1, <2>3 DEF Answers, MarksFlushed
<1> QED BY <1>5, <1>6, <1>7, <1>8, <1>9, <1>10, <1>11 DEF Answers

(* The decisions on the commits of d are untouched by steps apart from d.    *)
LEMMA AnswersApart ==
  ASSUME NEW d \in Client, Known(d), Answers(d), Apart(d), RowsSame(d), flushed' = flushed
  PROVE  Answers(d)'
<1>1. /\ toServer'[d] = toServer[d] /\ toClient'[d] = toClient[d] /\ owed'[d] = owed[d]
      /\ pending'[d] = pending[d] /\ fate'[d] = fate[d] /\ caughtUp'[d] = caughtUp[d]
  BY DEF Apart, LinkSame, BaseSame
<1>2. /\ Places(d)' = Places(d) /\ Locals(d)' = Locals(d) /\ Sent(d)' = Sent(d)
      /\ \A l : St(d, l)' = St(d, l) /\ \A i : IsSync(d, i)' <=> IsSync(d, i)
  BY <1>1 DEF Places, Locals, Sent, St, IsSync
<1>3. \A s : Own(s, d) => Own(s, d)' /\ Local(s)' = Local(s) /\ log'[s] = log[s]
  BY DEF RowsSame, Own, Local
<1>4. \A s : Own(s, d)' => Own(s, d)
  BY DEF RowsSame, Own
<1>5. \A l : /\ Unheard(d, l)' <=> Unheard(d, l)
             /\ \A i : Unmarked(d, i, l)' <=> Unmarked(d, i, l)
  BY <1>1, LinkSameMarks
<1>6. \A l, g : Refused(d, l, g)' <=> Refused(d, l, g)
  BY <1>1, <1>2 DEF Refused
<1>7. VerdictSeqs(d)'
  <2> SUFFICES ASSUME NEW i \in Places(d), toClient[d][i].type = "accept"
               PROVE  Own(toClient[d][i].seq, d)' /\ Local(toClient[d][i].seq)' = toClient[d][i].localSeq
    BY <1>1, <1>2 DEF VerdictSeqs
  <2>1. PICK s : s = toClient[d][i].seq
    OBVIOUS
  <2>2. Own(s, d) /\ Local(s) = toClient[d][i].localSeq
    BY <2>1 DEF Answers, VerdictSeqs
  <2>3. Own(s, d)' /\ Local(s)' = toClient[d][i].localSeq
    BY <1>3, <2>2
  <2>4. s = toClient'[d][i].seq
    BY <1>1, <2>1
  <2> QED BY <2>3, <2>4
<1>8. ParkedSeqs(d)'
  <2> SUFFICES ASSUME NEW l \in Locals(d), St(d, l) = "parked"
               PROVE  /\ Own(pending[d][l].seq, d)'
                      /\ log'[pending'[d][l].seq].commit = pending'[d][l].commit
    BY <1>2 DEF ParkedSeqs
  <2>1. PICK s : s = pending[d][l].seq
    OBVIOUS
  <2>2. Own(s, d) /\ log[s].commit = pending[d][l].commit
    BY <2>1 DEF Answers, ParkedSeqs
  <2>3. Own(s, d)' /\ log'[s].commit = pending[d][l].commit
    BY <1>3, <2>2
  <2>4. s = pending'[d][l].seq
    BY <1>1, <2>1
  <2> QED BY <1>1, <2>3, <2>4
<1>9. Awaiting(d)' /\ ParkedWaits(d)'
  BY <1>1, <1>2 DEF Answers, Awaiting, ParkedWaits, AtServer
<1>10. VerdictFirst(d)'
  <2> SUFFICES ASSUME NEW i \in Places(d), ~IsSync(d, i)
               PROVE  Unmarked(d, i, toClient[d][i].localSeq)'
    BY <1>2 DEF VerdictFirst
  <2>1. PICK l : l = toClient[d][i].localSeq
    OBVIOUS
  <2>2. Unmarked(d, i, l)
    BY <2>1 DEF Answers, VerdictFirst
  <2>3. Unmarked(d, i, l)' /\ l = toClient'[d][i].localSeq
    BY <1>1, <1>5, <2>1, <2>2
  <2> QED BY <2>3
<1>11. RefusedAfter(d)'
  <2> SUFFICES ASSUME NEW l, NEW g, Refused(d, l, g)
               PROVE  /\ l \in Locals(d) /\ g \in 0..HeadSeq'
                      /\ \A s \in 1..HeadSeq' : log'[s].client = d /\ s <= g => Local(s)' < l
    BY <1>2, <1>6 DEF RefusedAfter
  <2>1. /\ l \in Locals(d) /\ g \in 0..HeadSeq
        /\ \A s \in 1..HeadSeq : log[s].client = d /\ s <= g => Local(s) < l
    BY DEF Answers, RefusedAfter
  <2>2. g \in 0..HeadSeq'
    BY <2>1 DEF RowsSame
  <2> QED BY <1>3, <1>4, <2>1, <2>2 DEF Own
<1>12. RowsMarked(d)'
  <2> SUFFICES ASSUME Parkable(d), NEW s \in 1..HeadSeq', log'[s].client = d
               PROVE  IF s > flushed THEN owed[d] >= Local(s)' ELSE ~Unheard(d, Local(s))'
    BY <1>1 DEF RowsMarked, Parkable
  <2>1. Own(s, d)
    BY <1>4 DEF Own
  <2>2. PICK l : l = Local(s) /\ l = Local(s)'
    BY <1>3, <2>1
  <2>3. IF s > flushed THEN owed[d] >= l ELSE ~Unheard(d, l)
    BY <2>1, <2>2 DEF Answers, RowsMarked, Own
  <2>4. IF s > flushed THEN owed[d] >= l ELSE ~Unheard(d, l)'
    BY <1>5, <2>3
  <2> QED BY <2>2, <2>4
<1>13. MarksFlushed(d)'
  <2> SUFFICES ASSUME NEW l, NEW g, Decided(d, l, g)', ~Unheard(d, l)'
               PROVE  g <= flushed
    BY DEF MarksFlushed
  <2>1. Decided(d, l, g)
    BY <1>3, <1>4, <1>6 DEF Decided
  <2> QED BY <1>5, <2>1 DEF Answers, MarksFlushed
<1> QED BY <1>7, <1>8, <1>9, <1>10, <1>11, <1>12, <1>13 DEF Answers

(* What transact answers: the commit is decided as all that came before it. *)
Verdict(c, h, v) ==
  /\ Handles(c, h, v) /\ Gains(c, h)
  /\ \/ v.type = "reject" /\ v.seq = HeadSeq /\ HeadSeq' = HeadSeq
     \/ v.type = "accept" /\ v.seq = HeadSeq + 1 /\ HeadSeq' = HeadSeq + 1

(* What transact puts in flight is a verdict at the head of the log.       *)
LEMMA AnswerVerdict ==
  ASSUME NEW c, Shapes, NEW h, NEW v, Handles(c, h, v),
         Refuses(h, v) \/ \E row : Accepts(c, h, v, row)
  PROVE  Verdict(c, h, v)
<1>1. Gains(c, h)
  BY AnswerGains
<1>2. Refuses(h, v) => v.type = "reject" /\ v.seq = HeadSeq /\ HeadSeq' = HeadSeq
  BY DEF Refuses, HeadSeq
<1>3. \A row : Accepts(c, h, v, row) =>
        v.type = "accept" /\ v.seq = HeadSeq + 1 /\ HeadSeq' = HeadSeq + 1
  <2> SUFFICES ASSUME NEW row, Accepts(c, h, v, row)
               PROVE  v.type = "accept" /\ v.seq = HeadSeq + 1 /\ HeadSeq' = HeadSeq + 1
    OBVIOUS
  <2>1. log' = Append(log, row) /\ v.type = "accept" /\ v.seq = HeadSeq + 1
    BY DEF Accepts
  <2> QED BY <2>1, LogGrows
<1> QED BY <1>1, <1>2, <1>3 DEF Verdict

(* What is decided by an answer: h now, all else before.                    *)
LEMMA VerdictDecides ==
  ASSUME NEW c \in Client, Known(c), NEW h, NEW v, Verdict(c, h, v), NEW l, NEW g,
         Decided(c, l, g)'
  PROVE  \/ Decided(c, l, g)
         \/ l = h.localSeq /\ g = HeadSeq'
<1>1. /\ toClient'[c] = Append(toClient[c], v) /\ v.localSeq = h.localSeq
      /\ pending' = pending /\ fate' = fate
  BY DEF Verdict, Handles
<1>2. PICK n : n = Len(toClient[c]) + 1
  OBVIOUS
<1>3. /\ Places(c)' = Places(c) \cup {n} /\ toClient'[c][n] = v
      /\ \A i \in Places(c) : toClient'[c][i] = toClient[c][i]
  BY <1>1, <1>2, AppendPlaces DEF Known
<1>4. CASE Own(g, c)' /\ Local(g)' = l
  BY <1>4 DEF Verdict, Gains, Own, Local, Decided
<1>5. CASE Refused(c, l, g)'
  <2>1. Refused(c, l, g) \/ (v.type = "reject" /\ v.localSeq = l /\ v.seq = g)
    BY <1>1, <1>3, <1>5 DEF Refused, Locals, St
  <2> QED BY <1>1, <2>1 DEF Verdict, Decided
<1> QED BY <1>4, <1>5 DEF Decided

(* A verdict keeps what is known of decisions: it comes before the marker  *)
(* of its commit.                                                          *)
LEMMA AnswersVerdict ==
  ASSUME NEW c \in Client, Known(c), Ordered(c), Answers(c), flushed \in 0..HeadSeq,
         NEW h, NEW v, Verdict(c, h, v)
  PROVE  Answers(c)'
<1>1. /\ toClient'[c] = Append(toClient[c], v) /\ v.localSeq = h.localSeq /\ h \in Sent(c)
      /\ pending' = pending /\ fate' = fate /\ caughtUp' = caughtUp /\ flushed' = flushed
      /\ owed'[c] = h.localSeq /\ h = Head(toServer[c]) /\ toServer[c] # <<>>
      /\ toServer'[c] = Tail(toServer[c])
  BY TailSeq, LocalsDomain DEF Verdict, Handles, Known
<1>2. PICK n : n = Len(toClient[c]) + 1
  OBVIOUS
<1>3. /\ Places(c)' = Places(c) \cup {n} /\ toClient'[c][n] = v
      /\ \A i \in Places(c) : toClient'[c][i] = toClient[c][i]
  BY <1>1, <1>2, AppendPlaces DEF Known
<1>4. /\ Locals(c)' = Locals(c) /\ \A l : St(c, l)' = St(c, l)
      /\ \A i \in Places(c) : IsSync(c, i)' <=> IsSync(c, i)
  BY <1>1, <1>3 DEF Locals, St, IsSync
<1>5. /\ HeadSeq \in Nat /\ HeadSeq' \in Nat /\ HeadSeq <= HeadSeq'
      /\ \A s : Own(s, c) => Own(s, c)' /\ Local(s)' = Local(s) /\ log'[s] = log[s]
      /\ \A s : Own(s, c)' => Own(s, c) \/ (s = HeadSeq + 1 /\ Local(s)' = h.localSeq)
  BY DEF Verdict, Gains, Own, Local
<1>6. Behind(c, h.localSeq) /\ h.localSeq \in Locals(c) /\ h.localSeq \in Int
  BY <1>1, LocalsAreNat DEF Ordered, SentLast
<1>7. ~(v.type = "sync")
  BY DEF Verdict
<1>8. \A l : /\ Unheard(c, l)' <=> Unheard(c, l)
             /\ \A i \in Places(c) : Unmarked(c, i, l)' <=> Unmarked(c, i, l)
             /\ Unmarked(c, n, l)' <=> Unheard(c, l)
  BY <1>1, <1>2, <1>7, AppendMarks DEF Known
<1>9. VerdictSeqs(c)'
  <2> SUFFICES ASSUME NEW i \in Places(c)', toClient'[c][i].type = "accept"
               PROVE  /\ Own(toClient[c][i].seq, c)'
                      /\ Local(toClient[c][i].seq)' = toClient'[c][i].localSeq
    BY DEF VerdictSeqs
  <2>1. PICK s : s = toClient'[c][i].seq
    OBVIOUS
  <2>2. CASE i \in Places(c)
    <3>1. Own(s, c) /\ Local(s) = toClient'[c][i].localSeq
      BY <1>3, <2>1, <2>2 DEF Answers, VerdictSeqs
    <3>2. Own(s, c)' /\ Local(s)' = toClient'[c][i].localSeq
      BY <1>5, <3>1
    <3> QED BY <2>1, <3>2
  <2>3. CASE i = n
    <3>1. v.type = "accept" /\ s = HeadSeq + 1 /\ HeadSeq' = HeadSeq + 1 /\ s = v.seq
      BY <1>3, <2>1, <2>3 DEF Verdict
    <3>2. s \in 1..HeadSeq' /\ s \notin 1..HeadSeq
      BY <1>5, <3>1
    <3>3. Own(s, c)' /\ Local(s)' = h.localSeq
      BY <3>2 DEF Verdict, Gains, Own, Local
    <3>4. toClient'[c][i].localSeq = h.localSeq
      BY <1>1, <1>3, <2>3
    <3> QED BY <2>1, <3>3, <3>4
  <2> QED BY <1>3, <2>2, <2>3
<1>10. ParkedSeqs(c)'
  <2> SUFFICES ASSUME NEW l \in Locals(c), St(c, l) = "parked"
               PROVE  /\ Own(pending[c][l].seq, c)'
                      /\ log'[pending'[c][l].seq].commit = pending'[c][l].commit
    BY <1>4 DEF ParkedSeqs
  <2>1. PICK s : s = pending[c][l].seq
    OBVIOUS
  <2>2. Own(s, c) /\ log[s].commit = pending[c][l].commit
    BY <2>1 DEF Answers, ParkedSeqs
  <2>3. Own(s, c)' /\ log'[s].commit = pending[c][l].commit
    BY <1>5, <2>2
  <2>4. s = pending'[c][l].seq
    BY <1>1, <2>1
  <2> QED BY <1>1, <2>3, <2>4
<1>11. ParkedWaits(c)'
  BY <1>1, <1>4 DEF Answers, ParkedWaits
<1>12. Awaiting(c)'
  <2>1. Sent(c) = Sent(c)' \cup {h}
    <3>1. Sent(c) = {Tail(toServer[c])[i] : i \in 1..Len(Tail(toServer[c]))} \cup {h}
      BY <1>1, LocalsDomain, TailElems DEF Sent, Known
    <3> QED BY <1>1, <3>1 DEF Sent
  <2> SUFFICES ASSUME NEW l \in Locals(c), St(c, l) = "sent"
               PROVE  \/ \E m \in Sent(c)' : m.localSeq = l
                      \/ \E i \in Places(c)' : ~IsSync(c, i)' /\ toClient'[c][i].localSeq = l
    BY <1>4 DEF Awaiting, AtServer
  <2>2. CASE h.localSeq = l
    BY <1>1, <1>3, <1>7, <2>2 DEF IsSync
  <2>3. CASE h.localSeq # l /\ AtServer(c, l)
    BY <2>1, <2>3 DEF AtServer
  <2>4. CASE \E i \in Places(c) : ~IsSync(c, i) /\ toClient[c][i].localSeq = l
    BY <1>3, <1>4, <2>4
  <2> QED BY <2>2, <2>3, <2>4 DEF Answers, Awaiting
<1>13. VerdictFirst(c)'
  <2> SUFFICES ASSUME NEW i \in Places(c)', ~IsSync(c, i)'
               PROVE  Unmarked(c, i, toClient[c][i].localSeq)'
    BY DEF VerdictFirst
  <2>1. PICK l : l = toClient'[c][i].localSeq
    OBVIOUS
  <2>2. CASE i \in Places(c)
    <3>1. Unmarked(c, i, l)
      BY <1>3, <1>4, <2>1, <2>2 DEF Answers, VerdictFirst
    <3>2. Unmarked(c, i, l)'
      BY <1>8, <2>2, <3>1
    <3> QED BY <2>1, <3>2
  <2>3. CASE i = n
    <3>1. Unheard(c, l)
      BY <1>1, <1>3, <1>6, <2>1, <2>3 DEF Behind
    <3>2. Unmarked(c, i, l)'
      BY <1>8, <2>3, <3>1
    <3> QED BY <2>1, <3>2
  <2> QED BY <1>3, <2>2, <2>3
<1>14. RefusedAfter(c)'
  <2> SUFFICES ASSUME NEW l, NEW g, Refused(c, l, g)'
               PROVE  /\ l \in Locals(c) /\ g \in 0..HeadSeq'
                      /\ \A s \in 1..HeadSeq' : log'[s].client = c /\ s <= g => Local(s)' < l
    BY <1>4 DEF RefusedAfter
  <2>1. CASE Refused(c, l, g)
    <3>1. /\ l \in Locals(c) /\ g \in 0..HeadSeq
          /\ \A s \in 1..HeadSeq : log[s].client = c /\ s <= g => Local(s) < l
      BY <2>1 DEF Answers, RefusedAfter
    <3>2. g \in 0..HeadSeq'
      BY <1>5, <3>1
    <3>3. \A s : s <= g => s # HeadSeq + 1
      BY <1>5, <3>1
    <3> QED BY <1>5, <3>1, <3>2, <3>3 DEF Own
  <2>2. CASE ~Refused(c, l, g)
    <3>1. v.type = "reject" /\ v.localSeq = l /\ v.seq = g
      BY <1>1, <1>3, <1>4, <2>2 DEF Refused
    <3>2. g = HeadSeq /\ HeadSeq' = HeadSeq /\ l = h.localSeq
      BY <1>1, <3>1 DEF Verdict
    <3>3. \A s \in 1..HeadSeq' : log'[s].client = c => Local(s)' < l
      <4>1. \A s \in 1..HeadSeq' : log'[s].client = c => Own(s, c)
        BY <1>5, <3>2 DEF Own
      <4> QED BY <1>5, <1>6, <3>2, <4>1 DEF Behind, Own
    <3> QED BY <1>5, <1>6, <3>2, <3>3
  <2> QED BY <2>1, <2>2
<1>15. RowsMarked(c)'
  <2> SUFFICES ASSUME Parkable(c), NEW s \in 1..HeadSeq', log'[s].client = c
               PROVE  IF s > flushed THEN h.localSeq >= Local(s)' ELSE ~Unheard(c, Local(s))'
    BY <1>1 DEF RowsMarked, Parkable
  <2>1. Own(s, c)'
    BY DEF Own
  <2>2. CASE Own(s, c)
    <3>1. PICK l \in Int : l = Local(s) /\ l = Local(s)'
      BY <1>5, <2>2, LocalsAreNat DEF Own
    <3>2. l < h.localSeq
      BY <1>6, <2>2, <3>1 DEF Behind, Own
    <3>3. s > flushed \/ ~Unheard(c, l)
      BY <2>2, <3>1 DEF Answers, RowsMarked, Own
    <3>4. s > flushed \/ ~Unheard(c, l)'
      BY <1>8, <3>3
    <3>5. h.localSeq >= l
      BY <1>6, <3>2
    <3> QED BY <3>1, <3>4, <3>5
  <2>3. CASE s = HeadSeq + 1 /\ Local(s)' = h.localSeq
    <3>1. s > flushed /\ h.localSeq >= h.localSeq
      BY <1>5, <1>6, <2>3
    <3> QED BY <2>3, <3>1
  <2> QED BY <1>5, <2>1, <2>2, <2>3
<1>16. MarksFlushed(c)'
  <2> SUFFICES ASSUME NEW l, NEW g, Decided(c, l, g)', ~Unheard(c, l)'
               PROVE  g <= flushed
    BY <1>1 DEF MarksFlushed
  <2>1. ~Unheard(c, l)
    BY <1>8
  <2>2. l # h.localSeq
    BY <1>6, <2>1 DEF Behind
  <2>3. Decided(c, l, g)
    BY <2>2, VerdictDecides
  <2> QED BY <2>1, <2>3 DEF Answers, MarksFlushed
<1> QED BY <1>9, <1>10, <1>11, <1>12, <1>13, <1>14, <1>15, <1>16 DEF Answers

(* A flush as one client sees it: a frame behind all that is in flight, or  *)
(* nothing when there is nothing to tell.                                   *)
LEMMA FlushPlaces ==
  ASSUME NEW d \in Client, Known(d), Flushes(d)
  PROVE  /\ \/ toClient'[d] = toClient[d] /\ Places(d)' = Places(d)
               /\ Upserts(d) = {} /\ owed[d] = 0
            \/ \E n : /\ n \notin Places(d) /\ Places(d)' = Places(d) \cup {n}
                      /\ toClient'[d][n] = Frame(d)
                      /\ \A l : Unmarked(d, n, l)' <=> Unheard(d, l)
         /\ \A i \in Places(d) : toClient'[d][i] = toClient[d][i]
         /\ \A l : \A i \in Places(d) : Unmarked(d, i, l)' <=> Unmarked(d, i, l)
         /\ \A l : Unheard(d, l)' => Unheard(d, l)
         /\ \A l \in Nat \ {0} : owed[d] >= l => ~Unheard(d, l)'
<1>1. caughtUp'[d] = caughtUp[d] /\ owed[d] \in Nat
  BY LocalsAreNat DEF Flushes, BaseSame
<1>2. CASE toClient'[d] = toClient[d] /\ Upserts(d) = {} /\ owed[d] = 0
  <2>1. \A l \in Nat \ {0} : ~(owed[d] >= l)
    BY <1>2
  <2> QED BY <1>1, <1>2, <2>1, LinkSameMarks DEF Places
<1>3. CASE toClient'[d] = Append(toClient[d], Frame(d))
  <2>1. PICK n : n = Len(toClient[d]) + 1
    OBVIOUS
  <2>2. PICK m : m = Frame(d)
    OBVIOUS
  <2>3. m.type = "sync" /\ m.marker = owed[d]
    BY <2>2 DEF Frame
  <2>4. toClient'[d] = Append(toClient[d], m) /\ Shapes
    BY <1>3, <2>2 DEF Known
  <2>5. /\ Places(d)' = Places(d) \cup {n} /\ n \notin Places(d) /\ toClient'[d][n] = m
        /\ \A i \in Places(d) : toClient'[d][i] = toClient[d][i]
    BY <2>1, <2>4, AppendPlaces DEF Places
  <2>6. \A l : /\ Unheard(d, l)' <=> Unheard(d, l) /\ ~(m.type = "sync" /\ m.marker >= l)
               /\ \A i \in Places(d) : Unmarked(d, i, l)' <=> Unmarked(d, i, l)
               /\ Unmarked(d, n, l)' <=> Unheard(d, l)
    BY <1>1, <2>1, <2>4, AppendMarks
  <2> QED BY <2>2, <2>3, <2>5, <2>6
<1> QED BY <1>2, <1>3 DEF Flushes

(* A flush keeps what is known of decisions: its marker comes behind every *)
(* verdict, and covers a window that starts anew.                          *)
LEMMA AnswersFlush ==
  ASSUME NEW d \in Client, Known(d), Answers(d), Flushes(d), log' = log, flushed' = HeadSeq
  PROVE  Answers(d)'
<1>1. /\ toServer'[d] = toServer[d] /\ pending'[d] = pending[d] /\ fate'[d] = fate[d]
      /\ caughtUp'[d] = caughtUp[d] /\ owed'[d] = 0
  BY DEF Flushes, BaseSame
<1>2. /\ Locals(d)' = Locals(d) /\ Sent(d)' = Sent(d) /\ HeadSeq' = HeadSeq
      /\ \A l : St(d, l)' = St(d, l)
      /\ \A s : Own(s, d)' = Own(s, d) /\ Local(s)' = Local(s)
  BY <1>1 DEF Locals, Sent, St, HeadSeq, Own, Local
<1>3. \A i \in Places(d)' : \/ i \in Places(d) /\ toClient'[d][i] = toClient[d][i]
                                /\ \A l : Unmarked(d, i, l)' <=> Unmarked(d, i, l)
                            \/ toClient'[d][i].type = "sync"
  <2>1. Frame(d).type = "sync"
    BY DEF Frame
  <2>2. CASE Places(d)' = Places(d)
    BY <2>2, FlushPlaces
  <2>3. ASSUME NEW n, Places(d)' = Places(d) \cup {n}, toClient'[d][n] = Frame(d)
        PROVE  \A i \in Places(d)' : \/ i \in Places(d)
                                     \/ toClient'[d][i].type = "sync"
    BY <2>1, <2>3
  <2> QED BY <2>2, <2>3, FlushPlaces
<1>4. \A i \in Places(d) : i \in Places(d)' /\ toClient'[d][i] = toClient[d][i]
  BY FlushPlaces
<1>5. VerdictSeqs(d)'
  <2> SUFFICES ASSUME NEW i \in Places(d)', toClient'[d][i].type = "accept"
               PROVE  Own(toClient[d][i].seq, d)' /\ Local(toClient[d][i].seq)' = toClient'[d][i].localSeq
    BY DEF VerdictSeqs
  <2>1. PICK s : s = toClient'[d][i].seq
    OBVIOUS
  <2>2. Own(s, d) /\ Local(s) = toClient'[d][i].localSeq
    BY <1>3, <2>1 DEF Answers, VerdictSeqs
  <2>3. Own(s, d)' /\ Local(s)' = toClient'[d][i].localSeq
    BY <1>2, <2>2
  <2> QED BY <2>1, <2>3
<1>6. ParkedSeqs(d)'
  <2> SUFFICES ASSUME NEW l \in Locals(d), St(d, l) = "parked"
               PROVE  /\ Own(pending[d][l].seq, d)'
                      /\ log'[pending'[d][l].seq].commit = pending'[d][l].commit
    BY <1>2 DEF ParkedSeqs
  <2>1. PICK s : s = pending[d][l].seq
    OBVIOUS
  <2>2. Own(s, d) /\ log[s].commit = pending[d][l].commit
    BY <2>1 DEF Answers, ParkedSeqs
  <2>3. Own(s, d)' /\ log'[s].commit = pending[d][l].commit
    BY <1>2, <2>2
  <2>4. s = pending'[d][l].seq
    BY <1>1, <2>1
  <2> QED BY <1>1, <2>3, <2>4
<1>7. ParkedWaits(d)'
  BY <1>1, <1>2 DEF Answers, ParkedWaits
<1>8. Awaiting(d)'
  <2> SUFFICES ASSUME NEW l \in Locals(d), St(d, l) = "sent"
               PROVE  \/ \E m \in Sent(d) : m.localSeq = l
                      \/ \E i \in Places(d)' : ~IsSync(d, i)' /\ toClient'[d][i].localSeq = l
    BY <1>2 DEF Awaiting, AtServer
  <2>1. CASE \E i \in Places(d) : ~IsSync(d, i) /\ toClient[d][i].localSeq = l
    <3>1. PICK i \in Places(d) : ~IsSync(d, i) /\ toClient[d][i].localSeq = l
      BY <2>1
    <3>2. i \in Places(d)' /\ ~IsSync(d, i)' /\ toClient'[d][i].localSeq = l
      BY <1>4, <3>1 DEF IsSync
    <3> QED BY <3>2
  <2> QED BY <2>1 DEF Answers, Awaiting, AtServer
<1>9. VerdictFirst(d)'
  <2> SUFFICES ASSUME NEW i \in Places(d)', ~IsSync(d, i)'
               PROVE  Unmarked(d, i, toClient[d][i].localSeq)'
    BY DEF VerdictFirst
  <2>1. PICK l : l = toClient'[d][i].localSeq
    OBVIOUS
  <2>2. /\ i \in Places(d) /\ toClient'[d][i] = toClient[d][i]
        /\ Unmarked(d, i, l)' <=> Unmarked(d, i, l)
    BY <1>3 DEF IsSync
  <2>3. Unmarked(d, i, l)
    BY <2>1, <2>2 DEF Answers, VerdictFirst, IsSync
  <2>4. Unmarked(d, i, l)'
    BY <2>2, <2>3
  <2> QED BY <2>1, <2>4
<1>10. \A l, g : Refused(d, l, g)' => Refused(d, l, g)
  <2> SUFFICES ASSUME NEW l, NEW g, Refused(d, l, g)' PROVE Refused(d, l, g)
    OBVIOUS
  <2>1. CASE \E i \in Places(d)' : /\ toClient'[d][i].type = "reject"
                                   /\ toClient'[d][i].localSeq = l
                                   /\ toClient'[d][i].seq = g
    BY <1>3, <2>1 DEF Refused
  <2>2. CASE /\ l \in Locals(d) /\ St(d, l) = "repairing"
             /\ pending[d][l].gate.marker = l /\ pending[d][l].gate.seq = g
    BY <2>2 DEF Refused
  <2> QED BY <1>1, <1>2, <2>1, <2>2 DEF Refused
<1>11. RefusedAfter(d)'
  <2> SUFFICES ASSUME NEW l, NEW g, Refused(d, l, g)'
               PROVE  /\ l \in Locals(d) /\ g \in 0..HeadSeq
                      /\ \A s \in 1..HeadSeq : log'[s].client = d /\ s <= g => Local(s)' < l
    BY <1>2 DEF RefusedAfter
  <2>1. Refused(d, l, g)
    BY <1>10
  <2> QED BY <1>2, <2>1 DEF Answers, RefusedAfter
<1>12. RowsMarked(d)'
  <2> SUFFICES ASSUME Parkable(d), NEW s \in 1..HeadSeq, log[s].client = d
               PROVE  ~(s > HeadSeq) /\ ~Unheard(d, Local(s))'
    BY <1>2 DEF RowsMarked, Parkable
  <2>1. PICK l \in Nat \ {0} : l = Local(s) /\ l = Local(s)'
    <3>1. Local(s) \in Locals(d)
      BY LocalsAreNat
    <3> QED BY <1>2, <3>1, LocalsAreNat
  <2>2. owed[d] >= l \/ ~Unheard(d, l)
    BY <2>1 DEF Answers, RowsMarked
  <2>3. ~Unheard(d, l)'
    BY <2>2, FlushPlaces
  <2>4. ~(s > HeadSeq)
    BY DEF Known
  <2> QED BY <2>1, <2>3, <2>4
<1>13. MarksFlushed(d)'
  <2> SUFFICES ASSUME NEW l, NEW g, Decided(d, l, g)' PROVE g <= HeadSeq
    BY DEF MarksFlushed
  <2>1. Decided(d, l, g)
    BY <1>2, <1>10 DEF Decided
  <2> QED BY <2>1, DecidedIn DEF Answers, Known
<1> QED BY <1>5, <1>6, <1>7, <1>8, <1>9, <1>11, <1>12, <1>13 DEF Answers

-----------------------------------------------------------------------------
(* What reaches the base of a watched document.                             *)
Foreign(t, c, d) == t \in 1..HeadSeq /\ log[t].client # c /\ Wrote(t, d)

Covers(c, i, d, t) ==
  IsSync(c, i) /\ \E u \in toClient[c][i].upserts : u.doc = d /\ u.seq >= t

\* Before the replica has a marker of a commit, it has what the others had
\* written when that commit was decided.
InTime(c, i, t) == \A l, g : Decided(c, l, g) /\ t <= g => Unmarked(c, i, l)

Arrives(c, d, t) ==
  \/ t <= confirmed[c][d].seq \/ t > flushed
  \/ \E i \in Places(c) : Covers(c, i, d, t) /\ InTime(c, i, t)

ForeignArrive(c) ==
  \A d \in Watched[c] : \A t : Foreign(t, c, d) => Arrives(c, d, t)

UpsertTrue(c, i, u) ==
  /\ u.doc \in Watched[c] /\ u.seq \in 0..HeadSeq
  /\ u.value = DocAt(u.doc, u.seq)
  /\ \A s : Own(s, c) /\ s <= u.seq /\ Unmarked(c, i, Local(s)) => Marks(c, i, Local(s))
UpsertsTrue(c) ==
  \A i \in Places(c) : IsSync(c, i) =>
    \A u \in toClient[c][i].upserts :
      UpsertTrue(c, i, u) /\ \A w \in toClient[c][i].upserts : w.doc = u.doc => w.seq = u.seq

TrueAt(c, d, b) == b.seq \in 0..HeadSeq /\ b.value = DocAt(d, b.seq)
BaseTrue(c) ==
  \A d \in Watched[c] :
    /\ TrueAt(c, d, confirmed[c][d])
    /\ \A s : Own(s, c) /\ s <= confirmed[c][d].seq => Local(s) <= caughtUp[c]

OwnReached(c) ==
  \A s : Own(s, c) =>
    \/ St(c, Local(s)) # "gone"
    \/ confirmed[c][log[s].commit.op.doc].seq >= s

Arrivals(c) == ForeignArrive(c) /\ UpsertsTrue(c) /\ BaseTrue(c) /\ OwnReached(c)

(* A document nobody writes stays as it is.                                 *)
LEMMA QuietInterval ==
  ASSUME HeadSeq \in Nat, LogOK, NEW d \in Doc, NEW a \in 0..HeadSeq, NEW b \in 0..HeadSeq,
         a <= b, \A t : a < t /\ t <= b /\ t \in 1..HeadSeq => ~Wrote(t, d)
  PROVE  DocAt(d, b) = DocAt(d, a)
<1> DEFINE T == {n \in Nat : a + n <= b => DocAt(d, a + n) = DocAt(d, a)}
<1>1. 0 \in T
  <2>1. a + 0 = a
    OBVIOUS
  <2> QED BY <2>1
<1>2. ASSUME NEW n \in Nat, n \in T PROVE n + 1 \in T
  <2> SUFFICES ASSUME a + (n + 1) <= b PROVE DocAt(d, a + (n + 1)) = DocAt(d, a)
    OBVIOUS
  <2>1. PICK s \in 1..HeadSeq : s = a + (n + 1) /\ s - 1 = a + n /\ a < s /\ s <= b
    OBVIOUS
  <2>2. ~Wrote(s, d) /\ RowOK(s)
    BY <2>1 DEF LogOK
  <2>3. DocAt(d, s) = DocAt(d, s - 1)
    BY <2>2 DEF Wrote, RowOK
  <2>4. DocAt(d, a + n) = DocAt(d, a)
    BY <1>2, <2>1
  <2> QED BY <2>1, <2>3, <2>4
<1> HIDE DEF T
<1>3. \A n \in Nat : n \in T
  BY <1>1, <1>2, SetInduction
<1>4. b - a \in Nat /\ a + (b - a) = b
  OBVIOUS
<1>5. b - a \in T
  BY <1>3, <1>4
<1> QED BY <1>4, <1>5 DEF T

(* A commit of c has one row, and its rows are in the order of its commits. *)
LEMMA OneRow ==
  ASSUME NEW c \in Client, Known(c), RowsOrdered(c), NEW s, NEW t, Own(s, c), Own(t, c)
  PROVE  /\ s \in Nat /\ t \in Nat /\ Local(s) \in Locals(c) /\ Local(s) \in Nat
         /\ s < t => Local(s) < Local(t)
         /\ Local(s) = Local(t) => s = t
<1>1. /\ s \in 1..HeadSeq /\ t \in 1..HeadSeq /\ log[s].client = c /\ log[t].client = c
  BY DEF Own
<1>2. Local(s) \in Locals(c) /\ Local(s) \in Nat /\ Local(t) \in Nat
  BY <1>1, LocalsAreNat
<1>3. (s < t => Local(s) < Local(t)) /\ (t < s => Local(t) < Local(s))
  BY <1>1 DEF RowsOrdered
<1> QED BY <1>1, <1>2, <1>3

(* Where the layer of an accepted commit is.                                *)
LEMMA OwnState ==
  ASSUME NEW c \in Client, Known(c), Ordered(c), Answers(c), NEW s, Own(s, c), NEW l, l = Local(s)
  PROVE  /\ l \in Locals(c) /\ St(c, l) \in {"sent", "parked", "gone"}
         /\ St(c, l) = "sent" =>
              /\ pending[c][l].commit = log[s].commit
              /\ \E i \in Places(c) :
                   ~IsSync(c, i) /\ toClient[c][i].localSeq = l /\ Unmarked(c, i, l)
         /\ St(c, l) = "parked" =>
              /\ pending[c][l].commit = log[s].commit /\ pending[c][l].seq = s
              /\ caughtUp[c] < l
<1>1. log[s].commit \in Rows(c) /\ log[s].commit.localSeq = l
  BY DEF Own, Rows, Local
<1>2. InLog(c, l) /\ l \in Locals(c)
  BY <1>1 DEF InLog, Known, Tracked, Named
<1>3. St(c, l) \notin {"queued", "doomed"}
  BY <1>2 DEF Known, Tracked, NotSent
<1>4. St(c, l) # "repairing"
  BY <1>2 DEF Known, Tracked, Ages, RejectedIsLost
<1>5. St(c, l) \in {"sent", "parked", "gone"}
  BY <1>2, <1>3, <1>4 DEF Known, TypedOf, LayerOK, Status
<1>6. ASSUME St(c, l) = "sent"
      PROVE  /\ pending[c][l].commit = log[s].commit
             /\ \E i \in Places(c) :
                  ~IsSync(c, i) /\ toClient[c][i].localSeq = l /\ Unmarked(c, i, l)
  <2>1. pending[c][l].commit = log[s].commit
    BY <1>1, <1>2, <1>6 DEF Known, Tracked, Unchanged
  <2>2. ~AtServer(c, l)
    BY <1>2 DEF AtServer, Known, Tracked, Once
  <2>3. PICK i \in Places(c) : ~IsSync(c, i) /\ toClient[c][i].localSeq = l
    BY <1>2, <1>6, <2>2 DEF Answers, Awaiting
  <2> QED BY <2>1, <2>3 DEF Answers, VerdictFirst
<1>7. ASSUME St(c, l) = "parked"
      PROVE  /\ pending[c][l].commit = log[s].commit /\ pending[c][l].seq = s
             /\ caughtUp[c] < l
  <2>1. PICK t : t = pending[c][l].seq /\ Own(t, c) /\ log[t].commit = pending[c][l].commit
    BY <1>2, <1>7 DEF Answers, ParkedSeqs
  <2>2. Local(t) = l
    BY <1>2, <1>7, <2>1 DEF Local, Known, Tracked, Named
  <2>3. t = s
    BY <2>1, <2>2, OneRow DEF Ordered
  <2> QED BY <1>2, <1>7, <2>1, <2>3 DEF Answers, ParkedWaits
<1> QED BY <1>2, <1>5, <1>6, <1>7

(* What is accepted has its layer standing: a dropped layer is lost.         *)
LEMMA AcceptedStands ==
  ASSUME NEW c \in Client, Known(c), NEW h \in Sent(c), Resolved(c, h)
  PROVE  St(c, h.localSeq) # "gone"
<1>1. PICK l \in Locals(c) : l = h.localSeq
  BY LocalsAreNat
<1>2. fate[c][l] # "accepted"
  BY <1>1 DEF Known, Tracked, AcceptedIsLogged, Once
<1>3. fate[c][l] # "rejected"
  <2>1. SUFFICES ASSUME fate[c][l] = "rejected" PROVE FALSE
    OBVIOUS
  <2>2. PICK k \in h.layers \cap Locals(c) : fate[c][k] = "rejected"
    BY <1>1, <2>1 DEF Known, Tracked, RejectedIsLost
  <2>3. ~InLog(c, k)
    BY <2>2 DEF Known, Tracked, RejectedIsLost
  <2>4. Accepted(c, k)
    BY <2>2 DEF Resolved
  <2> QED BY <2>3, <2>4, AcceptedInLog
<1> QED BY <1>1, <1>2, <1>3 DEF Known, TypedOf, LayerOK

(* What a promotion leaves of its document.                                 *)
LEMMA PromoteAt ==
  ASSUME NEW b, BasesOK(b), NEW p, NEW s \in 0..HeadSeq, p.seq = s,
         NEW d \in Doc, p.commit.op.doc = d
  PROVE  IF b[d].seq >= s THEN Promote(b, p)[d] = b[d]
         ELSE /\ Promote(b, p)[d].seq = s
              /\ Promote(b, p)[d].value = Apply(b[d].value, p.commit.op)
<1>1. LET x == p.commit.op.doc IN
        IF b[x].seq >= p.seq THEN Promote(b, p)[x] = b[x]
        ELSE /\ Promote(b, p)[x].seq = p.seq
             /\ Promote(b, p)[x].value = Apply(b[x].value, p.commit.op)
  BY PromoteStep
<1> QED BY <1>1, Zenon

(* An accepted operation over the document just before it.                  *)
LEMMA PromoteTrue ==
  ASSUME NEW c \in Client, HeadSeq \in Nat, LogOK, NEW b, BasesOK(b), NEW p,
         NEW s \in 1..HeadSeq, p.seq = s, p.commit = log[s].commit,
         NEW d \in Doc, p.commit.op.doc = d, TrueAt(c, d, b[d]),
         \A t \in 1..HeadSeq : b[d].seq < t /\ t < s => ~Wrote(t, d)
  PROVE  TrueAt(c, d, Promote(b, p)[d])
<1>2. IF b[d].seq >= s THEN Promote(b, p)[d] = b[d]
      ELSE /\ Promote(b, p)[d].seq = s
           /\ Promote(b, p)[d].value = Apply(b[d].value, p.commit.op)
  BY PromoteAt
<1>3. CASE b[d].seq >= s
  BY <1>2, <1>3
<1>4. CASE ~(b[d].seq >= s)
  <2>1. PICK a \in 0..HeadSeq : a = b[d].seq /\ b[d].value = DocAt(d, a)
    BY DEF TrueAt
  <2>2. PICK e \in 0..HeadSeq : e = s - 1 /\ a <= e
    <3>1. ~(a >= s)
      BY <1>4, <2>1
    <3>2. s - 1 \in 0..HeadSeq /\ a <= s - 1
      BY <3>1
    <3> QED BY <3>2
  <2>3. DocAt(d, e) = DocAt(d, a)
    <3>1. \A t \in 1..HeadSeq : a < t /\ t < s => ~Wrote(t, d)
      BY <2>1
    <3>2. \A t : a < t /\ t <= e /\ t \in 1..HeadSeq => ~Wrote(t, d)
      BY <2>2, <3>1
    <3> QED BY <2>2, <3>2, QuietInterval
  <2>4. DocAt(d, s) = Apply(DocAt(d, s - 1), log[s].commit.op)
    BY DEF LogOK, RowOK
  <2>5. Promote(b, p)[d].seq = s /\ Promote(b, p)[d].value = Apply(b[d].value, p.commit.op)
    BY <1>2, <1>4
  <2>6. Apply(b[d].value, p.commit.op) = DocAt(d, s)
    BY <2>1, <2>2, <2>3, <2>4
  <2>7. s \in 0..HeadSeq
    OBVIOUS
  <2> QED BY <2>5, <2>6, <2>7 DEF TrueAt
<1> QED BY <1>3, <1>4

(* The base of a document after the upserts of a frame: one of them, or the *)
(* base that is newer than all of them.                                     *)
LEMMA IntegratedCases ==
  ASSUME NEW c \in Client, BasesOK(confirmed[c]), NEW d \in Doc, NEW m, m.type = "sync",
         MessageOK(c, m), NEW B, B = Integrated(c, d, m.upserts)
  PROVE  /\ B.seq \in -1..HeadSeq /\ B.seq >= confirmed[c][d].seq
         /\ \/ B = confirmed[c][d]
               /\ \A u \in m.upserts : u.doc = d => u.seq < B.seq
            \/ \E u \in m.upserts : u.doc = d /\ B.seq = u.seq /\ B.value = u.value
<1> DEFINE newer == {u \in m.upserts : u.doc = d /\ u.seq >= confirmed[c][d].seq}
           v == CHOOSE u \in newer : TRUE
<1>1. /\ confirmed[c][d].seq \in -1..HeadSeq
      /\ \A u \in m.upserts : u.seq \in 0..HeadSeq
  BY DEF BasesOK, MessageOK
<1>2. CASE newer = {}
  <2>1. Integrated(c, d, m.upserts) = confirmed[c][d]
    BY <1>2 DEF Integrated
  <2>2. \A u \in m.upserts : u.doc = d => u.seq < confirmed[c][d].seq
    BY <1>1, <1>2
  <2> QED BY <1>1, <2>1, <2>2
<1>3. CASE newer # {}
  <2>1. v \in newer
    BY <1>3
  <2>2. Integrated(c, d, m.upserts) = [seq |-> v.seq, value |-> v.value]
    BY <1>3 DEF Integrated
  <2>3. PICK u \in m.upserts : u = v /\ u.doc = d /\ u.seq >= confirmed[c][d].seq
    BY <2>1
  <2>4. B.seq = u.seq /\ B.value = u.value
    <3>1. Integrated(c, d, m.upserts) = [seq |-> u.seq, value |-> u.value]
      BY <2>2, <2>3, Zenon
    <3> HIDE DEF v
    <3> QED BY <3>1
  <2>5. B.seq \in -1..HeadSeq /\ B.seq >= confirmed[c][d].seq
    <3>1. u.seq \in -1..HeadSeq
      BY <1>1
    <3> QED BY <2>3, <2>4, <3>1
  <2> QED BY <2>3, <2>4, <2>5
<1> QED BY <1>2, <1>3

(* The bases of a replica along a frame it handles.                         *)
Run(c, m, g) ==
  LET n == Len(fate[c]) IN
  /\ n \in Nat /\ g[0] = Bases(c, m) /\ g[n] = confirmed'[c]
  /\ \A k \in Nat : k < n => g[k + 1] = IF Due(pending[c][k + 1], Caught(c, m))
                                        THEN Promote(g[k], pending[c][k + 1]) ELSE g[k]
  /\ \A k \in 0..n : BasesOK(g[k])
  /\ \A k \in 0..n : \A d \in Doc : g[k][d].seq >= Bases(c, m)[d].seq
  /\ \A k \in 0..n : \A l \in 1..k : Due(pending[c][l], Caught(c, m)) =>
       g[k][pending[c][l].commit.op.doc].seq >= pending[c][l].seq

(* The run of a frame from the replica's bases with the upserts to its     *)
(* next bases.                                                             *)
LEMMA SyncRun ==
  ASSUME NEW c \in Client, Known(c), NEW m, NEW g, Takes(c, m), m.type = "sync",
         Syncs(c, m, g)
  PROVE  Run(c, m, g) /\ MessageOK(c, m) /\ BasesOK(Bases(c, m))
<1>1. /\ BasesOK(confirmed[c]) /\ Locals(c) = 1..Len(fate[c])
      /\ \A l \in Locals(c) : LayerOK(c, l)
  BY DEF Known, TypedOf, Locals
<1>2. MessageOK(c, m)
  <2>1. 1 \in Places(c) /\ toClient[c][1] = m
    BY TakesPlaces DEF Known
  <2> QED BY <2>1 DEF Known, TypedOf
<1>3. BasesOK(Bases(c, m))
  <2>1. \A d \in Doc : Integrated(c, d, m.upserts).seq \in -1..HeadSeq
    BY <1>1, <1>2, IntegratedCases
  <2> QED BY <2>1 DEF BasesOK, Bases
<1>4. \A l \in Locals(c) : Due(pending[c][l], Caught(c, m)) =>
        pending[c][l].seq \in 0..HeadSeq /\ pending[c][l].commit.op.doc \in Doc
  <2>1. \A l \in Locals(c) : Due(pending[c][l], Caught(c, m)) => St(c, l) = "parked"
    BY DEF Due, St
  <2>2. \A l \in Locals(c) : St(c, l) = "parked" =>
          pending[c][l].seq \in 0..HeadSeq /\ WellFormed(c, pending[c][l].commit)
    BY <1>1 DEF LayerOK, Known
  <2> QED BY <2>1, <2>2, WellFormedOp
<1>5. PICK n \in Nat : n = Len(fate[c])
  BY LocalsDomain DEF Known
<1>6. PromoteRun(g, n, Bases(c, m), pending[c], Caught(c, m)) /\ confirmed'[c] = g[n]
  BY <1>5 DEF Syncs
<1>7. /\ \A k \in 0..n : BasesOK(g[k])
      /\ \A k \in 0..n : \A d \in Doc : g[k][d].seq >= Bases(c, m)[d].seq
      /\ \A k \in 0..n : \A l \in 1..k : Due(pending[c][l], Caught(c, m)) =>
           g[k][pending[c][l].commit.op.doc].seq >= pending[c][l].seq
  BY <1>1, <1>3, <1>4, <1>5, <1>6, RunRises
<1>8. g[0] = Bases(c, m)
  BY <1>6 DEF PromoteRun
<1>9. \A k \in Nat : k < n => g[k + 1] = IF Due(pending[c][k + 1], Caught(c, m))
                                        THEN Promote(g[k], pending[c][k + 1]) ELSE g[k]
  <2> SUFFICES ASSUME NEW k \in Nat, k < n
               PROVE  g[k + 1] = IF Due(pending[c][k + 1], Caught(c, m))
                                 THEN Promote(g[k], pending[c][k + 1]) ELSE g[k]
    OBVIOUS
  <2>1. k + 1 \in 0..n /\ k + 1 # 0 /\ (k + 1) - 1 = k
    OBVIOUS
  <2> QED BY <1>6, <2>1 DEF PromoteRun
<1> QED BY <1>2, <1>3, <1>5, <1>6, <1>7, <1>8, <1>9 DEF Run

(* The bases of a replica never move backwards.                             *)
LEMMA MovesRise ==
  ASSUME NEW c \in Client, Known(c), ClientMoves(c), NEW d \in Doc
  PROVE  confirmed'[c][d].seq >= confirmed[c][d].seq /\ BasesOK(confirmed'[c])
<1>1. BasesOK(confirmed[c]) /\ confirmed[c][d].seq \in Int
  BY DEF Known, TypedOf, BasesOK
<1>2. CASE confirmed'[c] = confirmed[c]
  BY <1>1, <1>2
<1>3. ASSUME NEW m, NEW l, Heeds(c, m, l), Promotes(c, l, m.seq), m.type = "accept"
      PROVE  confirmed'[c][d].seq >= confirmed[c][d].seq /\ BasesOK(confirmed'[c])
  <2>1. m.seq \in 0..HeadSeq
    <3>1. 1 \in Places(c) /\ toClient[c][1] = m
      BY <1>3, TakesPlaces DEF Known, Heeds
    <3> QED BY <1>3, <3>1 DEF Known, TypedOf, MessageOK
  <2>2. pending[c][l].commit.op.doc \in Doc
    BY <1>3, WellFormedOp DEF Heeds, Known, TypedOf, LayerOK
  <2>3. PICK p : /\ p.commit = pending[c][l].commit /\ p.seq = m.seq
                 /\ confirmed'[c] = Promote(confirmed[c], p)
    BY <1>3 DEF Promotes
  <2> QED BY <1>1, <2>1, <2>2, <2>3, PromoteStep
<1>4. ASSUME NEW m, NEW g, Takes(c, m), m.type = "sync", Syncs(c, m, g)
      PROVE  confirmed'[c][d].seq >= confirmed[c][d].seq /\ BasesOK(confirmed'[c])
  <2>1. Run(c, m, g) /\ MessageOK(c, m) /\ BasesOK(Bases(c, m))
    BY <1>4, SyncRun
  <2>2. Bases(c, m)[d].seq >= confirmed[c][d].seq
    <3> DEFINE B == Integrated(c, d, m.upserts)
    <3>1. Bases(c, m)[d] = B
      BY DEF Bases
    <3> HIDE DEF B
    <3> QED BY <1>1, <1>4, <2>1, <3>1, IntegratedCases DEF B
  <2>3. PICK n \in Nat : n = Len(fate[c])
    BY <2>1 DEF Run
  <2>4. g[n] = confirmed'[c] /\ n \in 0..n
    BY <2>1, <2>3 DEF Run
  <2>5. confirmed'[c][d].seq >= Bases(c, m)[d].seq /\ BasesOK(confirmed'[c])
    BY <2>1, <2>3, <2>4 DEF Run
  <2> QED BY <1>1, <2>1, <2>2, <2>5 DEF BasesOK
<1>5. CASE \E m, l : Heeds(c, m, l)
  BY <1>2, <1>3, <1>5 DEF Heeds
<1> QED BY <1>2, <1>4, <1>5
        DEF ClientMoves, Retreats, Commits, Dispatches, Ignores, BaseSame

(* A replica that watches something integrates the frame it takes.          *)
LEMMA FrameHeeded ==
  ASSUME NEW c \in Client, Known(c), ClientMoves(c), NEW m, Takes(c, m), m.type = "sync",
         Parkable(c)
  PROVE  \E g : Syncs(c, m, g)
<1>1. Len(toClient'[c]) = Len(toClient[c]) - 1 /\ Len(toClient[c]) \in Nat
  BY TakesPlaces DEF Known
<1>2. toClient'[c] # toClient[c]
  BY <1>1
<1>3. \A n : Takes(c, n) => n = m
  BY DEF Takes
<1> QED BY <1>2, <1>3
        DEF ClientMoves, Retreats, Commits, LinkSame, Dispatches, Ignores, Heeds

(* A frame that covers a revision makes the base at least as new.           *)
LEMMA FrameCovers ==
  ASSUME NEW c \in Client, Known(c), UpsertsTrue(c), NEW m, NEW g, Takes(c, m),
         m.type = "sync", Syncs(c, m, g), NEW d \in Doc, NEW t \in Int, Covers(c, 1, d, t)
  PROVE  Bases(c, m)[d].seq >= t
<1>1. Run(c, m, g) /\ MessageOK(c, m)
  BY SyncRun
<1>2. 1 \in Places(c) /\ toClient[c][1] = m
  BY TakesPlaces DEF Known
<1>3. PICK u \in m.upserts : u.doc = d /\ u.seq >= t
  BY <1>2 DEF Covers
<1>4. u.seq \in Int
  BY <1>1 DEF MessageOK
<1>5. PICK B : B = Integrated(c, d, m.upserts) /\ B = Bases(c, m)[d]
  BY DEF Bases
<1>6. BasesOK(confirmed[c]) /\ HeadSeq \in Nat
  BY DEF Known, TypedOf
<1>7. /\ B.seq \in -1..HeadSeq /\ B.seq >= confirmed[c][d].seq
      /\ \/ B = confirmed[c][d]
            /\ \A w \in m.upserts : w.doc = d => w.seq < B.seq
         \/ \E w \in m.upserts : w.doc = d /\ B.seq = w.seq /\ B.value = w.value
  <2>1. MessageOK(c, m) /\ B = Integrated(c, d, m.upserts)
    BY <1>1, <1>5
  <2> QED BY <1>6, <2>1, IntegratedCases
<1>8. \A w \in m.upserts : w.doc = d => w.seq = u.seq
  BY <1>2, <1>3 DEF UpsertsTrue, IsSync
<1>9. CASE \A w \in m.upserts : w.doc = d => w.seq < B.seq
  BY <1>3, <1>4, <1>5, <1>6, <1>7, <1>9
<1>10. CASE \E w \in m.upserts : w.doc = d /\ B.seq = w.seq
  BY <1>3, <1>4, <1>5, <1>8, <1>10
<1> QED BY <1>7, <1>9, <1>10

(* What others wrote is still on its way, or has come.                      *)
LEMMA ForeignArriveMoves ==
  ASSUME NEW c \in Client, Known(c), Answers(c), Arrivals(c), ServerSame, ClientMoves(c),
         Watched[c] \subseteq Doc
  PROVE  ForeignArrive(c)'
<1> SUFFICES ASSUME NEW d \in Watched[c], NEW t, Foreign(t, c, d)'
             PROVE  Arrives(c, d, t)'
  BY DEF ForeignArrive
<1>1. /\ Foreign(t, c, d) /\ t \in Int /\ Arrives(c, d, t)
      /\ Parkable(c) /\ d \in Doc /\ flushed' = flushed
  <2>1. Foreign(t, c, d) /\ t \in Int
    BY DEF Foreign, ServerSame, HeadSeq, Wrote
  <2> QED BY <2>1 DEF Arrivals, ForeignArrive, Parkable, ServerSame
<1>2. confirmed'[c][d].seq >= confirmed[c][d].seq /\ confirmed[c][d].seq \in Int
      /\ confirmed'[c][d].seq \in Int
  <2>1. confirmed'[c][d].seq >= confirmed[c][d].seq /\ BasesOK(confirmed'[c])
    BY <1>1, MovesRise
  <2> QED BY <1>1, <2>1 DEF Known, TypedOf, BasesOK
<1>3. CASE t <= confirmed[c][d].seq
  BY <1>1, <1>2, <1>3 DEF Arrives
<1>4. CASE t > flushed
  BY <1>1, <1>4 DEF Arrives
<1>5. ASSUME NEW i \in Places(c), Covers(c, i, d, t), InTime(c, i, t)
      PROVE  Arrives(c, d, t)'
  <2>1. PICK k \in {0, 1} : /\ Shifts(c, k) /\ (k = 1 => \E m : Takes(c, m))
    BY MovesPlaces DEF Known
  <2>2. CASE i <= k
    <3>1. i = 1 /\ k = 1
      BY <2>1, <2>2 DEF Places
    <3>2. PICK m : Takes(c, m) /\ toClient[c][1] = m
      BY <2>1, <3>1, TakesPlaces DEF Known
    <3>3. m.type = "sync"
      BY <1>5, <3>1, <3>2 DEF Covers, IsSync
    <3>4. PICK g : Syncs(c, m, g)
      BY <1>1, <3>2, <3>3, FrameHeeded
    <3>5. Run(c, m, g) /\ MessageOK(c, m)
      BY <3>2, <3>3, <3>4, SyncRun
    <3>6. PICK u \in m.upserts : u.doc = d /\ u.seq >= t
      BY <1>5, <3>1, <3>2 DEF Covers
    <3>7. u.seq \in Int
      BY <3>3, <3>5 DEF MessageOK
    <3>8. Bases(c, m)[d].seq >= t
      BY <1>1, <1>5, <3>1, <3>2, <3>3, <3>4, FrameCovers DEF Arrivals
    <3>9. confirmed'[c][d].seq >= Bases(c, m)[d].seq
      <4>1. PICK n \in Nat : n = Len(fate[c])
        BY <3>5 DEF Run
      <4>2. g[n] = confirmed'[c] /\ n \in 0..n
        BY <3>5, <4>1 DEF Run
      <4> QED BY <1>1, <3>5, <4>1, <4>2 DEF Run
    <3>10. Bases(c, m)[d].seq \in Int
      BY <1>1, <3>2, <3>3, <3>4, SyncRun DEF BasesOK
    <3> QED BY <1>1, <1>2, <3>8, <3>9, <3>10 DEF Arrives
  <2>3. CASE ~(i <= k)
    <3>1. PICK j \in Places(c)' : j = i - k /\ j + k = i /\ toClient'[c][j] = toClient[c][i]
      BY <2>1, <2>3 DEF Shifts, Places
    <3>2. Covers(c, j, d, t)'
      BY <1>5, <3>1 DEF Covers, IsSync
    <3>3. InTime(c, j, t)'
      <4> SUFFICES ASSUME NEW l, NEW g, Decided(c, l, g)', t <= g PROVE Unmarked(c, j, l)'
        BY DEF InTime
      <4>1. Decided(c, l, g) /\ l \in Int
        BY DecidedKept, DecidedIn DEF Answers
      <4>2. Unmarked(c, j + k, l)
        BY <1>5, <3>1, <4>1 DEF InTime
      <4> QED BY <2>1, <3>1, <4>1, <4>2 DEF Shifts
    <3> QED BY <3>1, <3>2, <3>3 DEF Arrives
  <2> QED BY <2>2, <2>3
<1> QED BY <1>1, <1>3, <1>4, <1>5 DEF Arrives

(* Upserts in flight stay true in a move of the replica they are for.      *)
LEMMA UpsertsTrueMoves ==
  ASSUME NEW c \in Client, Known(c), UpsertsTrue(c), ServerSame, ClientMoves(c)
  PROVE  UpsertsTrue(c)'
<1>1. PICK k \in {0, 1} : Shifts(c, k)
  BY MovesPlaces DEF Known
<1> SUFFICES ASSUME NEW i \in Places(c)', IsSync(c, i)', NEW u \in toClient'[c][i].upserts
             PROVE  /\ UpsertTrue(c, i, u)'
                    /\ \A w \in toClient'[c][i].upserts : w.doc = u.doc => w.seq = u.seq
  BY DEF UpsertsTrue
<1>2. i + k \in Places(c) /\ toClient'[c][i] = toClient[c][i + k] /\ IsSync(c, i + k)
  BY <1>1 DEF Shifts, IsSync
<1>3. /\ UpsertTrue(c, i + k, u)
      /\ \A w \in toClient'[c][i].upserts : w.doc = u.doc => w.seq = u.seq
  BY <1>2 DEF UpsertsTrue
<1>4. HeadSeq' = HeadSeq /\ DocAt(u.doc, u.seq)' = DocAt(u.doc, u.seq)
  BY DEF ServerSame, HeadSeq, DocAt
<1>5. ASSUME NEW s, Own(s, c)', s <= u.seq, Unmarked(c, i, Local(s))'
      PROVE  Marks(c, i, Local(s))'
  <2>1. PICK l : l = Local(s) /\ l = Local(s)' /\ Own(s, c)
    BY <1>5 DEF ServerSame, Own, Local, HeadSeq
  <2>2. l \in Int
    BY <2>1, LocalsAreNat DEF Own
  <2>3. Unmarked(c, i, l)'
    BY <1>5, <2>1
  <2>4. Unmarked(c, i + k, l)
    BY <1>1, <1>3, <2>2, <2>3 DEF Shifts, UpsertTrue, Parkable
  <2>5. Marks(c, i + k, l)
    BY <1>3, <1>5, <2>1, <2>4 DEF UpsertTrue
  <2>6. Marks(c, i, l)'
    BY <1>2, <2>5 DEF Marks, IsSync
  <2> QED BY <2>1, <2>6
<1>6. UpsertTrue(c, i, u)'
  BY <1>3, <1>4, <1>5 DEF UpsertTrue
<1> QED BY <1>3, <1>6

(* How the layer of an accepted commit is promoted.                         *)
LEMMA LayerGoes ==
  ASSUME NEW c \in Client, Known(c), ClientMoves(c), NEW l \in Locals(c),
         St(c, l) \in {"sent", "parked"}, St(c, l)' = "gone"
  PROVE  \/ \E m : Heeds(c, m, l) /\ m.type = "accept" /\ Promotes(c, l, m.seq)
         \/ \E m, g : /\ Takes(c, m) /\ m.type = "sync" /\ Syncs(c, m, g)
                      /\ Due(pending[c][l], Caught(c, m))
<1>1. ~Kept(c, l)
  BY DEF Kept, St
<1>2. CASE Retreats(c)
  BY <1>1, <1>2 DEF Retreats, Loses
<1>3. CASE \E tx \in Tx[c] : Commits(c, tx)
  BY <1>1, <1>3 DEF Commits
<1>4. CASE \E k : Dispatches(c, k)
  BY <1>1, <1>4 DEF Dispatches, AllKept
<1>5. CASE \E m : Ignores(c, m)
  BY <1>1, <1>5 DEF Ignores, Kept
<1>6. CASE \E m, k : Heeds(c, m, k)
  <2>1. PICK m, k : Heeds(c, m, k)
    BY <1>6
  <2>2. k = l
    BY <1>1, <2>1 DEF Heeds, AllKept
  <2>3. Heeds(c, m, l)
    BY <2>1, <2>2
  <2>4. m.type = "accept" /\ Promotes(c, l, m.seq)
    BY <2>3 DEF Heeds
  <2> QED BY <2>3, <2>4
<1>7. CASE \E m, g : Takes(c, m) /\ m.type = "sync" /\ Parkable(c) /\ Syncs(c, m, g)
  <2>1. PICK m, g : Takes(c, m) /\ m.type = "sync" /\ Parkable(c) /\ Syncs(c, m, g)
    BY <1>7
  <2>2. pending'[c][l] = IF Due(pending[c][l], Caught(c, m)) THEN Gone ELSE pending[c][l]
    BY <2>1 DEF Syncs
  <2>3. Due(pending[c][l], Caught(c, m))
    BY <2>2 DEF St
  <2> QED BY <2>1, <2>3
<1> QED BY <1>2, <1>3, <1>4, <1>5, <1>6, <1>7 DEF ClientMoves

(* What the writer of a row has of it stays with it.                        *)
LEMMA OwnReachedMoves ==
  ASSUME NEW c \in Client, Known(c), LogOK, Ordered(c), Answers(c), OwnReached(c),
         ServerSame, ClientMoves(c)
  PROVE  OwnReached(c)'
<1> SUFFICES ASSUME NEW s, Own(s, c)', (St(c, Local(s)) = "gone")'
             PROVE  confirmed'[c][log'[s].commit.op.doc].seq >= s
  BY DEF OwnReached
<1>1. PICK l, d : l = Local(s) /\ d = log[s].commit.op.doc
  OBVIOUS
<1>2. Own(s, c) /\ l = Local(s)' /\ d = log'[s].commit.op.doc
  BY <1>1 DEF ServerSame, Own, Local, HeadSeq
<1>3. /\ l \in Locals(c) /\ St(c, l) \in {"sent", "parked", "gone"}
      /\ St(c, l) = "sent" => pending[c][l].commit = log[s].commit
      /\ St(c, l) = "parked" => pending[c][l].commit = log[s].commit /\ pending[c][l].seq = s
  BY <1>1, <1>2, OwnState
<1>4. d \in Doc /\ s \in 1..HeadSeq
  BY <1>1, <1>2, WellFormedOp DEF Own, LogOK, RowOK
<1>5. confirmed[c][d].seq \in Int /\ confirmed'[c][d].seq \in Int
      /\ confirmed'[c][d].seq >= confirmed[c][d].seq /\ BasesOK(confirmed[c])
  <2>1. BasesOK(confirmed'[c]) /\ confirmed'[c][d].seq >= confirmed[c][d].seq
    BY <1>4, MovesRise
  <2> QED BY <1>4, <2>1 DEF Known, TypedOf, BasesOK
<1>6. St(c, l)' = "gone"
  BY <1>2
<1>7. CASE St(c, l) = "gone"
  <2>1. confirmed[c][d].seq >= s
    BY <1>1, <1>2, <1>7 DEF OwnReached
  <2> QED BY <1>2, <1>4, <1>5, <2>1
<1>8. ASSUME NEW m, Heeds(c, m, l), m.type = "accept", Promotes(c, l, m.seq)
      PROVE  confirmed'[c][d].seq >= s
  <2>1. 1 \in Places(c) /\ toClient[c][1] = m /\ m.localSeq = l /\ St(c, l) = "sent"
    BY <1>8, TakesPlaces DEF Known, Heeds
  <2>2. Own(m.seq, c) /\ Local(m.seq) = l
    BY <1>8, <2>1 DEF Answers, VerdictSeqs
  <2>3. m.seq = s
    BY <1>1, <1>2, <2>2, OneRow DEF Ordered
  <2>4. PICK p : /\ p.commit = pending[c][l].commit /\ p.seq = m.seq
                 /\ confirmed'[c] = Promote(confirmed[c], p)
    BY <1>8 DEF Promotes
  <2>5. p.seq = s /\ p.commit.op.doc = d
    BY <1>1, <1>3, <2>1, <2>3, <2>4
  <2>6. s \in 0..HeadSeq
    BY <1>4
  <2>7. IF confirmed[c][d].seq >= s THEN confirmed'[c][d] = confirmed[c][d]
        ELSE confirmed'[c][d].seq = s
    <3>1. IF confirmed[c][d].seq >= s THEN Promote(confirmed[c], p)[d] = confirmed[c][d]
          ELSE Promote(confirmed[c], p)[d].seq = s
      BY <1>4, <1>5, <2>5, <2>6, PromoteAt
    <3>2. confirmed'[c][d] = Promote(confirmed[c], p)[d]
      BY <2>4
    <3> QED BY <3>1, <3>2, Zenon
  <2> QED BY <1>4, <1>5, <2>7
<1>9. ASSUME NEW m, NEW g, Takes(c, m), m.type = "sync", Syncs(c, m, g),
             Due(pending[c][l], Caught(c, m))
      PROVE  confirmed'[c][d].seq >= s
  <2>1. Run(c, m, g)
    BY <1>9, SyncRun
  <2>2. PICK n \in Nat : n = Len(fate[c])
    BY <2>1 DEF Run
  <2>3. g[n] = confirmed'[c] /\ n \in 0..n /\ l \in 1..n
    BY <1>3, <2>1, <2>2 DEF Run, Locals
  <2>4. St(c, l) = "parked"
    BY <1>9 DEF Due, St
  <2>5. g[n][pending[c][l].commit.op.doc].seq >= pending[c][l].seq
    BY <1>9, <2>1, <2>2, <2>3 DEF Run
  <2> QED BY <1>1, <1>3, <2>3, <2>4, <2>5
<1> QED BY <1>2, <1>3, <1>6, <1>7, <1>8, <1>9, LayerGoes

(* What a frame marks is marked at the replica, or by the frame itself.     *)
LEMMA CaughtMarks ==
  ASSUME NEW c \in Client, Known(c), NEW m, Takes(c, m), m.type = "sync"
  PROVE  /\ 1 \in Places(c) /\ IsSync(c, 1) /\ toClient[c][1] = m
         /\ Caught(c, m) \in Int /\ Caught(c, m) >= caughtUp[c]
         /\ \A l \in Int : Marks(c, 1, l) => l <= Caught(c, m)
         /\ \A l \in Int : caughtUp[c] < l /\ l <= Caught(c, m) => Marks(c, 1, l)
         /\ \A l \in Int : Unmarked(c, 1, l) <=> caughtUp[c] < l
<1>1. 1 \in Places(c) /\ toClient[c][1] = m /\ IsSync(c, 1)
  BY TakesPlaces DEF Known, IsSync
<1>2. m.marker \in Int /\ caughtUp[c] \in Int
  <2>1. MessageOK(c, m)
    BY <1>1 DEF Known, TypedOf
  <2> QED BY <2>1, LocalsAreNat, LocalsDomain DEF Known, MessageOK
<1>3. \A j \in Places(c) : ~(j < 1)
  BY DEF Places
<1> QED BY <1>1, <1>2, <1>3 DEF Caught, Marks, Unmarked

(* Between the base a frame has reached and the next accepted operation it  *)
(* brings to promotion, nobody wrote the document.                          *)
LEMMA RunGap ==
  ASSUME NEW c \in Client, Known(c), LogOK, Ordered(c), Answers(c), Arrivals(c), flushed \in Nat,
         NEW m, NEW g, Takes(c, m), m.type = "sync", Syncs(c, m, g), NEW d \in Watched[c],
         d \in Doc, NEW k \in Nat, k < Len(fate[c]), NEW l, l = k + 1,
         Due(pending[c][l], Caught(c, m)), NEW s, s = pending[c][l].seq,
         NEW t \in 1..HeadSeq, g[k][d].seq < t, t < s
  PROVE  ~Wrote(t, d)
<1> SUFFICES ASSUME Wrote(t, d) PROVE FALSE
  OBVIOUS
<1>1. PICK n \in Nat : n = Len(fate[c])
  BY LocalsDomain DEF Known
<1>2. Run(c, m, g) /\ MessageOK(c, m) /\ BasesOK(Bases(c, m))
  BY SyncRun
<1>3. k \in 0..n /\ l \in Locals(c) /\ l \in Nat /\ l <= n
  BY <1>1 DEF Locals
<1>4. /\ g[k][d].seq \in Int /\ Bases(c, m)[d].seq \in Int /\ confirmed[c][d].seq \in Int
      /\ g[k][d].seq >= Bases(c, m)[d].seq /\ Bases(c, m)[d].seq >= confirmed[c][d].seq
  <2>1. BasesOK(g[k]) /\ g[k][d].seq >= Bases(c, m)[d].seq
    BY <1>1, <1>2, <1>3 DEF Run
  <2>2. PICK B : B = Integrated(c, d, m.upserts)
    OBVIOUS
  <2>3. BasesOK(confirmed[c])
    BY DEF Known, TypedOf
  <2>4. B.seq >= confirmed[c][d].seq
    BY <1>2, <2>2, <2>3, IntegratedCases
  <2>5. Bases(c, m)[d] = B
    BY <2>2 DEF Bases
  <2> QED BY <1>2, <2>1, <2>3, <2>4, <2>5 DEF BasesOK
<1>5. /\ 1 \in Places(c) /\ IsSync(c, 1) /\ toClient[c][1] = m
      /\ Caught(c, m) \in Int /\ Caught(c, m) >= caughtUp[c]
      /\ \A j \in Int : caughtUp[c] < j /\ j <= Caught(c, m) => Marks(c, 1, j)
  BY CaughtMarks
<1>6. St(c, l) = "parked" /\ pending[c][l].commit.localSeq = l /\ l <= Caught(c, m)
  BY <1>3 DEF Due, St, Known, Tracked, Named
<1>7. Own(s, c) /\ Local(s) = l /\ caughtUp[c] < l /\ log[s].commit = pending[c][l].commit
  <2>1. Own(s, c) /\ log[s].commit = pending[c][l].commit
    BY <1>3, <1>6 DEF Answers, ParkedSeqs
  <2> QED BY <1>3, <1>6, <2>1 DEF Answers, ParkedWaits, Local
<1>8. Marks(c, 1, l) /\ s \in 1..HeadSeq
  BY <1>3, <1>5, <1>6, <1>7 DEF Own
<1>9. CASE log[t].client # c
  <2>1. Foreign(t, c, d)
    BY <1>9 DEF Foreign
  <2>2. Decided(c, l, s)
    BY <1>7 DEF Decided
  <2>3. s <= flushed
    BY <1>5, <1>8, <2>2 DEF Answers, MarksFlushed, Unheard
  <2>4. ~(t > flushed)
    BY <1>8, <2>3
  <2>5. ASSUME NEW i \in Places(c), Covers(c, i, d, t), InTime(c, i, t) PROVE FALSE
    <3>1. t <= s
      BY <1>8
    <3>2. Unmarked(c, i, l)
      BY <2>2, <2>5, <3>1 DEF InTime
    <3>3. i = 1
      <4>1. ~(1 < i)
        BY <1>5, <1>8, <3>2 DEF Unmarked
      <4> QED BY <4>1 DEF Places
    <3>4. Bases(c, m)[d].seq >= t
      BY <2>5, <3>3, FrameCovers DEF Arrivals
    <3> QED BY <1>4, <3>4
  <2>6. Arrives(c, d, t)
    BY <2>1 DEF Arrivals, ForeignArrive
  <2> QED BY <1>4, <2>4, <2>5, <2>6 DEF Arrives
<1>10. CASE log[t].client = c
  <2>1. PICK j : j = Local(t) /\ Own(t, c)
    BY <1>10 DEF Own
  <2>2. j \in Locals(c) /\ j \in Nat /\ j < l
    BY <1>7, <1>8, <2>1, OneRow DEF Ordered
  <2>3. log[t].commit.op.doc = d
    BY DEF Wrote
  <2>4. CASE St(c, j) = "gone"
    <3>1. confirmed[c][d].seq >= t
      BY <2>1, <2>3, <2>4 DEF Arrivals, OwnReached
    <3> QED BY <1>4, <3>1
  <2>5. CASE St(c, j) = "sent"
    <3>1. PICK i \in Places(c) : ~IsSync(c, i) /\ Unmarked(c, i, j)
      BY <2>1, <2>5, OwnState
    <3>2. 1 < i
      BY <1>5, <3>1 DEF Places
    <3>3. Marks(c, 1, j)
      <4>1. m.marker \in Int
        BY <1>2, LocalsDomain DEF MessageOK, Known
      <4> QED BY <1>3, <1>5, <1>8, <2>2, <4>1 DEF Marks
    <3> QED BY <1>5, <3>1, <3>2, <3>3 DEF Unmarked
  <2>6. CASE St(c, j) = "parked"
    <3>1. pending[c][j].commit = log[t].commit /\ pending[c][j].seq = t
      BY <2>1, <2>6, OwnState
    <3>2. Due(pending[c][j], Caught(c, m))
      <4>1. pending[c][j].commit.localSeq = j
        BY <2>1, <3>1 DEF Local
      <4> QED BY <1>3, <1>5, <1>6, <2>2, <2>6, <4>1 DEF Due, St
    <3>3. j \in 1..k
      BY <1>3, <2>2 DEF Locals
    <3>4. g[k][pending[c][j].commit.op.doc].seq >= pending[c][j].seq
      BY <1>1, <1>2, <1>3, <3>2, <3>3 DEF Run
    <3> QED BY <1>4, <2>3, <3>1, <3>4
  <2> QED BY <2>1, <2>4, <2>5, <2>6, OwnState
<1> QED BY <1>9, <1>10

(* A base is a document of the log, and holds no commit of its own replica  *)
(* whose marker has not come.                                               *)
BaseHolds(c, d, b, caught) ==
  TrueAt(c, d, b) /\ \A s : Own(s, c) /\ s <= b.seq => Local(s) <= caught

(* What upserts leave of a base is a document of the log, and holds no own *)
(* commit beyond the marker of their frame.                                *)
LEMMA FrameBase ==
  ASSUME NEW c \in Client, Known(c), Ordered(c), Arrivals(c),
         NEW m, NEW g, Takes(c, m), m.type = "sync", Syncs(c, m, g), NEW d \in Watched[c],
         d \in Doc
  PROVE  BaseHolds(c, d, Bases(c, m)[d], Caught(c, m))
<1>1. /\ 1 \in Places(c) /\ IsSync(c, 1) /\ toClient[c][1] = m
      /\ Caught(c, m) \in Int /\ Caught(c, m) >= caughtUp[c]
      /\ \A l \in Int : Marks(c, 1, l) => l <= Caught(c, m)
      /\ \A l \in Int : Unmarked(c, 1, l) <=> caughtUp[c] < l
  BY CaughtMarks
<1>2. PICK B : B = Integrated(c, d, m.upserts) /\ B = Bases(c, m)[d]
  BY DEF Bases
<1>3. \/ B = confirmed[c][d]
      \/ \E u \in m.upserts : u.doc = d /\ B.seq = u.seq /\ B.value = u.value
  <2>1. BasesOK(confirmed[c]) /\ MessageOK(c, m)
    BY SyncRun DEF Known, TypedOf
  <2>2. B = Integrated(c, d, m.upserts)
    BY <1>2
  <2> QED BY <2>1, <2>2, IntegratedCases
<1>4. \A s : Own(s, c) => Local(s) \in Int /\ caughtUp[c] \in Int
  BY LocalsAreNat DEF Own
<1>5. CASE B = confirmed[c][d]
  BY <1>1, <1>2, <1>4, <1>5 DEF Arrivals, BaseTrue, BaseHolds
<1>6. ASSUME NEW u \in m.upserts, u.doc = d, B.seq = u.seq, B.value = u.value
      PROVE  BaseHolds(c, d, B, Caught(c, m))
  <2>1. UpsertTrue(c, 1, u)
    BY <1>1 DEF Arrivals, UpsertsTrue
  <2>2. TrueAt(c, d, B)
    BY <1>6, <2>1 DEF UpsertTrue, TrueAt
  <2>3. ASSUME NEW s, Own(s, c), s <= B.seq PROVE Local(s) <= Caught(c, m)
    <3>1. Unmarked(c, 1, Local(s)) => Marks(c, 1, Local(s))
      BY <1>6, <2>1, <2>3 DEF UpsertTrue
    <3>2. PICK l \in Int : l = Local(s)
      BY <1>4, <2>3
    <3> QED BY <1>1, <1>4, <2>3, <3>1, <3>2
  <2> QED BY <2>2, <2>3 DEF BaseHolds
<1> QED BY <1>2, <1>3, <1>5, <1>6

(* One promotion of a frame.                                                *)
LEMMA FrameStep ==
  ASSUME NEW c \in Client, Known(c), LogOK, Ordered(c), Answers(c), Arrivals(c), flushed \in Nat,
         NEW m, NEW g, Takes(c, m), m.type = "sync", Syncs(c, m, g), NEW d \in Watched[c],
         d \in Doc, NEW k \in Nat, k < Len(fate[c]), BaseHolds(c, d, g[k][d], Caught(c, m))
  PROVE  BaseHolds(c, d, g[k + 1][d], Caught(c, m))
<1>1. PICK l : l = k + 1
  OBVIOUS
<1>2. PICK n \in Nat : n = Len(fate[c])
  BY LocalsDomain DEF Known
<1>3. Run(c, m, g)
  BY SyncRun
<1>4. /\ g[l] = IF Due(pending[c][l], Caught(c, m)) THEN Promote(g[k], pending[c][l]) ELSE g[k]
      /\ BasesOK(g[k]) /\ l \in Locals(c)
  BY <1>1, <1>2, <1>3 DEF Run, Locals
<1>5. CASE ~Due(pending[c][l], Caught(c, m))
  BY <1>1, <1>4, <1>5
<1>6. CASE Due(pending[c][l], Caught(c, m))
  <2>1. PICK p : p = pending[c][l]
    OBVIOUS
  <2>2. St(c, l) = "parked" /\ p.commit.localSeq = l /\ l <= Caught(c, m)
    BY <1>4, <1>6, <2>1 DEF Due, St, Known, Tracked, Named
  <2>3. PICK s : s = p.seq
    OBVIOUS
  <2>4. Own(s, c) /\ s \in 1..HeadSeq /\ log[s].commit = p.commit
    BY <1>4, <2>1, <2>2, <2>3 DEF Answers, ParkedSeqs, Own
  <2>5. p.commit.op.doc \in Doc /\ HeadSeq \in Nat
    BY <2>4, WellFormedOp DEF LogOK, RowOK, Known
  <2>6. g[l] = Promote(g[k], p)
    BY <1>4, <1>6, <2>1
  <2>7. CASE p.commit.op.doc # d
    <3>1. p.seq \in 0..HeadSeq
      BY <2>3, <2>4
    <3>2. g[l][d] = g[k][d]
      BY <1>4, <2>5, <2>6, <2>7, <3>1, PromoteStep
    <3> QED BY <1>1, <3>2
  <2>8. CASE p.commit.op.doc = d
    <3>1. \A t \in 1..HeadSeq : g[k][d].seq < t /\ t < s => ~Wrote(t, d)
      BY <1>1, <1>6, <2>1, <2>3, RunGap
    <3>2. TrueAt(c, d, g[k][d])
      BY DEF BaseHolds
    <3>3. TrueAt(c, d, g[l][d])
      <4>1. p.seq = s /\ p.commit = log[s].commit
        BY <2>3, <2>4
      <4>2. TrueAt(c, d, Promote(g[k], p)[d])
        BY <1>4, <2>4, <2>5, <2>8, <3>1, <3>2, <4>1, PromoteTrue
      <4> QED BY <2>6, <4>2
    <3>4. g[l][d] = g[k][d] \/ g[l][d].seq = s
      <4>1. s \in 0..HeadSeq /\ p.seq = s
        BY <2>3, <2>4
      <4>2. IF g[k][d].seq >= s THEN Promote(g[k], p)[d] = g[k][d]
            ELSE Promote(g[k], p)[d].seq = s
        BY <1>4, <2>8, <4>1, PromoteAt
      <4> QED BY <2>6, <4>2
    <3>5. ASSUME NEW t, Own(t, c), t <= g[l][d].seq PROVE Local(t) <= Caught(c, m)
      <4>1. CASE g[l][d] = g[k][d]
        BY <3>5, <4>1 DEF BaseHolds
      <4>2. CASE g[l][d].seq = s
        <5>1. t <= s
          BY <3>5, <4>2
        <5>2. /\ t \in Nat /\ s \in Nat /\ Local(t) \in Nat /\ Local(s) \in Nat
              /\ t < s => Local(t) < Local(s)
          BY <2>4, <3>5, OneRow DEF Ordered
        <5>3. Local(s) = l
          BY <2>2, <2>4 DEF Local
        <5>4. Caught(c, m) \in Int
          BY CaughtMarks
        <5>5. t < s \/ t = s
          BY <5>1, <5>2
        <5> QED BY <2>2, <5>2, <5>3, <5>4, <5>5
      <4> QED BY <3>4, <4>1, <4>2
    <3> QED BY <1>1, <3>3, <3>5 DEF BaseHolds
  <2> QED BY <2>7, <2>8
<1> QED BY <1>5, <1>6

(* So every move of a replica leaves its bases documents of the log.       *)
LEMMA BaseTrueMoves ==
  ASSUME NEW c \in Client, Known(c), LogOK, Ordered(c), Answers(c), Arrivals(c), flushed \in Nat,
         Watched[c] \subseteq Doc, ServerSame, ClientMoves(c)
  PROVE  BaseTrue(c)'
<1> SUFFICES ASSUME NEW d \in Watched[c]
             PROVE  /\ TrueAt(c, d, confirmed[c][d])'
                    /\ \A s : Own(s, c)' /\ s <= confirmed'[c][d].seq =>
                         Local(s)' <= caughtUp'[c]
  BY DEF BaseTrue
<1>1. Parkable(c) /\ d \in Doc
  BY DEF Parkable
<1>2. ASSUME BaseHolds(c, d, confirmed'[c][d], caughtUp'[c])
      PROVE  /\ TrueAt(c, d, confirmed[c][d])'
             /\ \A s : Own(s, c)' /\ s <= confirmed'[c][d].seq =>
                  Local(s)' <= caughtUp'[c]
  <2>1. PICK b : b = confirmed'[c][d]
    OBVIOUS
  <2>2. DocAt(d, b.seq)' = DocAt(d, b.seq) /\ HeadSeq' = HeadSeq
    BY DEF ServerSame, DocAt, HeadSeq
  <2>3. TrueAt(c, d, b)'
    BY <1>2, <2>1, <2>2 DEF BaseHolds, TrueAt
  <2>4. \A s : Own(s, c)' => Own(s, c) /\ Local(s)' = Local(s)
    BY DEF ServerSame, Own, Local, HeadSeq
  <2> QED BY <1>2, <2>1, <2>3, <2>4 DEF BaseHolds
<1>3. CASE confirmed'[c] = confirmed[c] /\ caughtUp'[c] = caughtUp[c]
  <2>1. BaseHolds(c, d, confirmed[c][d], caughtUp[c])
    BY DEF Arrivals, BaseTrue, BaseHolds
  <2> QED BY <1>2, <1>3, <2>1
<1>4. ASSUME NEW m, NEW l, Heeds(c, m, l)
      PROVE  confirmed'[c] = confirmed[c] /\ caughtUp'[c] = caughtUp[c]
  <2>1. ~IsSync(c, 1) /\ 1 \in Places(c) /\ toClient[c][1].localSeq = l
    BY <1>4, TakesPlaces DEF Heeds, IsSync, Known
  <2>2. Unmarked(c, 1, l)
    BY <2>1 DEF Answers, VerdictFirst
  <2>3. Parkable(c) /\ caughtUp[c] < l
    BY <1>1, <2>2 DEF Unmarked
  <2> QED BY <1>4, <2>3 DEF Heeds
<1>5. ASSUME NEW m, NEW g, Takes(c, m), m.type = "sync", Syncs(c, m, g)
      PROVE  BaseHolds(c, d, confirmed'[c][d], caughtUp'[c])
  <2>1. PICK n \in Nat : n = Len(fate[c])
    BY LocalsDomain DEF Known
  <2>2. Run(c, m, g)
    BY <1>5, SyncRun
  <2> DEFINE T == {k \in 0..n : BaseHolds(c, d, g[k][d], Caught(c, m))}
  <2>3. 0 \in T
    <3>1. g[0] = Bases(c, m) /\ 0 \in 0..n
      BY <2>2 DEF Run
    <3> QED BY <1>1, <1>5, <3>1, FrameBase
  <2>4. ASSUME NEW k \in Nat, k < n, k \in T PROVE k + 1 \in T
    <3>1. k + 1 \in 0..n
      BY <2>4
    <3> QED BY <1>1, <1>5, <2>1, <2>4, <3>1, FrameStep
  <2> HIDE DEF T
  <2>5. \A k \in 0..n : k \in T
    BY <2>3, <2>4, RunInduction
  <2>6. n \in T /\ g[n] = confirmed'[c] /\ caughtUp'[c] = Caught(c, m)
    BY <1>5, <2>1, <2>2, <2>5 DEF Run, Syncs
  <2> QED BY <2>6 DEF T
<1> QED BY <1>2, <1>3, <1>4, <1>5
        DEF ClientMoves, Retreats, Commits, Dispatches, Ignores, BaseSame

(* A move of a replica keeps what is known of its bases and of what comes  *)
(* to them.                                                                *)
LEMMA ArrivalsMoves ==
  ASSUME NEW c \in Client, Known(c), LogOK, Ordered(c), Answers(c), Arrivals(c), flushed \in Nat,
         Watched[c] \subseteq Doc, ServerSame, ClientMoves(c)
  PROVE  Arrivals(c)'
<1>1. UpsertsTrue(c) /\ OwnReached(c)
  BY DEF Arrivals
<1> QED BY <1>1, ForeignArriveMoves, UpsertsTrueMoves, BaseTrueMoves, OwnReachedMoves DEF Arrivals

(* The log as it was stays, whatever is added to it.                        *)
DocsKept == \A x : \A s \in 0..HeadSeq : DocAt(x, s)' = DocAt(x, s)

(* So does a step of others that adds no row of this client.               *)
LEMMA ArrivalsApart ==
  ASSUME NEW d \in Client, Known(d), Arrivals(d), Apart(d), RowsSame(d), DocsKept,
         flushed \in 0..HeadSeq, flushed' = flushed
  PROVE  Arrivals(d)'
<1>1. /\ toClient'[d] = toClient[d] /\ confirmed'[d] = confirmed[d]
      /\ pending'[d] = pending[d] /\ fate'[d] = fate[d] /\ caughtUp'[d] = caughtUp[d]
  BY DEF Apart, LinkSame, BaseSame
<1>2. /\ Places(d)' = Places(d) /\ Locals(d)' = Locals(d)
      /\ \A l : St(d, l)' = St(d, l) /\ \A i : IsSync(d, i)' <=> IsSync(d, i)
  BY <1>1 DEF Places, Locals, St, IsSync
<1>3. /\ \A s : Own(s, d) => Own(s, d)' /\ Local(s)' = Local(s) /\ log'[s] = log[s]
      /\ \A s : Own(s, d)' => Own(s, d)
      /\ HeadSeq \in Nat /\ HeadSeq' \in Nat /\ HeadSeq <= HeadSeq'
      /\ \A s \in 1..HeadSeq : log'[s] = log[s]
  BY DEF RowsSame, Own, Local
<1>4. \A l, i : Unmarked(d, i, l)' <=> Unmarked(d, i, l)
  BY <1>1, LinkSameMarks
<1>5. \A l, g : Decided(d, l, g)' => Decided(d, l, g)
  BY <1>1, <1>2, <1>3 DEF Decided, Refused
<1>6. ForeignArrive(d)'
  <2> SUFFICES ASSUME NEW x \in Watched[d], NEW t, Foreign(t, d, x)' PROVE Arrives(d, x, t)'
    BY DEF ForeignArrive
  <2>1. t \in 1..HeadSeq'
    BY DEF Foreign
  <2>2. CASE t \in 1..HeadSeq
    <3>1. Foreign(t, d, x)
      BY <1>3, <2>2 DEF Foreign, Wrote
    <3>2. Arrives(d, x, t)
      BY <3>1 DEF Arrivals, ForeignArrive
    <3>3. ASSUME NEW i \in Places(d), Covers(d, i, x, t), InTime(d, i, t)
          PROVE  Covers(d, i, x, t)' /\ InTime(d, i, t)'
      <4>1. Covers(d, i, x, t)'
        BY <1>1, <1>2, <3>3 DEF Covers
      <4>2. InTime(d, i, t)'
        BY <1>4, <1>5, <3>3 DEF InTime
      <4> QED BY <4>1, <4>2
    <3> QED BY <1>1, <1>2, <3>2, <3>3 DEF Arrives
  <2>3. CASE ~(t \in 1..HeadSeq)
    BY <1>3, <2>1, <2>3 DEF Arrives
  <2> QED BY <2>2, <2>3
<1>7. UpsertsTrue(d)'
  <2> SUFFICES ASSUME NEW i \in Places(d), IsSync(d, i), NEW u \in toClient[d][i].upserts
               PROVE  /\ UpsertTrue(d, i, u)'
                      /\ \A w \in toClient[d][i].upserts : w.doc = u.doc => w.seq = u.seq
    BY <1>1, <1>2 DEF UpsertsTrue
  <2>1. /\ UpsertTrue(d, i, u)
        /\ \A w \in toClient[d][i].upserts : w.doc = u.doc => w.seq = u.seq
    BY DEF Arrivals, UpsertsTrue
  <2>2. u.seq \in 0..HeadSeq' /\ DocAt(u.doc, u.seq)' = DocAt(u.doc, u.seq)
    BY <1>3, <2>1 DEF UpsertTrue, DocsKept
  <2>3. ASSUME NEW s, Own(s, d)', s <= u.seq, Unmarked(d, i, Local(s))'
        PROVE  Marks(d, i, Local(s))'
    <3>1. PICK l : l = Local(s) /\ l = Local(s)' /\ Own(s, d)
      BY <1>3, <2>3
    <3>2. Unmarked(d, i, l)'
      BY <2>3, <3>1
    <3>3. Marks(d, i, l)
      BY <1>4, <2>1, <2>3, <3>1, <3>2 DEF UpsertTrue
    <3>4. Marks(d, i, l)'
      BY <1>1, <1>2, <3>3 DEF Marks
    <3> QED BY <3>1, <3>4
  <2>4. UpsertTrue(d, i, u)'
    BY <2>1, <2>2, <2>3 DEF UpsertTrue
  <2> QED BY <2>1, <2>4
<1>8. BaseTrue(d)'
  <2> SUFFICES ASSUME NEW x \in Watched[d]
               PROVE  /\ TrueAt(d, x, confirmed[d][x])'
                      /\ \A s : Own(s, d)' /\ s <= confirmed'[d][x].seq =>
                           Local(s)' <= caughtUp'[d]
    BY DEF BaseTrue
  <2>1. PICK b : b = confirmed[d][x] /\ b = confirmed'[d][x]
    BY <1>1
  <2>2. TrueAt(d, x, b) /\ \A s : Own(s, d) /\ s <= b.seq => Local(s) <= caughtUp[d]
    BY <2>1 DEF Arrivals, BaseTrue
  <2>3. TrueAt(d, x, b)'
    BY <1>3, <2>2 DEF TrueAt, DocsKept
  <2> QED BY <1>1, <1>3, <2>1, <2>2, <2>3
<1>9. OwnReached(d)'
  <2> SUFFICES ASSUME NEW s, Own(s, d)'
               PROVE  \/ (St(d, Local(s)) # "gone")'
                      \/ confirmed'[d][log'[s].commit.op.doc].seq >= s
    BY DEF OwnReached
  <2>1. PICK l : l = Local(s) /\ l = Local(s)' /\ Own(s, d) /\ log'[s] = log[s]
    BY <1>3
  <2>2. St(d, l) # "gone" \/ confirmed[d][log[s].commit.op.doc].seq >= s
    BY <2>1 DEF Arrivals, OwnReached
  <2>3. St(d, l)' # "gone" \/ confirmed'[d][log'[s].commit.op.doc].seq >= s
    BY <1>1, <1>2, <2>1, <2>2
  <2> QED BY <2>1, <2>3
<1> QED BY <1>6, <1>7, <1>8, <1>9 DEF Arrivals

(* So does a verdict: the row it adds is in the window, and its layer      *)
(* stands.                                                                 *)
LEMMA ArrivalsVerdict ==
  ASSUME NEW c \in Client, Known(c), Ordered(c), Arrivals(c), DocsKept,
         flushed \in 0..HeadSeq, NEW h, NEW v, Verdict(c, h, v),
         v.type = "accept" => Resolved(c, h)
  PROVE  Arrivals(c)'
<1>1. /\ toClient'[c] = Append(toClient[c], v) /\ v.localSeq = h.localSeq /\ h \in Sent(c)
      /\ v.type # "sync" /\ confirmed' = confirmed /\ flushed' = flushed
      /\ pending' = pending /\ caughtUp' = caughtUp /\ fate' = fate
  BY DEF Verdict, Handles
<1>2. /\ HeadSeq \in Nat /\ HeadSeq' \in Nat /\ HeadSeq <= HeadSeq'
      /\ \A s \in 1..HeadSeq : log'[s] = log[s] /\ s \in 1..HeadSeq'
      /\ \A s \in 1..HeadSeq' : s \in 1..HeadSeq \/ (/\ s = HeadSeq + 1 /\ log'[s].client = c
                                                      /\ log'[s].commit = h)
  BY DEF Verdict, Gains
<1>3. PICK n : n = Len(toClient[c]) + 1
  OBVIOUS
<1>4. /\ Places(c)' = Places(c) \cup {n} /\ toClient'[c][n] = v
      /\ \A i \in Places(c) : toClient'[c][i] = toClient[c][i] /\ i \in Places(c)'
  BY <1>1, <1>3, AppendPlaces DEF Known
<1>5. \A l : \A i \in Places(c) : Unmarked(c, i, l)' <=> Unmarked(c, i, l)
  BY <1>1, AppendMarks DEF Known
<1>6. /\ \A i \in Places(c) : IsSync(c, i)' <=> IsSync(c, i)
      /\ \A i \in Places(c)' : IsSync(c, i)' => i \in Places(c)
      /\ Locals(c)' = Locals(c) /\ \A l : St(c, l)' = St(c, l)
  BY <1>1, <1>4 DEF IsSync, Locals, St
<1>7. /\ \A s : Own(s, c) => Own(s, c)' /\ Local(s)' = Local(s) /\ log'[s] = log[s]
      /\ \A s : Own(s, c)' => \/ Own(s, c)
                              \/ s = HeadSeq + 1 /\ log'[s].commit = h
  BY <1>2 DEF Own, Local
<1>8. ForeignArrive(c)'
  <2> SUFFICES ASSUME NEW x \in Watched[c], NEW t, Foreign(t, c, x)' PROVE Arrives(c, x, t)'
    BY DEF ForeignArrive
  <2>1. Foreign(t, c, x)
    BY <1>2 DEF Foreign, Wrote
  <2>2. Arrives(c, x, t)
    BY <2>1 DEF Arrivals, ForeignArrive
  <2>3. ASSUME NEW i \in Places(c), Covers(c, i, x, t), InTime(c, i, t)
        PROVE  Covers(c, i, x, t)' /\ InTime(c, i, t)'
    <3>1. Covers(c, i, x, t)'
      BY <1>4, <1>6, <2>3 DEF Covers
    <3>2. InTime(c, i, t)'
      <4> SUFFICES ASSUME NEW l, NEW g, Decided(c, l, g)', t <= g PROVE Unmarked(c, i, l)'
        BY DEF InTime
      <4>1. CASE Decided(c, l, g)
        BY <1>5, <2>3, <4>1 DEF InTime
      <4>2. CASE l = h.localSeq
        <5>1. Unheard(c, l)
          BY <1>1, <4>2 DEF Ordered, SentLast, Behind
        <5> QED BY <1>5, <5>1, UnheardUnmarked
      <4> QED BY <4>1, <4>2, VerdictDecides
    <3> QED BY <3>1, <3>2
  <2> QED BY <1>1, <1>4, <2>2, <2>3 DEF Arrives
<1>9. UpsertsTrue(c)'
  <2> SUFFICES ASSUME NEW i \in Places(c), IsSync(c, i), NEW u \in toClient[c][i].upserts
               PROVE  /\ UpsertTrue(c, i, u)'
                      /\ \A w \in toClient[c][i].upserts : w.doc = u.doc => w.seq = u.seq
    BY <1>4, <1>6 DEF UpsertsTrue
  <2>1. /\ UpsertTrue(c, i, u)
        /\ \A w \in toClient[c][i].upserts : w.doc = u.doc => w.seq = u.seq
    BY DEF Arrivals, UpsertsTrue
  <2>2. /\ u.seq \in 0..HeadSeq /\ u.seq \in 0..HeadSeq'
        /\ DocAt(u.doc, u.seq)' = DocAt(u.doc, u.seq)
    BY <1>2, <2>1 DEF UpsertTrue, DocsKept
  <2>3. ASSUME NEW s, Own(s, c)', s <= u.seq, Unmarked(c, i, Local(s))'
        PROVE  Marks(c, i, Local(s))'
    <3>1. Own(s, c)
      BY <1>2, <1>7, <2>2, <2>3
    <3>2. PICK l : l = Local(s) /\ l = Local(s)'
      BY <1>7, <3>1
    <3>3. Unmarked(c, i, l)'
      BY <2>3, <3>2
    <3>4. Marks(c, i, l)
      BY <1>5, <2>1, <2>3, <3>1, <3>2, <3>3 DEF UpsertTrue
    <3>5. Marks(c, i, l)'
      BY <1>4, <1>6, <3>4 DEF Marks
    <3> QED BY <3>2, <3>5
  <2>4. UpsertTrue(c, i, u)'
    BY <2>1, <2>2, <2>3 DEF UpsertTrue
  <2> QED BY <2>1, <2>4
<1>10. BaseTrue(c)'
  <2> SUFFICES ASSUME NEW x \in Watched[c]
               PROVE  /\ TrueAt(c, x, confirmed[c][x])'
                      /\ \A s : Own(s, c)' /\ s <= confirmed'[c][x].seq =>
                           Local(s)' <= caughtUp'[c]
    BY DEF BaseTrue
  <2>1. PICK b : b = confirmed[c][x] /\ b = confirmed'[c][x]
    BY <1>1
  <2>2. TrueAt(c, x, b) /\ \A s : Own(s, c) /\ s <= b.seq => Local(s) <= caughtUp[c]
    BY <2>1 DEF Arrivals, BaseTrue
  <2>3. TrueAt(c, x, b)'
    BY <1>2, <2>2 DEF TrueAt, DocsKept
  <2>4. \A s : Own(s, c)' /\ s <= b.seq => Own(s, c)
    BY <1>2, <1>7, <2>2 DEF TrueAt
  <2> QED BY <1>1, <1>7, <2>1, <2>2, <2>3, <2>4
<1>11. OwnReached(c)'
  <2> SUFFICES ASSUME NEW s, Own(s, c)'
               PROVE  \/ (St(c, Local(s)) # "gone")'
                      \/ confirmed'[c][log'[s].commit.op.doc].seq >= s
    BY DEF OwnReached
  <2>1. CASE Own(s, c)
    <3>1. PICK l : l = Local(s) /\ l = Local(s)' /\ log'[s] = log[s]
      BY <1>7, <2>1
    <3>2. St(c, l) # "gone" \/ confirmed[c][log[s].commit.op.doc].seq >= s
      BY <2>1, <3>1 DEF Arrivals, OwnReached
    <3>3. St(c, l)' # "gone" \/ confirmed'[c][log'[s].commit.op.doc].seq >= s
      BY <1>1, <1>6, <3>1, <3>2
    <3> QED BY <3>1, <3>3
  <2>2. CASE s = HeadSeq + 1 /\ log'[s].commit = h
    <3>1. HeadSeq' # HeadSeq
      BY <1>2, <2>2 DEF Own
    <3>2. Resolved(c, h)
      BY <3>1 DEF Verdict
    <3>3. St(c, h.localSeq) # "gone"
      BY <1>1, <3>2, AcceptedStands
    <3>4. PICK l : l = h.localSeq /\ l = Local(s)'
      BY <2>2 DEF Local
    <3>5. St(c, l)' # "gone"
      BY <1>6, <3>3, <3>4
    <3> QED BY <3>4, <3>5
  <2> QED BY <1>7, <2>1, <2>2
<1> QED BY <1>8, <1>9, <1>10, <1>11 DEF Arrivals

(* So does a flush: what its window holds of others is in its frame, and   *)
(* what it holds back is the replica's own.                                *)
LEMMA ArrivalsFlush ==
  ASSUME NEW c \in Client, Known(c), LogOK, WindowOK, Answers(c), Arrivals(c),
         Watched[c] \subseteq Doc, None \notin Doc,
         flushed \in 0..HeadSeq, Flushes(c), log' = log, flushed' = HeadSeq
  PROVE  Arrivals(c)'
<1>1. /\ pending'[c] = pending[c] /\ fate'[c] = fate[c]
      /\ caughtUp'[c] = caughtUp[c] /\ confirmed'[c] = confirmed[c]
  BY DEF Flushes, BaseSame
<1>2. /\ Locals(c)' = Locals(c) /\ HeadSeq' = HeadSeq /\ HeadSeq \in Nat
      /\ \A l : St(c, l)' = St(c, l)
      /\ \A s : Own(s, c)' = Own(s, c) /\ Local(s)' = Local(s)
      /\ \A d, s : DocAt(d, s)' = DocAt(d, s)
      /\ \A d, t : Foreign(t, c, d)' = Foreign(t, c, d)
  BY <1>1 DEF Locals, St, HeadSeq, Own, Local, DocAt, Foreign, Wrote, Known
<1>3. /\ \A i \in Places(c) : /\ i \in Places(c)' /\ toClient'[c][i] = toClient[c][i]
                              /\ IsSync(c, i)' <=> IsSync(c, i)
                              /\ \A l : Unmarked(c, i, l)' <=> Unmarked(c, i, l)
  BY FlushPlaces DEF IsSync
<1>4. \A l, g : Decided(c, l, g)' => Decided(c, l, g)
  <2>1. \A i \in Places(c)' : i \in Places(c) \/ toClient'[c][i].type = "sync"
    <3>1. Frame(c).type = "sync"
      BY DEF Frame
    <3>2. CASE Places(c)' = Places(c)
      BY <3>2
    <3>3. ASSUME NEW n, Places(c)' = Places(c) \cup {n}, toClient'[c][n] = Frame(c)
          PROVE  \A i \in Places(c)' : i \in Places(c) \/ toClient'[c][i].type = "sync"
      BY <3>1, <3>3
    <3> QED BY <3>2, <3>3, FlushPlaces
  <2> QED BY <1>1, <1>2, <1>3, <2>1 DEF Decided, Refused
<1>5. ForeignArrive(c)'
  <2> SUFFICES ASSUME NEW x \in Watched[c], NEW t, Foreign(t, c, x) PROVE Arrives(c, x, t)'
    BY <1>2 DEF ForeignArrive
  <2>1. t \in 1..HeadSeq /\ log[t].client # c /\ Wrote(t, x) /\ x \in Doc
    BY DEF Foreign
  <2>2. ASSUME NEW i \in Places(c), Covers(c, i, x, t), InTime(c, i, t)
        PROVE  Arrives(c, x, t)'
    <3>1. Covers(c, i, x, t)'
      BY <1>3, <2>2 DEF Covers
    <3>2. InTime(c, i, t)'
      BY <1>3, <1>4, <2>2 DEF InTime
    <3> QED BY <1>3, <3>1, <3>2 DEF Arrives
  <2>3. CASE t > flushed
    <3>1. x \in dirty /\ ~Held(c, x)
      BY <2>1, <2>3 DEF WindowOK, Held
    <3>2. DocSeq(x) \in 0..HeadSeq /\ t <= DocSeq(x)
      BY <2>1, DocSeqIn DEF Known
    <3>3. PICK u : u = [doc |-> x, seq |-> DocSeq(x), value |-> Stored(x)]
      OBVIOUS
    <3>4. u \in Upserts(c)
      <4>1. DocSeq(x) > flushed
        BY <2>1, <2>3, <3>2
      <4> QED BY <3>1, <3>3, <4>1 DEF Upserts
    <3>5. PICK n : /\ n \in Places(c)' /\ toClient'[c][n] = Frame(c)
                   /\ \A l : Unmarked(c, n, l)' <=> Unheard(c, l)
      <4>1. Upserts(c) # {}
        BY <3>4
      <4> QED BY <4>1, FlushPlaces
    <3>6. Covers(c, n, x, t)'
      <4>1. u \in toClient'[c][n].upserts /\ toClient'[c][n].type = "sync"
        BY <3>4, <3>5 DEF Frame
      <4>2. u.doc = x /\ u.seq >= t
        BY <2>1, <3>2, <3>3
      <4> QED BY <4>1, <4>2 DEF Covers, IsSync
    <3>7. InTime(c, n, t)'
      <4> SUFFICES ASSUME NEW l, NEW g, Decided(c, l, g)', t <= g PROVE Unmarked(c, n, l)'
        BY DEF InTime
      <4>1. Decided(c, l, g)
        BY <1>4
      <4>2. g \in Int
        BY <4>1, DecidedIn DEF Answers
      <4>3. Unheard(c, l)
        BY <2>1, <2>3, <4>1, <4>2 DEF Answers, MarksFlushed
      <4> QED BY <3>5, <4>3
    <3> QED BY <3>5, <3>6, <3>7 DEF Arrives
  <2>4. CASE t <= confirmed[c][x].seq
    BY <1>1, <2>4 DEF Arrives
  <2> QED BY <2>2, <2>3, <2>4 DEF Arrivals, ForeignArrive, Arrives
<1>6. UpsertsTrue(c)'
  <2> SUFFICES ASSUME NEW i \in Places(c)', IsSync(c, i)', NEW u \in toClient'[c][i].upserts
               PROVE  /\ UpsertTrue(c, i, u)'
                      /\ \A w \in toClient'[c][i].upserts : w.doc = u.doc => w.seq = u.seq
    BY DEF UpsertsTrue
  <2>1. CASE i \in Places(c)
    <3>1. /\ UpsertTrue(c, i, u)
          /\ \A w \in toClient'[c][i].upserts : w.doc = u.doc => w.seq = u.seq
      BY <1>3, <2>1 DEF Arrivals, UpsertsTrue
    <3>2. \A l : (Unmarked(c, i, l)' <=> Unmarked(c, i, l)) /\ (Marks(c, i, l)' <=> Marks(c, i, l))
      BY <1>3, <2>1 DEF Marks
    <3>3. ASSUME NEW s, Own(s, c)', s <= u.seq, Unmarked(c, i, Local(s))'
          PROVE  Marks(c, i, Local(s))'
      <4>1. PICK l : l = Local(s) /\ l = Local(s)' /\ Own(s, c)
        BY <1>2, <3>3
      <4>2. Unmarked(c, i, l)'
        BY <3>3, <4>1
      <4>3. Marks(c, i, l)'
        BY <3>1, <3>2, <3>3, <4>1, <4>2 DEF UpsertTrue
      <4> QED BY <4>1, <4>3
    <3>4. UpsertTrue(c, i, u)'
      BY <1>2, <3>1, <3>3 DEF UpsertTrue
    <3> QED BY <3>1, <3>4
  <2>2. CASE ~(i \in Places(c))
    <3>1. /\ toClient'[c][i] = Frame(c) /\ \A l : Unmarked(c, i, l)' <=> Unheard(c, l)
      BY <2>2, FlushPlaces
    <3>2. u \in Upserts(c)
      BY <3>1 DEF Frame
    <3>3. PICK x \in Watched[c] : u = [doc |-> x, seq |-> DocSeq(x), value |-> Stored(x)]
      BY <3>2 DEF Upserts
    <3>4. u.doc = x /\ u.seq = DocSeq(x) /\ u.value = Stored(x) /\ x \in Doc
      BY <3>3
    <3>5. \A w \in toClient'[c][i].upserts : w.doc = u.doc => w.seq = u.seq
      BY <3>1, <3>4 DEF Frame, Upserts
    <3>6. /\ DocSeq(x) \in 0..HeadSeq
          /\ \A t \in 1..HeadSeq : Wrote(t, x) => t <= DocSeq(x)
      BY DocSeqIn DEF Known
    <3>7. DocAt(x, HeadSeq) = DocAt(x, DocSeq(x))
      <4>1. PICK a \in 0..HeadSeq : a = DocSeq(x)
        BY <3>6
      <4>2. \A t : a < t /\ t <= HeadSeq /\ t \in 1..HeadSeq => ~Wrote(t, x)
        BY <3>6, <4>1
      <4>3. HeadSeq \in 0..HeadSeq /\ a <= HeadSeq
        BY <1>2
      <4>4. DocAt(x, HeadSeq) = DocAt(x, a)
        BY <1>2, <3>4, <4>2, <4>3, QuietInterval
      <4> QED BY <4>1, <4>4
    <3>8. ASSUME NEW s, Own(s, c)', s <= u.seq, Unmarked(c, i, Local(s))'
          PROVE  Marks(c, i, Local(s))'
      <4>1. PICK l : l = Local(s) /\ l = Local(s)' /\ Own(s, c)
        BY <1>2, <3>8
      <4>2. Unmarked(c, i, l)'
        BY <3>8, <4>1
      <4>3. Unheard(c, l)
        BY <3>1, <4>2
      <4>4. Parkable(c)
        BY DEF Parkable
      <4>5. owed[c] >= l
        BY <4>1, <4>3, <4>4 DEF Answers, RowsMarked, Own
      <4>6. Marks(c, i, l)'
        BY <3>1, <4>5 DEF Marks, IsSync, Frame
      <4> QED BY <4>1, <4>6
    <3>9. UpsertTrue(c, i, u)'
      BY <1>2, <3>4, <3>6, <3>7, <3>8 DEF UpsertTrue, Stored
    <3> QED BY <3>5, <3>9
  <2> QED BY <2>1, <2>2
<1>7. BaseTrue(c)'
  <2> SUFFICES ASSUME NEW x \in Watched[c]
               PROVE  /\ TrueAt(c, x, confirmed[c][x])'
                      /\ \A s : Own(s, c)' /\ s <= confirmed'[c][x].seq =>
                           Local(s)' <= caughtUp'[c]
    BY DEF BaseTrue
  <2>1. PICK b : b = confirmed[c][x] /\ b = confirmed'[c][x]
    BY <1>1
  <2>2. TrueAt(c, x, b) /\ \A s : Own(s, c) /\ s <= b.seq => Local(s) <= caughtUp[c]
    BY <2>1 DEF Arrivals, BaseTrue
  <2>3. TrueAt(c, x, b)'
    BY <1>2, <2>2 DEF TrueAt
  <2> QED BY <1>1, <1>2, <2>1, <2>2, <2>3
<1>8. OwnReached(c)'
  <2> SUFFICES ASSUME NEW s, Own(s, c)'
               PROVE  \/ (St(c, Local(s)) # "gone")'
                      \/ confirmed'[c][log'[s].commit.op.doc].seq >= s
    BY DEF OwnReached
  <2>1. PICK l : l = Local(s) /\ l = Local(s)' /\ Own(s, c) /\ log'[s] = log[s]
    BY <1>2
  <2>2. St(c, l) # "gone" \/ confirmed[c][log[s].commit.op.doc].seq >= s
    BY <2>1 DEF Arrivals, OwnReached
  <2>3. St(c, l)' # "gone" \/ confirmed'[c][log'[s].commit.op.doc].seq >= s
    BY <1>1, <1>2, <2>1, <2>2
  <2> QED BY <2>1, <2>3
<1> QED BY <1>5, <1>6, <1>7, <1>8 DEF Arrivals

CoherentInv ==
  TypedInv /\ \A c \in Client : Ordered(c) /\ Answers(c) /\ Arrivals(c)

(* What the invariant says, part by part.                                  *)
LEMMA CoherentKnown ==
  ASSUME CoherentInv
  PROVE  /\ Shapes /\ Domains /\ LogOK /\ WindowOK /\ HeadSeq \in Nat
         /\ flushed \in 0..HeadSeq /\ flushed \in Nat /\ None \notin Doc
         /\ \A c \in Client : /\ Known(c) /\ Tracked(c) /\ Ordered(c) /\ Answers(c) /\ Arrivals(c)
                              /\ Watched[c] \subseteq Doc
<1>1. Shapes /\ Domains /\ LogOK /\ WindowOK /\ flushed \in 0..HeadSeq
  BY DEF CoherentInv, TypedInv, Typed, FatesInv
<1>2. HeadSeq \in Nat
  BY <1>1, AnySeq DEF Shapes, IsSeq, HeadSeq
<1>3. \A c \in Client : Known(c) /\ Tracked(c)
  BY <1>1, <1>2 DEF CoherentInv, TypedInv, Typed, FatesInv, Known
<1> QED BY <1>1, <1>2, <1>3, ConstantsAssumption DEF CoherentInv

(* The invariant holds at the start.                                       *)
LEMMA InitCoherent == Init => CoherentInv
<1> SUFFICES ASSUME Init PROVE CoherentInv
  OBVIOUS
<1>1. TypedInv
  BY InitTyped
<1>2. ASSUME NEW c \in Client PROVE Ordered(c) /\ Answers(c) /\ Arrivals(c)
  <2>1. /\ HeadSeq = 0 /\ Len(fate[c]) = 0 /\ Locals(c) = {} /\ Sent(c) = {}
        /\ Places(c) = {} /\ toServer[c] = <<>> /\ Len(toServer[c]) = 0
        /\ owed[c] = 0 /\ caughtUp[c] = 0 /\ flushed = 0
    BY DEF Init, HeadSeq, Locals, Sent, Places
  <2>2. \A s : ~Own(s, c) /\ \A d : ~Foreign(s, c, d)
    BY <2>1 DEF Own, Foreign
  <2>3. \A l, g : ~Decided(c, l, g) /\ ~Refused(c, l, g)
    BY <2>1, <2>2 DEF Decided, Refused
  <2>4. 1..HeadSeq = {} /\ 1..Len(toServer[c]) = {}
    BY <2>1
  <2>5. Ordered(c)
    <3>1. NextLast(c)
      BY <2>1, <2>4 DEF NextLast, Behind, Unheard
    <3> QED BY <2>1, <2>4, <3>1
            DEF Ordered, RowsOrdered, SentOrdered, SentLast, WaitLast
  <2>6. Answers(c)
    BY <2>1, <2>3, <2>4 DEF Answers, VerdictSeqs, ParkedSeqs, Awaiting, VerdictFirst,
                            ParkedWaits, RefusedAfter, RowsMarked, MarksFlushed
  <2>7. BaseTrue(c)
    <3> SUFFICES ASSUME NEW d \in Watched[c] PROVE TrueAt(c, d, confirmed[c][d])
      BY <2>2 DEF BaseTrue
    <3>1. confirmed[c][d] = [seq |-> 0, value |-> Zero]
      BY ConstantsAssumption DEF Init
    <3> QED BY <2>1, <3>1 DEF TrueAt, DocAt
  <2>8. Arrivals(c)
    BY <2>1, <2>2, <2>7 DEF Arrivals, ForeignArrive, UpsertsTrue, OwnReached
  <2> QED BY <2>5, <2>6, <2>8
<1> QED BY <1>1, <1>2 DEF CoherentInv

(* Steps apart from a client that leave the log alone.                      *)
LEMMA QuietLog ==
  ASSUME HeadSeq \in Nat, log' = log, NEW d
  PROVE  RowsSame(d) /\ DocsKept
<1>1. HeadSeq' = HeadSeq /\ \A x, s : DocAt(x, s)' = DocAt(x, s)
  BY DEF HeadSeq, DocAt
<1> QED BY <1>1 DEF RowsSame, DocsKept

(* Every step keeps the invariant: client steps by their moves, transact   *)
(* by its verdict, a flush by its frames.                                  *)
LEMMA NextCoherent == CoherentInv /\ [Next]_vars => CoherentInv'
<1> SUFFICES ASSUME CoherentInv, [Next]_vars PROVE CoherentInv'
  OBVIOUS
<1>1. TypedInv'
  BY NextTyped DEF CoherentInv
<1>2. /\ Shapes /\ Domains /\ LogOK /\ WindowOK /\ HeadSeq \in Nat
      /\ flushed \in 0..HeadSeq /\ flushed \in Nat /\ None \notin Doc
      /\ \A c \in Client : /\ Known(c) /\ Tracked(c) /\ Ordered(c) /\ Answers(c) /\ Arrivals(c)
                           /\ Watched[c] \subseteq Doc
  BY CoherentKnown
<1>3. ASSUME NEW d \in Client, Apart(d), RowsSame(d), DocsKept, flushed' = flushed
      PROVE  Ordered(d)' /\ Answers(d)' /\ Arrivals(d)'
  BY <1>2, <1>3, ApartOrdered, AnswersApart, ArrivalsApart
<1>4. ASSUME NEW c \in Client, StepOf(c) PROVE CoherentInv'
  <2>1. /\ ClientMoves(c) /\ ServerSame
        /\ \A d \in Client \ {c} : Apart(d)
    BY <1>2, <1>4, StepEffect
  <2>2. Ordered(c)' /\ Answers(c)' /\ Arrivals(c)'
    BY <1>2, <2>1, OrderedMoves, AnswersMoves, ArrivalsMoves
  <2>3. \A d \in Client \ {c} : Ordered(d)' /\ Answers(d)' /\ Arrivals(d)'
    BY <1>2, <1>3, <2>1, QuietLog DEF ServerSame
  <2> QED BY <1>1, <2>2, <2>3 DEF CoherentInv
<1>5. ASSUME NEW c \in Client, Transact(c) PROVE CoherentInv'
  <2>1. PICK h, v : /\ Handles(c, h, v)
                    /\ Refuses(h, v) \/ \E row : Accepts(c, h, v, row)
    BY <1>2, <1>5, TransactEffect DEF Domains
  <2>2. Verdict(c, h, v) /\ Gains(c, h) /\ v.type # "sync"
    BY <1>2, <2>1, AnswerVerdict DEF Verdict
  <2>3. v.type = "accept" => Resolved(c, h)
    BY <2>1 DEF Refuses, Accepts
  <2>4. DocsKept
    <3>1. CASE Refuses(h, v)
      BY <1>2, <3>1, QuietLog DEF Refuses
    <3>2. ASSUME NEW row, Accepts(c, h, v, row) PROVE DocsKept
      BY <1>2, <3>2, LogGrows DEF Accepts, DocsKept
    <3> QED BY <2>1, <3>1, <3>2
  <2>5. Ordered(c)' /\ Answers(c)' /\ Arrivals(c)'
    BY <1>2, <2>1, <2>2, <2>3, <2>4, OrderedAnswer, AnswersVerdict, ArrivalsVerdict
  <2>6. ASSUME NEW d \in Client \ {c} PROVE Ordered(d)' /\ Answers(d)' /\ Arrivals(d)'
    <3>1. Apart(d) /\ flushed' = flushed
      BY <2>1, <2>6 DEF Handles, Apart, LinkSame, BaseSame
    <3>2. RowsSame(d)
      BY <2>2, <2>6 DEF Gains, RowsSame
    <3> QED BY <1>3, <2>4, <3>1, <3>2
  <2> QED BY <1>1, <2>5, <2>6 DEF CoherentInv
<1>6. CASE Flush
  <2>1. log' = log /\ flushed' = HeadSeq /\ \A d \in Client : Flushes(d)
    BY <1>2, <1>6, FlushEffect
  <2>2. \A d \in Client : Ordered(d)' /\ Answers(d)' /\ Arrivals(d)'
    BY <1>2, <2>1, OrderedFlush, AnswersFlush, ArrivalsFlush
  <2> QED BY <1>1, <2>2 DEF CoherentInv
<1>7. CASE UNCHANGED vars
  <2>1. log' = log /\ flushed' = flushed /\ \A d \in Client : Apart(d)
    BY <1>7 DEF vars, serverVars, replicaVars, Apart, LinkSame, BaseSame
  <2> QED BY <1>1, <1>2, <1>3, <2>1, QuietLog DEF CoherentInv
<1> QED BY <1>4, <1>5, <1>6, <1>7 DEF Next, StepOf

(* The base of a watched document is always the document the space held at *)
(* the seq it is recorded under (BaseIsDurable): promotion over a base,    *)
(* echo suppression by origin and the upserts of frames agree, for every   *)
(* view and every transaction.                                             *)
THEOREM BaseAlwaysDurable == Spec => []BaseIsDurable
<1>1. CoherentInv => BaseIsDurable
  BY DEF CoherentInv, Arrivals, BaseTrue, TrueAt, BaseIsDurable
<1> QED BY <1>1, InitCoherent, NextCoherent, PTL DEF Spec

(* An accepted write never leaves the view of its writer (OwnWriteStays):  *)
(* its layer stands until the base of its document is as new as its row,   *)
(* whichever of the marker, the frame and the verdict comes first.         *)
THEOREM OwnWriteAlwaysStays == Spec => []OwnWriteStays
<1>1. CoherentInv => OwnWriteStays
  <2> SUFFICES ASSUME CoherentInv, NEW c \in Client, NEW s \in 1..HeadSeq, log[s].client = c
               PROVE  \/ log[s].commit.localSeq \in Standing(c)
                      \/ confirmed[c][log[s].commit.op.doc].seq >= s
    BY DEF OwnWriteStays
  <2>1. Own(s, c) /\ Known(c) /\ OwnReached(c)
    BY CoherentKnown DEF Own, Arrivals
  <2>2. Local(s) \in Locals(c) /\ DOMAIN pending[c] = Locals(c)
    BY <2>1, LocalsAreNat, LocalsDomain DEF Own, Known
  <2> QED BY <2>1, <2>2 DEF OwnReached, Standing, St, Local
<1> QED BY <1>1, InitCoherent, NextCoherent, PTL DEF Spec

(* A replay is its run, step by step.                                       *)
Replays(h, n, value, entries, counted) ==
  /\ h[0] = value /\ Replay(value, entries, counted) = h[n]
  /\ \A k \in 1..n : h[k] = IF k \in counted THEN Apply(h[k - 1], entries[k].commit.op)
                            ELSE h[k - 1]

(* Every replay over a stack has a run that is its steps.                  *)
LEMMA ReplayHasRun ==
  ASSUME NEW n \in Nat, NEW entries, DOMAIN entries = 1..n, NEW value, NEW counted
  PROVE  \E h : Replays(h, n, value, entries, counted)
<1>1. PICK h : /\ ReplayRun(h, n, value, entries, counted)
               /\ Replay(value, entries, counted) = h[n]
  BY ReplayIsRun
<1>2. h[0] = value
  BY <1>1 DEF ReplayRun
<1>3. \A k \in 1..n : h[k] = IF k \in counted THEN Apply(h[k - 1], entries[k].commit.op)
                             ELSE h[k - 1]
  <2>1. \A k \in 1..n : k \in 0..n /\ k # 0
    OBVIOUS
  <2> QED BY <1>1, <2>1 DEF ReplayRun
<1> QED BY <1>1, <1>2, <1>3 DEF Replays

(* Nothing replayed changes nothing.                                        *)
LEMMA ReplayNothing ==
  ASSUME NEW n \in Nat, NEW entries, DOMAIN entries = 1..n, NEW value
  PROVE  Replay(value, entries, {}) = value
<1>1. PICK h : Replays(h, n, value, entries, {})
  BY ReplayHasRun
<1> DEFINE T == {k \in 0..n : h[k] = value}
<1>2. 0 \in T
  BY <1>1 DEF Replays
<1>3. ASSUME NEW k \in Nat, k < n, k \in T PROVE k + 1 \in T
  <2>1. k + 1 \in 1..n /\ (k + 1) - 1 = k /\ k + 1 \in 0..n
    BY <1>3
  <2>2. h[k + 1] = h[(k + 1) - 1]
    BY <1>1, <2>1 DEF Replays
  <2> QED BY <1>3, <2>1, <2>2
<1> HIDE DEF T
<1>4. \A k \in 0..n : k \in T
  BY <1>2, <1>3, RunInduction
<1>5. h[n] = value
  BY <1>4 DEF T
<1> QED BY <1>1, <1>5 DEF Replays

(* With nothing queued, pending or due, a replica shows what the space     *)
(* holds in every watched document (QuietReplicasAgree).                   *)
THEOREM QuietReplicasAlwaysAgree == Spec => []QuietReplicasAgree
<1>1. CoherentInv => QuietReplicasAgree
  <2> SUFFICES ASSUME CoherentInv, NEW c \in Client, NEW d \in Watched[c], Quiet(c)
               PROVE  View(c, d) = Stored(d)
    BY DEF QuietReplicasAgree
  <2>1. /\ Known(c) /\ LogOK /\ WindowOK /\ Answers(c) /\ Arrivals(c) /\ d \in Doc
        /\ HeadSeq \in Nat /\ flushed \in 0..HeadSeq
    BY CoherentKnown
  <2>2. Standing(c) = {} /\ Places(c) = {} /\ ~scheduled
    BY DEF Quiet, Places
  <2>3. View(c, d) = confirmed[c][d].value
    <3>1. LayersOn(c, d) = {}
      BY <2>2 DEF LayersOn
    <3>2. DOMAIN pending[c] = Locals(c) /\ Len(fate[c]) \in Nat
      BY <2>1, LocalsDomain DEF Known
    <3> QED BY <3>1, <3>2, ReplayNothing DEF View, Locals
  <2>4. PICK a \in 0..HeadSeq : a = confirmed[c][d].seq /\ confirmed[c][d].value = DocAt(d, a)
    BY <2>1 DEF Arrivals, BaseTrue, TrueAt
  <2>5. \A t : a < t /\ t <= HeadSeq /\ t \in 1..HeadSeq => ~Wrote(t, d)
    <3> SUFFICES ASSUME NEW t \in 1..HeadSeq, a < t, Wrote(t, d) PROVE FALSE
      OBVIOUS
    <3>1. CASE log[t].client = c
      <4>1. Own(t, c) /\ log[t].commit.op.doc = d
        BY <3>1 DEF Own, Wrote
      <4>2. St(c, Local(t)) = "gone"
        <5>1. Local(t) \in Locals(c) /\ DOMAIN pending[c] = Locals(c)
          BY <2>1, <4>1, LocalsAreNat, LocalsDomain DEF Own, Known
        <5> QED BY <2>2, <5>1 DEF Standing, St
      <4>3. a >= t
        BY <2>1, <2>4, <4>1, <4>2 DEF Arrivals, OwnReached
      <4> QED BY <4>3
    <3>2. CASE log[t].client # c
      <4>1. Arrives(c, d, t)
        BY <2>1, <3>2 DEF Arrivals, ForeignArrive, Foreign
      <4>2. ~(t > flushed)
        BY <2>1, <2>2 DEF WindowOK
      <4> QED BY <2>2, <2>4, <4>1, <4>2 DEF Arrives
    <3> QED BY <3>1, <3>2
  <2>6. HeadSeq \in 0..HeadSeq /\ a <= HeadSeq
    BY <2>1, <2>4
  <2>7. DocAt(d, HeadSeq) = DocAt(d, a)
    BY <2>1, <2>5, <2>6, QuietInterval
  <2> QED BY <2>3, <2>4, <2>7 DEF Stored
<1> QED BY <1>1, InitCoherent, NextCoherent, PTL DEF Spec

(* A rejection whose repair gate opened is retried over a base at least as *)
(* new as every revision the server had when it refused                    *)
(* (RepairedBaseIsFresh).                                                  *)
THEOREM RepairedBaseAlwaysFresh == Spec => []RepairedBaseIsFresh
<1>1. CoherentInv => RepairedBaseIsFresh
  <2> SUFFICES ASSUME CoherentInv, NEW c \in Client, NEW l \in RejectedLayers(c), NEW d, NEW g,
                      d = pending[c][l].commit.read.doc, g = pending[c][l].gate.seq,
                      pending[c][l].gate.marker > 0, caughtUp[c] >= pending[c][l].gate.marker,
                      d \in Watched[c], NEW s \in 1..g, Wrote(s, d)
               PROVE  confirmed[c][d].seq >= s
    BY DEF RepairedBaseIsFresh, Repaired
  <2>1. /\ Known(c) /\ LogOK /\ Ordered(c) /\ Answers(c) /\ Arrivals(c) /\ d \in Doc
        /\ HeadSeq \in Nat /\ flushed \in 0..HeadSeq
    BY CoherentKnown
  <2>2. St(c, l) = "repairing" /\ l \in Locals(c)
    BY <2>1, LocalsDomain DEF RejectedLayers, WithStatus, St, Known
  <2>3. pending[c][l].gate.marker = l /\ g \in 0..HeadSeq /\ l \in Nat
    BY <2>1, <2>2, LocalsAreNat DEF Known, TypedOf, LayerOK
  <2>4. Refused(c, l, g) /\ Decided(c, l, g)
    BY <2>2, <2>3 DEF Refused, Decided
  <2>5. caughtUp[c] >= l /\ caughtUp[c] \in Nat /\ s \in 1..HeadSeq /\ s <= g
        /\ confirmed[c][d].seq \in Int
    BY SMTT(30), <2>1, <2>3, LocalsAreNat DEF Known, TypedOf, BasesOK
  <2>6. g <= flushed
    BY SMTT(30), <2>1, <2>3, <2>4, <2>5 DEF Answers, MarksFlushed, Unheard
  <2>7. CASE log[s].client # c
    <3>1. Arrives(c, d, s)
      BY <2>1, <2>5, <2>7 DEF Arrivals, ForeignArrive, Foreign
    <3>2. ~(s > flushed)
      BY <2>1, <2>3, <2>5, <2>6
    <3>3. ASSUME NEW i \in Places(c), InTime(c, i, s) PROVE FALSE
      <4>1. Unmarked(c, i, l)
        BY <2>4, <2>5, <3>3 DEF InTime
      <4> QED BY <2>3, <2>5, <4>1 DEF Unmarked
    <3> QED BY <2>5, <3>1, <3>2, <3>3 DEF Arrives
  <2>8. CASE log[s].client = c
    <3>1. PICK j : j = Local(s) /\ Own(s, c)
      BY <2>5, <2>8 DEF Own
    <3>2. j \in Nat /\ j < l
      <4>1. j \in Nat
        BY <2>1, <3>1, OneRow DEF Ordered
      <4>2. Local(s) < l
        BY <2>1, <2>4, <2>5, <2>8 DEF Answers, RefusedAfter
      <4> QED BY <3>1, <4>1, <4>2
    <3>3. St(c, j) # "sent" /\ St(c, j) # "parked"
      <4>1. St(c, j) = "parked" => caughtUp[c] < j
        BY <2>1, <3>1, OwnState
      <4>2. St(c, j) = "sent" => \E i \in Places(c) : Unmarked(c, i, j)
        BY <2>1, <3>1, OwnState
      <4> QED BY <2>3, <2>5, <3>2, <4>1, <4>2 DEF Unmarked
    <3>4. St(c, j) = "gone"
      BY <2>1, <3>1, <3>3, OwnState
    <3> QED BY <2>1, <3>1, <3>4 DEF Arrivals, OwnReached, Wrote
  <2> QED BY <2>7, <2>8
<1> QED BY <1>1, InitCoherent, NextCoherent, PTL DEF Spec

-----------------------------------------------------------------------------
(* An operation touches the fields it names, and each by itself.            *)
LEMMA ApplyField ==
  ASSUME NEW v, DOMAIN v = Field, NEW w, DOMAIN w = Field, NEW f \in Field, v[f] = w[f],
         NEW op, op.kind \in {"set", "put", "add"}
  PROVE  Apply(v, op)[f] = Apply(w, op)[f]
<1>1. CASE op.kind = "set"
  BY <1>1 DEF Apply
<1>2. CASE op.kind = "put"
  <2>1. Apply(v, op) = [v EXCEPT ![op.field] = op.val]
        /\ Apply(w, op) = [w EXCEPT ![op.field] = op.val]
    BY <1>2 DEF Apply
  <2> QED BY <2>1
<1>3. CASE op.kind = "add"
  <2>1. Apply(v, op) = [v EXCEPT ![op.field] = v[op.field] + op.val]
        /\ Apply(w, op) = [w EXCEPT ![op.field] = w[op.field] + op.val]
    BY <1>3 DEF Apply
  <2>2. CASE f = op.field
    BY <2>1, <2>2
  <2>3. CASE f # op.field
    BY <2>1, <2>3
  <2> QED BY <2>2, <2>3
<1> QED BY <1>1, <1>2, <1>3

(* A patch or an increment leaves the other fields as they are.            *)
LEMMA ApplyElsewhere ==
  ASSUME NEW v, DOMAIN v = Field, NEW f \in Field, NEW op, op.kind \in {"put", "add"},
         op.field # f
  PROVE  Apply(v, op)[f] = v[f]
<1>1. CASE op.kind = "put"
  <2>1. Apply(v, op) = [v EXCEPT ![op.field] = op.val]
    BY <1>1 DEF Apply
  <2> QED BY <2>1
<1>2. CASE op.kind = "add"
  <2>1. Apply(v, op) = [v EXCEPT ![op.field] = v[op.field] + op.val]
    BY <1>2 DEF Apply
  <2> QED BY <2>1
<1> QED BY <1>1, <1>2

(* A replay keeps the fields of its document.                               *)
LEMMA RunDomain ==
  ASSUME NEW n \in Nat, NEW entries, NEW value, DOMAIN value = Field, NEW counted, NEW h,
         Replays(h, n, value, entries, counted),
         \A k \in 1..n : k \in counted => entries[k].commit.op.kind \in {"set", "put", "add"}
  PROVE  \A k \in 0..n : DOMAIN h[k] = Field
<1> DEFINE T == {k \in 0..n : DOMAIN h[k] = Field}
<1>1. 0 \in T
  BY DEF Replays
<1>2. ASSUME NEW k \in Nat, k < n, k \in T PROVE k + 1 \in T
  <2>1. k + 1 \in 1..n /\ k + 1 \in 0..n /\ (k + 1) - 1 = k
    BY <1>2
  <2>2. h[k + 1] = IF k + 1 \in counted THEN Apply(h[k], entries[k + 1].commit.op) ELSE h[k]
    BY <2>1 DEF Replays
  <2>3. DOMAIN h[k] = Field
    BY <1>2
  <2>4. CASE k + 1 \in counted
    BY <2>1, <2>2, <2>3, <2>4, ApplyDomain
  <2>5. CASE k + 1 \notin counted
    BY <2>1, <2>2, <2>3, <2>5
  <2> QED BY <2>4, <2>5
<1> HIDE DEF T
<1>3. \A k \in 0..n : k \in T
  BY <1>1, <1>2, RunInduction
<1> QED BY <1>3 DEF T

(* A replay stays as it is between two counted entries.                     *)
LEMMA RunFlat ==
  ASSUME NEW n \in Nat, NEW entries, NEW value, NEW counted, NEW h,
         Replays(h, n, value, entries, counted), NEW a \in 0..n, NEW b \in 0..n, a <= b,
         \A k \in 1..n : a < k /\ k <= b => k \notin counted
  PROVE  h[b] = h[a]
<1> DEFINE T == {i \in Nat : a + i <= b => h[a + i] = h[a]}
<1>1. 0 \in T
  <2>1. a + 0 = a
    OBVIOUS
  <2> QED BY <2>1
<1>2. ASSUME NEW i \in Nat, i \in T PROVE i + 1 \in T
  <2> SUFFICES ASSUME a + (i + 1) <= b PROVE h[a + (i + 1)] = h[a]
    OBVIOUS
  <2>1. PICK k \in 1..n : k = a + (i + 1) /\ k - 1 = a + i /\ a < k /\ k <= b
    OBVIOUS
  <2>2. h[k] = h[k - 1]
    BY <2>1 DEF Replays
  <2>3. h[a + i] = h[a]
    BY <1>2, <2>1
  <2> QED BY <2>1, <2>2, <2>3
<1> HIDE DEF T
<1>3. \A i \in Nat : i \in T
  BY <1>1, <1>2, SetInduction
<1>4. b - a \in Nat /\ a + (b - a) = b
  OBVIOUS
<1>5. b - a \in T
  BY <1>3, <1>4
<1> QED BY <1>4, <1>5 DEF T

(* A stack of layers replayed over a base is the log from that base on, in   *)
(* the fields F, when the layers are rows of the log in their order, and no  *)
(* other row writes those fields.                                           *)
Mirrors(d, F, b, n, E, K, row) ==
  /\ b \in 0..HeadSeq /\ n \in Nat /\ DOMAIN E = 1..n /\ K \subseteq 1..n /\ F \subseteq Field
  /\ \A k \in K : /\ row[k] \in 1..HeadSeq /\ row[k] > b /\ log[row[k]].commit = E[k].commit
                  /\ E[k].commit.op.doc = d
  /\ \A j, k \in K : j < k => row[j] < row[k]
  /\ \A s \in 1..HeadSeq :
       s > b /\ (\A k \in K : row[k] # s) =>
         \A f \in F : DocAt(d, s)[f] = DocAt(d, s - 1)[f]

(* So a replay over the base meets the log at its head, in those fields.   *)
LEMMA ReplayMeetsLog ==
  ASSUME HeadSeq \in Nat, LogOK, NEW d \in Doc, NEW F, NEW b, NEW n, NEW E, NEW K, NEW row,
         Mirrors(d, F, b, n, E, K, row)
  PROVE  \A f \in F : Replay(DocAt(d, b), E, K)[f] = DocAt(d, HeadSeq)[f]
<1>0. /\ b \in 0..HeadSeq /\ n \in Nat /\ DOMAIN E = 1..n /\ K \subseteq 1..n /\ F \subseteq Field
      /\ \A k \in K : /\ row[k] \in 1..HeadSeq /\ row[k] > b /\ log[row[k]].commit = E[k].commit
                      /\ E[k].commit.op.doc = d
      /\ \A j, k \in K : j < k => row[j] < row[k]
  BY DEF Mirrors
<1>1. PICK h : Replays(h, n, DocAt(d, b), E, K)
  BY <1>0, ReplayHasRun
<1>2. \A s \in 0..HeadSeq : DOMAIN DocAt(d, s) = Field
  BY DEF LogOK
<1>3. \A k \in K : E[k].commit.op.kind \in {"set", "put", "add"}
  BY <1>0, WellFormedOp DEF LogOK, RowOK
<1>4. \A k \in 0..n : DOMAIN h[k] = Field
  BY <1>0, <1>1, <1>2, <1>3, RunDomain
<1> DEFINE At(s, k) == \A j \in K : j <= k <=> row[j] <= s
           Same(s) == \A k \in 0..n : At(s, k) => \A f \in F : h[k][f] = DocAt(d, s)[f]
           T == {i \in Nat : b + i <= HeadSeq => Same(b + i)}
<1>5. 0 \in T
  <2>1. ASSUME NEW k \in 0..n, At(b, k) PROVE h[k] = DocAt(d, b)
    <3>1. \A j \in 1..n : 0 < j /\ j <= k => j \notin K
      BY <1>0, <2>1
    <3>2. h[k] = h[0]
      BY <1>0, <1>1, <3>1, RunFlat
    <3> QED BY <1>1, <3>2 DEF Replays
  <2>2. b + 0 = b
    BY <1>0
  <2> QED BY <2>1, <2>2
<1>6. ASSUME NEW i \in Nat, i \in T PROVE i + 1 \in T
  <2> SUFFICES ASSUME b + (i + 1) <= HeadSeq PROVE Same(b + (i + 1))
    OBVIOUS
  <2>1. PICK s \in 1..HeadSeq : s = b + (i + 1) /\ s - 1 = b + i /\ s > b /\ s - 1 \in 0..HeadSeq
    BY <1>0
  <2>2. Same(s - 1)
    BY <1>6, <2>1
  <2> SUFFICES ASSUME NEW k \in 0..n, At(s, k), NEW f \in F
               PROVE  h[k][f] = DocAt(d, s)[f]
    BY <2>1
  <2>3. CASE \A j \in K : row[j] # s
    <3>1. At(s - 1, k)
      <4> SUFFICES ASSUME NEW j \in K PROVE j <= k <=> row[j] <= s - 1
        OBVIOUS
      <4>1. row[j] # s /\ row[j] \in Int /\ (j <= k <=> row[j] <= s)
        BY <1>0, <2>3
      <4> QED BY <4>1
    <3>2. h[k][f] = DocAt(d, s - 1)[f]
      BY <2>2, <3>1
    <3>3. DocAt(d, s)[f] = DocAt(d, s - 1)[f]
      BY <2>1, <2>3 DEF Mirrors
    <3> QED BY <3>2, <3>3
  <2>4. ASSUME NEW j \in K, row[j] = s PROVE h[k][f] = DocAt(d, s)[f]
    <3>1. PICK e \in 0..n : e = j - 1 /\ j \in 1..n /\ j <= k
      BY <1>0, <2>4
    <3>2. h[j] = Apply(h[e], E[j].commit.op)
      BY <1>1, <3>1 DEF Replays
    <3>3. h[k] = h[j]
      <4>1. \A x \in 1..n : j < x /\ x <= k => x \notin K
        <5> SUFFICES ASSUME NEW x \in K, j < x, x <= k PROVE FALSE
          OBVIOUS
        <5>1. row[j] < row[x] /\ row[x] <= s /\ row[x] \in Int
          BY <1>0
        <5> QED BY <2>4, <5>1
      <4>2. j \in 0..n
        BY <3>1
      <4> QED BY <1>0, <1>1, <3>1, <4>1, <4>2, RunFlat
    <3>4. At(s - 1, e)
      <4> SUFFICES ASSUME NEW x \in K PROVE x <= e <=> row[x] <= s - 1
        OBVIOUS
      <4>1. x \in Int /\ j \in Int /\ row[x] \in Int
        BY <1>0
      <4>2. (x < j => row[x] < row[j]) /\ (j < x => row[j] < row[x])
        BY <1>0
      <4> QED BY <2>4, <3>1, <4>1, <4>2
    <3>5. h[e][f] = DocAt(d, s - 1)[f]
      BY <2>2, <3>4
    <3>6. DocAt(d, s) = Apply(DocAt(d, s - 1), E[j].commit.op)
      BY <1>0, <2>4 DEF LogOK, RowOK
    <3>7. Apply(h[e], E[j].commit.op)[f] = Apply(DocAt(d, s - 1), E[j].commit.op)[f]
      BY <1>0, <1>2, <1>3, <1>4, <2>1, <3>5, ApplyField
    <3> QED BY <3>2, <3>3, <3>6, <3>7
  <2> QED BY <2>3, <2>4
<1> HIDE DEF T
<1>7. \A i \in Nat : i \in T
  BY <1>5, <1>6, SetInduction
<1>8. PICK i \in Nat : b + i = HeadSeq
  <2>1. HeadSeq - b \in Nat /\ b + (HeadSeq - b) = HeadSeq
    BY <1>0
  <2> QED BY <2>1
<1>9. Same(HeadSeq)
  <2>1. i \in T /\ b + i <= HeadSeq
    BY <1>7, <1>8
  <2> QED BY <1>8, <2>1 DEF T
<1>10. At(HeadSeq, n) /\ n \in 0..n
  BY <1>0
<1>11. \A f \in F : h[n][f] = DocAt(d, HeadSeq)[f]
  BY <1>9, <1>10
<1> QED BY <1>1, <1>11 DEF Replays

-----------------------------------------------------------------------------
(* What a commit saw is its stack of layers replayed over the base it names, *)
(* with E what the layers were when it was built: a layer that stands still  *)
(* holds that commit, and so does the row of one that was accepted.          *)
ReadsWatched ==
  \A c \in Client : \A tx \in Tx[c] : tx.read.fields # {} => tx.read.doc \in Watched[c]

LayerIs(c, m, k, x) ==
  /\ k \in Locals(c) /\ x.op.doc = m.read.doc
  /\ St(c, k) # "gone" => pending[c][k].commit = x
  /\ \A s : Own(s, c) /\ Local(s) = k => s > m.basis /\ log[s].commit = x

SawThrough(c, m, n, E) ==
  /\ DOMAIN E = 1..n /\ m.layers \subseteq 1..n
  /\ m.saw = Part(Replay(DocAt(m.read.doc, m.basis), E, m.layers), m.read.fields)
  /\ \A k \in m.layers : LayerIs(c, m, k, E[k].commit)

ReadTrue(c, m) ==
  m.read.fields # {} =>
    /\ m.read.doc \in Watched[c] /\ m.basis \in 0..HeadSeq
    /\ \E n \in Nat : \E E : SawThrough(c, m, n, E)

Open(c, l) == St(c, l) \in {"queued", "doomed", "sent"}

Reads(c) == \A l \in Locals(c) : Open(c, l) => ReadTrue(c, pending[c][l].commit)

(* A step that keeps the log as far as it went, the commits of the layers    *)
(* that stand, and adds rows only of what the layers hold.                   *)
Keeps(c) ==
  /\ HeadSeq \in Nat /\ HeadSeq' \in Nat /\ HeadSeq <= HeadSeq' /\ DocsKept
  /\ \A k \in Locals(c) : /\ k \in Locals(c)'
                          /\ St(c, k)' # "gone" => /\ St(c, k) # "gone"
                                                   /\ pending'[c][k].commit = pending[c][k].commit
  /\ \A s : Own(s, c)' =>
       \/ Own(s, c) /\ log'[s] = log[s]
       \/ /\ s > HeadSeq /\ St(c, log'[s].commit.localSeq) # "gone"
          /\ log'[s].commit = pending[c][log'[s].commit.localSeq].commit

(* Such a step keeps what is known of a commit's read.                     *)
LEMMA ReadStays ==
  ASSUME NEW c, NEW m, ReadTrue(c, m), Keeps(c)
  PROVE  ReadTrue(c, m)'
<1> SUFFICES ASSUME m.read.fields # {}
             PROVE  /\ m.read.doc \in Watched[c] /\ m.basis \in 0..HeadSeq'
                    /\ \E n \in Nat : \E E : SawThrough(c, m, n, E)'
  BY DEF ReadTrue
<1>1. m.read.doc \in Watched[c] /\ m.basis \in 0..HeadSeq /\ m.basis \in 0..HeadSeq'
  BY DEF ReadTrue, Keeps
<1>2. PICK n \in Nat : \E E : SawThrough(c, m, n, E)
  BY DEF ReadTrue
<1>3. PICK E : SawThrough(c, m, n, E)
  BY <1>2
<1>4. DocAt(m.read.doc, m.basis)' = DocAt(m.read.doc, m.basis)
  BY <1>1 DEF Keeps, DocsKept
<1>5. ASSUME NEW k \in m.layers, NEW x, LayerIs(c, m, k, x)
      PROVE  LayerIs(c, m, k, x)'
  <2>1. /\ k \in Locals(c) /\ x.op.doc = m.read.doc
        /\ St(c, k) # "gone" => pending[c][k].commit = x
        /\ \A s : Own(s, c) /\ Local(s) = k => s > m.basis /\ log[s].commit = x
    BY <1>5 DEF LayerIs
  <2>2. k \in Locals(c)' /\ (St(c, k)' # "gone" => pending'[c][k].commit = x)
    BY <2>1 DEF Keeps
  <2>3. ASSUME NEW s, Own(s, c)', log'[s].commit.localSeq = k
        PROVE  s > m.basis /\ log'[s].commit = x
    <3>1. CASE Own(s, c) /\ log'[s] = log[s]
      <4>1. Local(s) = k
        BY <2>3, <3>1 DEF Local
      <4> QED BY <2>1, <3>1, <4>1
    <3>2. CASE /\ s > HeadSeq /\ St(c, log'[s].commit.localSeq) # "gone"
               /\ log'[s].commit = pending[c][log'[s].commit.localSeq].commit
      <4>1. s \in Int
        BY <2>3 DEF Own, Keeps
      <4>2. s > m.basis
        BY <1>1, <3>2, <4>1 DEF Keeps
      <4> QED BY <2>1, <2>3, <3>2, <4>2
    <3> QED BY <2>3, <3>1, <3>2 DEF Keeps
  <2> QED BY <2>1, <2>2, <2>3 DEF LayerIs, Local
<1>6. SawThrough(c, m, n, E)'
  <2>1. /\ DOMAIN E = 1..n /\ m.layers \subseteq 1..n
        /\ m.saw = Part(Replay(DocAt(m.read.doc, m.basis), E, m.layers), m.read.fields)
        /\ \A k \in m.layers : LayerIs(c, m, k, E[k].commit)
    BY <1>3 DEF SawThrough
  <2>2. \A k \in m.layers : LayerIs(c, m, k, E[k].commit)'
    BY <1>5, <2>1
  <2>3. m.saw = Part(Replay(DocAt(m.read.doc, m.basis)', E, m.layers), m.read.fields)
    BY <1>4, <2>1
  <2> QED BY <2>1, <2>2, <2>3 DEF SawThrough
<1> QED BY <1>1, <1>2, <1>6

(* A client step keeps the commits of its layers.                            *)
LEMMA CommitsKept ==
  ASSUME NEW c \in Client, Known(c), ClientMoves(c)
  PROVE  /\ \A k \in Locals(c) : /\ k \in Locals(c)'
                                 /\ St(c, k)' # "gone" => /\ St(c, k) # "gone"
                                                          /\ pending'[c][k].commit = pending[c][k].commit
         /\ \A k \in Locals(c) : Open(c, k)' => Open(c, k)
<1> DEFINE Fine(k) == /\ k \in Locals(c)'
                      /\ St(c, k)' # "gone" => /\ St(c, k) # "gone"
                                               /\ pending'[c][k].commit = pending[c][k].commit
                      /\ Open(c, k)' => Open(c, k)
<1> SUFFICES ASSUME NEW k \in Locals(c) PROVE Fine(k)
  OBVIOUS
<1>1. Len(fate[c]) \in Nat
  BY LocalsDomain DEF Known
<1>2. ASSUME Kept(c, k), k \in Locals(c)' PROVE Fine(k)
  BY <1>2 DEF Kept, St, Open
<1>3. ASSUME Len(fate'[c]) = Len(fate[c]) PROVE k \in Locals(c)'
  BY <1>3 DEF Locals
<1>4. CASE Retreats(c)
  <2>1. Loses(c, k) /\ k \in Locals(c)'
    BY <1>3, <1>4 DEF Retreats
  <2>2. CASE Kept(c, k)
    BY <1>2, <2>1, <2>2
  <2>3. CASE ~Kept(c, k)
    BY <2>1, <2>3 DEF Loses, Open
  <2> QED BY <2>2, <2>3
<1>5. ASSUME NEW tx \in Tx[c], Commits(c, tx) PROVE Fine(k)
  <2>1. Kept(c, k) /\ k \in Locals(c)'
    BY <1>1, <1>5 DEF Commits, Locals, NextLocal
  <2> QED BY <1>2, <2>1
<1>6. ASSUME NEW l, Dispatches(c, l) PROVE Fine(k)
  <2>1. k \in Locals(c)'
    BY <1>3, <1>6 DEF Dispatches
  <2>2. CASE k = l
    BY <1>6, <2>1, <2>2 DEF Dispatches, Open
  <2>3. CASE k # l
    BY <1>2, <1>6, <2>1, <2>3 DEF Dispatches, AllKept
  <2> QED BY <2>2, <2>3
<1>7. ASSUME NEW m, Ignores(c, m) PROVE Fine(k)
  <2>1. Kept(c, k) /\ k \in Locals(c)'
    BY <1>7 DEF Ignores, Kept, Locals
  <2> QED BY <1>2, <2>1
<1>8. ASSUME NEW m, NEW l, Heeds(c, m, l) PROVE Fine(k)
  <2>1. k \in Locals(c)'
    BY <1>3, <1>8 DEF Heeds
  <2>2. CASE k = l
    BY <1>8, <2>1, <2>2 DEF Heeds, Open
  <2>3. CASE k # l
    BY <1>2, <1>8, <2>1, <2>3 DEF Heeds, AllKept
  <2> QED BY <2>2, <2>3
<1>9. ASSUME NEW m, NEW g, Syncs(c, m, g) PROVE Fine(k)
  <2>1. k \in Locals(c)' /\ pending'[c][k] = IF Due(pending[c][k], Caught(c, m)) THEN Gone
                                             ELSE pending[c][k]
    BY <1>9 DEF Syncs, Locals
  <2>2. CASE pending'[c][k] = pending[c][k]
    BY <1>2, <1>9, <2>1, <2>2 DEF Syncs, Kept
  <2>3. CASE pending'[c][k] = Gone
    <3>1. St(c, k)' = "gone"
      BY <2>3 DEF St, Gone
    <3> QED BY <2>1, <3>1 DEF Open
  <2> QED BY <2>1, <2>2, <2>3
<1> QED BY <1>4, <1>5, <1>6, <1>7, <1>8, <1>9 DEF ClientMoves

(* A commit just built saw its stack of layers over the base it names.       *)
LEMMA ReadNew ==
  ASSUME NEW c \in Client, Known(c), LogOK, Ordered(c), Answers(c), Arrivals(c),
         Watched[c] \subseteq Doc, NEW op, NEW read,
         read.fields # {} => read.doc \in Watched[c]
  PROVE  ReadTrue(c, Built(c, op, read))
<1> SUFFICES ASSUME NEW m, m = Built(c, op, read), read.fields # {} PROVE ReadTrue(c, m)
  BY DEF ReadTrue, Built
<1> DEFINE d == read.doc
<1>1. /\ m.read = read /\ m.layers = LayersOn(c, d) /\ m.basis = confirmed[c][d].seq
      /\ m.saw = Part(View(c, d), read.fields)
  BY DEF Built
<1>2. d \in Watched[c] /\ m.basis \in 0..HeadSeq /\ confirmed[c][d].value = DocAt(d, m.basis)
  BY <1>1 DEF Arrivals, BaseTrue, TrueAt
<1>3. PICK n \in Nat : n = Len(fate[c]) /\ DOMAIN pending[c] = 1..n /\ Locals(c) = 1..n
  BY LocalsDomain DEF Known, Locals
<1>4. \A k \in m.layers : /\ k \in Locals(c) /\ St(c, k) # "gone"
                          /\ pending[c][k].commit.op.doc = d
  BY <1>1, <1>3 DEF LayersOn, Standing, St
<1>5. ASSUME NEW k \in m.layers PROVE LayerIs(c, m, k, pending[c][k].commit)
  <2>1. k \in Locals(c) /\ St(c, k) # "gone" /\ pending[c][k].commit.op.doc = d
    BY <1>4
  <2>2. ASSUME NEW s, Own(s, c), Local(s) = k
        PROVE  s > m.basis /\ log[s].commit = pending[c][k].commit
    <3>1. /\ St(c, k) \in {"sent", "parked", "gone"}
          /\ St(c, k) = "sent" =>
               /\ pending[c][k].commit = log[s].commit
               /\ \E i \in Places(c) :
                    ~IsSync(c, i) /\ toClient[c][i].localSeq = k /\ Unmarked(c, i, k)
          /\ St(c, k) = "parked" =>
               pending[c][k].commit = log[s].commit /\ caughtUp[c] < k
      BY <2>2, OwnState
    <3>2. pending[c][k].commit = log[s].commit /\ caughtUp[c] < k
      BY <2>1, <3>1 DEF Unmarked
    <3>3. k \in Nat /\ caughtUp[c] \in Nat
      BY <2>1, LocalsAreNat
    <3>4. ~(s <= m.basis)
      <4>1. SUFFICES ASSUME s <= m.basis PROVE FALSE
        OBVIOUS
      <4>2. Local(s) <= caughtUp[c]
        BY <1>1, <1>2, <2>2, <4>1 DEF Arrivals, BaseTrue
      <4> QED BY <2>2, <3>2, <3>3, <4>2
    <3>5. s \in Int /\ m.basis \in Int
      BY <1>2, <2>2 DEF Own
    <3> QED BY <3>2, <3>4, <3>5
  <2> QED BY <1>1, <2>1, <2>2 DEF LayerIs
<1>6. View(c, d) = Replay(DocAt(d, m.basis), pending[c], m.layers)
  BY <1>1, <1>2 DEF View
<1>7. SawThrough(c, m, n, pending[c])
  BY <1>1, <1>3, <1>4, <1>5, <1>6 DEF SawThrough
<1> QED BY <1>1, <1>2, <1>7 DEF ReadTrue

(* What the server accepts is a commit in flight whose layer waits for it.   *)
LEMMA AcceptedIsSent ==
  ASSUME NEW c \in Client, Known(c), NEW h \in Sent(c), Resolved(c, h)
  PROVE  /\ h.localSeq \in Locals(c) /\ St(c, h.localSeq) = "sent"
         /\ pending[c][h.localSeq].commit = h
<1>1. PICK l \in Locals(c) : l = h.localSeq
  BY LocalsAreNat
<1>2. AtServer(c, l) /\ St(c, l) # "gone"
  BY <1>1, AcceptedStands DEF AtServer
<1>3. St(c, l) \notin {"queued", "doomed"}
  BY <1>1, <1>2 DEF Known, Tracked, NotSent
<1>4. fate[c][l] # "accepted"
  BY <1>1 DEF Known, Tracked, AcceptedIsLogged, Once
<1>5. fate[c][l] # "rejected"
  <2>1. SUFFICES ASSUME fate[c][l] = "rejected" PROVE FALSE
    OBVIOUS
  <2>2. PICK k \in h.layers \cap Locals(c) : fate[c][k] = "rejected"
    BY <1>1, <2>1 DEF Known, Tracked, RejectedIsLost
  <2>3. ~InLog(c, k)
    BY <2>2 DEF Known, Tracked, RejectedIsLost
  <2>4. Accepted(c, k)
    BY <2>2 DEF Resolved
  <2> QED BY <2>3, <2>4, AcceptedInLog
<1>6. St(c, l) = "sent"
  BY <1>1, <1>3, <1>4, <1>5 DEF Known, TypedOf, LayerOK
<1>7. pending[c][l].commit = h
  BY <1>1, <1>6 DEF Known, Tracked, Unchanged
<1> QED BY <1>1, <1>6, <1>7

(* The reads of a replica over one of its own steps.                         *)
LEMMA ReadsMoves ==
  ASSUME NEW c \in Client, Known(c), LogOK, Ordered(c), Answers(c), Arrivals(c),
         Watched[c] \subseteq Doc, ReadsWatched, Reads(c), ServerSame, ClientMoves(c)
  PROVE  Reads(c)'
<1>1. Keeps(c)
  <2>1. /\ HeadSeq' = HeadSeq /\ HeadSeq \in Nat
        /\ \A x, s : DocAt(x, s)' = DocAt(x, s)
        /\ \A s : Own(s, c)' => Own(s, c) /\ log'[s] = log[s]
    BY DEF ServerSame, HeadSeq, DocAt, Own, Known
  <2>2. \A k \in Locals(c) : /\ k \in Locals(c)'
                             /\ St(c, k)' # "gone" => /\ St(c, k) # "gone"
                                                      /\ pending'[c][k].commit = pending[c][k].commit
    BY CommitsKept
  <2> QED BY <2>1, <2>2 DEF Keeps, DocsKept
<1>2. ASSUME NEW l \in Locals(c), Open(c, l)' PROVE ReadTrue(c, pending[c][l].commit)'
  <2>1. Open(c, l) /\ St(c, l)' # "gone"
    BY <1>2, CommitsKept DEF Open
  <2>2. PICK m : m = pending[c][l].commit /\ m = pending'[c][l].commit
    BY <2>1, CommitsKept
  <2>3. ReadTrue(c, m)
    BY <2>1, <2>2 DEF Reads
  <2>4. ReadTrue(c, m)'
    BY <1>1, <2>3, ReadStays
  <2> QED BY <2>2, <2>4
<1>3. ASSUME NEW l \in Locals(c)', l \notin Locals(c), Open(c, l)'
      PROVE  ReadTrue(c, pending[c][l].commit)'
  <2>0. Len(fate[c]) \in Nat
    BY LocalsDomain DEF Known
  <2>1. Len(fate'[c]) # Len(fate[c])
    BY <1>3 DEF Locals
  <2>2. PICK tx \in Tx[c] : Commits(c, tx)
    BY <2>1 DEF ClientMoves, Retreats, Dispatches, Ignores, Heeds, Syncs
  <2>3. l = NextLocal(c)
    BY <1>3, <2>0, <2>2 DEF Commits, Locals, NextLocal
  <2>4. PICK m : m = pending'[c][l].commit /\ m = Built(c, tx.op, tx.read)
    BY <2>2, <2>3 DEF Commits
  <2>5. ReadTrue(c, Built(c, tx.op, tx.read))
    BY ReadNew DEF ReadsWatched
  <2>6. ReadTrue(c, m)'
    BY <1>1, <2>4, <2>5, ReadStays
  <2> QED BY <2>4, <2>6
<1> QED BY <1>2, <1>3 DEF Reads

(* What a commit read is what the space holds when the server finds no write *)
(* that overlaps it but those of its own layers.                             *)
LEMMA ReadCurrent ==
  ASSUME NEW c \in Client, Known(c), LogOK, Ordered(c), Watched[c] \subseteq Doc, Reads(c),
         NEW h \in Sent(c), Resolved(c, h), ~Stale(c, h), h.read.fields # {}
  PROVE  h.saw = Part(DocAt(h.read.doc, HeadSeq), h.read.fields)
<1> DEFINE d == h.read.doc
           F == h.read.fields
<1>1. HeadSeq \in Nat /\ WellFormed(c, h)
  BY DEF Known, TypedOf
<1>2. ReadTrue(c, h)
  <2>1. h.localSeq \in Locals(c) /\ St(c, h.localSeq) = "sent"
        /\ pending[c][h.localSeq].commit = h
    BY AcceptedIsSent
  <2>2. Open(c, h.localSeq)
    BY <2>1 DEF Open
  <2>3. ReadTrue(c, pending[c][h.localSeq].commit)
    BY <2>1, <2>2 DEF Reads
  <2> QED BY <2>1, <2>3
<1>3. d \in Doc /\ h.basis \in 0..HeadSeq /\ F \subseteq Field
  BY <1>1, <1>2, WellFormedOp DEF ReadTrue
<1>4. PICK n \in Nat : \E E : SawThrough(c, h, n, E)
  BY <1>2 DEF ReadTrue
<1>5. PICK E : SawThrough(c, h, n, E)
  BY <1>4
<1>6. /\ DOMAIN E = 1..n /\ h.layers \subseteq 1..n
      /\ h.saw = Part(Replay(DocAt(d, h.basis), E, h.layers), F)
      /\ \A k \in h.layers : LayerIs(c, h, k, E[k].commit)
  BY <1>5 DEF SawThrough
<1>7. PICK row : row = [k \in h.layers |-> CHOOSE s \in 1..HeadSeq : IsRow(s, c, k)]
  OBVIOUS
<1>8. \A k \in h.layers : /\ row[k] \in 1..HeadSeq /\ IsRow(row[k], c, k)
                          /\ Own(row[k], c) /\ Local(row[k]) = k
  <2> SUFFICES ASSUME NEW k \in h.layers
               PROVE  row[k] \in 1..HeadSeq /\ IsRow(row[k], c, k)
    BY DEF IsRow, Own, Local
  <2>1. \E s \in 1..HeadSeq : IsRow(s, c, k)
    BY DEF Resolved, Accepted
  <2>2. row[k] = CHOOSE s \in 1..HeadSeq : IsRow(s, c, k)
    BY <1>7
  <2> QED BY <2>1, <2>2
<1>9. \A k \in h.layers : /\ row[k] > h.basis /\ log[row[k]].commit = E[k].commit
                          /\ E[k].commit.op.doc = d
  BY <1>6, <1>8 DEF LayerIs
<1>10. \A j, k \in h.layers : j < k => row[j] < row[k]
  <2> SUFFICES ASSUME NEW j \in h.layers, NEW k \in h.layers, j < k PROVE row[j] < row[k]
    OBVIOUS
  <2>1. /\ row[j] \in 1..HeadSeq /\ row[k] \in 1..HeadSeq /\ Own(row[j], c) /\ Own(row[k], c)
        /\ Local(row[j]) = j /\ Local(row[k]) = k
    BY <1>8
  <2>2. RowsOrdered(c)
    BY DEF Ordered
  <2>3. row[k] < row[j] => Local(row[k]) < Local(row[j])
    BY <2>1, <2>2, OneRow
  <2>4. j \in Int /\ k \in Int
    BY <1>6
  <2> QED BY <2>1, <2>3, <2>4
<1>11. ASSUME NEW s \in 1..HeadSeq, s > h.basis, \A k \in h.layers : row[k] # s, NEW f \in F
       PROVE  DocAt(d, s)[f] = DocAt(d, s - 1)[f]
  <2>1. \A l \in h.layers : ~IsRow(s, c, l)
    <3> SUFFICES ASSUME NEW l \in h.layers, IsRow(s, c, l) PROVE FALSE
      OBVIOUS
    <3>1. Own(s, c) /\ Local(s) = l
      BY DEF IsRow, Own, Local
    <3>2. s = row[l]
      <4>1. RowsOrdered(c)
        BY DEF Ordered
      <4> QED BY <1>8, <3>1, <4>1, OneRow
    <3> QED BY <1>11, <3>2
  <2>2. s \in (h.basis + 1)..HeadSeq /\ h.basis # Unseen
    BY <1>3, <1>11 DEF Unseen
  <2>3. log[s].elided \/ ~Overlaps(log[s].commit.op, h.read)
    BY <2>1, <2>2 DEF Stale
  <2>4. /\ RowOK(s) /\ WellFormed(log[s].client, log[s].commit) /\ log[s].client \in Client
    BY DEF LogOK, RowOK
  <2>5. CASE log[s].elided \/ log[s].commit.op.doc # d
    <3>1. DocAt(d, s) = DocAt(d, s - 1)
      BY <1>3, <2>4, <2>5 DEF RowOK
    <3> QED BY <3>1
  <2>6. CASE ~log[s].elided /\ log[s].commit.op.doc = d
    <3>1. log[s].commit.op.kind # "set" /\ log[s].commit.op.field \notin F
      BY <2>3, <2>6 DEF Overlaps
    <3>2. log[s].commit.op.kind \in {"put", "add"}
      BY <2>4, <3>1, WellFormedOp
    <3>3. s - 1 \in 0..HeadSeq
      BY <1>1
    <3>4. DOMAIN DocAt(d, s - 1) = Field
      BY <1>3, <3>3 DEF LogOK
    <3>5. DocAt(d, s) = Apply(DocAt(d, s - 1), log[s].commit.op)
      BY <1>3, <2>4, <2>6 DEF RowOK
    <3>6. f \in Field /\ log[s].commit.op.field # f
      BY <1>3, <1>11, <3>1
    <3> QED BY <3>2, <3>4, <3>5, <3>6, ApplyElsewhere
  <2> QED BY <2>5, <2>6
<1>12. Mirrors(d, F, h.basis, n, E, h.layers, row)
  BY <1>3, <1>6, <1>8, <1>9, <1>10, <1>11 DEF Mirrors
<1>13. \A f \in F : Replay(DocAt(d, h.basis), E, h.layers)[f] = DocAt(d, HeadSeq)[f]
  BY <1>1, <1>3, <1>12, ReplayMeetsLog
<1> QED BY <1>6, <1>13 DEF Part

(* The reads of a replica that does not move.                                *)
LEMMA ReadsStill ==
  ASSUME NEW c, Reads(c), Keeps(c), pending'[c] = pending[c], fate'[c] = fate[c]
  PROVE  Reads(c)'
<1> SUFFICES ASSUME NEW l \in Locals(c)', Open(c, l)' PROVE ReadTrue(c, pending[c][l].commit)'
  BY DEF Reads
<1>1. l \in Locals(c) /\ Open(c, l)
  BY DEF Locals, Open, St
<1>2. PICK m : m = pending[c][l].commit /\ m = pending'[c][l].commit
  OBVIOUS
<1>3. ReadTrue(c, m)
  BY <1>1, <1>2 DEF Reads
<1>4. ReadTrue(c, m)'
  BY <1>3, ReadStays
<1> QED BY <1>2, <1>4

(* A replica that does not move, while the log gains at most a commit of     *)
(* another client, or the one whose layer waits for it.                      *)
LEMMA KeepsApart ==
  ASSUME NEW d, RowsSame(d), DocsKept, pending'[d] = pending[d], fate'[d] = fate[d]
  PROVE  Keeps(d)
<1>1. \A s : Own(s, d)' => Own(s, d) /\ log'[s] = log[s]
  BY DEF RowsSame, Own
<1>2. \A k \in Locals(d) : k \in Locals(d)' /\ (St(d, k)' # "gone" => St(d, k) # "gone")
  BY DEF Locals, St
<1> QED BY <1>1, <1>2 DEF Keeps, RowsSame

(* The row of an accepted commit is what its layer holds.                  *)
LEMMA KeepsVerdict ==
  ASSUME NEW c \in Client, Known(c), NEW h, NEW v, Verdict(c, h, v), DocsKept,
         v.type = "accept" => Resolved(c, h)
  PROVE  Keeps(c)
<1>1. /\ Gains(c, h) /\ h \in Sent(c) /\ pending' = pending /\ fate' = fate
      /\ HeadSeq' = HeadSeq \/ Resolved(c, h)
  BY DEF Verdict, Handles
<1>2. \A k \in Locals(c) : k \in Locals(c)' /\ (St(c, k)' # "gone" => St(c, k) # "gone")
  BY <1>1 DEF Locals, St
<1>3. ASSUME NEW s, Own(s, c)'
      PROVE  \/ Own(s, c) /\ log'[s] = log[s]
             \/ /\ s > HeadSeq /\ St(c, log'[s].commit.localSeq) # "gone"
                /\ log'[s].commit = pending[c][log'[s].commit.localSeq].commit
  <2>1. CASE s \in 1..HeadSeq
    BY <1>1, <1>3, <2>1 DEF Own, Gains
  <2>2. CASE s \notin 1..HeadSeq
    <3>1. s = HeadSeq + 1 /\ log'[s].commit = h /\ HeadSeq \in Nat /\ HeadSeq' # HeadSeq
      BY <1>1, <1>3, <2>2 DEF Own, Gains
    <3>2. St(c, h.localSeq) = "sent" /\ pending[c][h.localSeq].commit = h
      BY <1>1, <3>1, AcceptedIsSent
    <3> QED BY <3>1, <3>2
  <2> QED BY <2>1, <2>2
<1> QED BY <1>1, <1>2, <1>3 DEF Keeps, Gains

ReadInv == CoherentInv /\ ReadCoherence /\ \A c \in Client : Reads(c)

(* Every step keeps the reads, and the row it adds was admitted on what    *)
(* its commit saw.                                                         *)
LEMMA NextReads ==
  ASSUME ReadsWatched, ReadInv, [Next]_vars, CoherentInv'
  PROVE  ReadInv'
<1>1. /\ Shapes /\ Domains /\ LogOK /\ HeadSeq \in Nat
      /\ \A c \in Client : /\ Known(c) /\ Tracked(c) /\ Ordered(c) /\ Answers(c) /\ Arrivals(c)
                           /\ Watched[c] \subseteq Doc
  BY CoherentKnown DEF ReadInv
<1>2. ReadCoherence /\ \A c \in Client : Reads(c)
  BY DEF ReadInv
<1>3. ASSUME log' = log PROVE ReadCoherence'
  BY <1>2, <1>3 DEF ReadCoherence, HeadSeq, DocAt
<1>4. ASSUME NEW d \in Client, RowsSame(d), DocsKept, pending'[d] = pending[d], fate'[d] = fate[d]
      PROVE  Reads(d)'
  BY <1>2, <1>4, KeepsApart, ReadsStill
<1>5. ASSUME NEW c \in Client, StepOf(c) PROVE ReadInv'
  <2>1. /\ ClientMoves(c) /\ ServerSame
        /\ \A d \in Client \ {c} : Apart(d)
    BY <1>1, <1>5, StepEffect
  <2>2. Reads(c)'
    BY <1>1, <1>2, <2>1, ReadsMoves
  <2>3. \A d \in Client \ {c} : Reads(d)'
    BY <1>1, <1>4, <2>1, QuietLog DEF ServerSame, Apart
  <2>4. ReadCoherence'
    BY <1>3, <2>1 DEF ServerSame
  <2> QED BY <2>2, <2>3, <2>4 DEF ReadInv
<1>6. ASSUME NEW c \in Client, Transact(c) PROVE ReadInv'
  <2>1. PICK h, v : /\ Handles(c, h, v)
                    /\ Refuses(h, v) \/ \E row : Accepts(c, h, v, row)
    BY <1>1, <1>6, TransactEffect DEF Domains
  <2>2. Verdict(c, h, v) /\ Gains(c, h) /\ h \in Sent(c)
    <3>1. Verdict(c, h, v)
      BY <1>1, <2>1, AnswerVerdict
    <3> QED BY <3>1 DEF Verdict, Handles
  <2>3. v.type = "accept" => Resolved(c, h)
    BY <2>1 DEF Refuses, Accepts
  <2>4. DocsKept
    <3>1. CASE Refuses(h, v)
      BY <1>1, <3>1, QuietLog DEF Refuses
    <3>2. ASSUME NEW row, Accepts(c, h, v, row) PROVE DocsKept
      BY <1>1, <3>2, LogGrows DEF Accepts, DocsKept
    <3> QED BY <2>1, <3>1, <3>2
  <2>5. pending' = pending /\ fate' = fate
    BY <2>1 DEF Handles
  <2>6. Reads(c)'
    <3>1. Keeps(c)
      BY <1>1, <2>2, <2>3, <2>4, KeepsVerdict
    <3> QED BY <1>2, <2>5, <3>1, ReadsStill
  <2>7. \A d \in Client \ {c} : Reads(d)'
    <3> SUFFICES ASSUME NEW d \in Client \ {c} PROVE Reads(d)'
      OBVIOUS
    <3>1. RowsSame(d)
      BY <2>2 DEF Gains, RowsSame
    <3> QED BY <1>4, <2>4, <2>5, <3>1
  <2>8. ReadCoherence'
    <3>1. CASE Refuses(h, v)
      BY <1>3, <3>1 DEF Refuses
    <3>2. ASSUME NEW row, Accepts(c, h, v, row) PROVE ReadCoherence'
      <4>1. /\ log' = Append(log, row) /\ row.commit = h /\ Resolved(c, h)
            /\ row.elided \/ ~Stale(c, h)
        BY <3>2 DEF Accepts
      <4>2. /\ HeadSeq' = HeadSeq + 1 /\ \A s \in 1..HeadSeq : log'[s] = log[s]
            /\ log'[HeadSeq + 1] = row
        BY <1>1, <4>1, LogGrows
      <4> SUFFICES ASSUME NEW s \in 1..HeadSeq', ~log'[s].elided,
                          NEW m, m = log'[s].commit, m.read.fields # {}
                   PROVE  m.saw = Part(DocAt(m.read.doc, s - 1)', m.read.fields)
        BY DEF ReadCoherence, Part
      <4>3. PICK t \in 0..HeadSeq : t = s - 1
        BY <1>1, <4>2
      <4>4. DocAt(m.read.doc, s - 1)' = DocAt(m.read.doc, s - 1)
        <5>1. DocAt(m.read.doc, t)' = DocAt(m.read.doc, t)
          BY <2>4 DEF DocsKept
        <5> QED BY <4>3, <5>1
      <4>5. CASE s \in 1..HeadSeq
        BY <1>2, <4>2, <4>4, <4>5 DEF ReadCoherence
      <4>6. CASE s = HeadSeq + 1
        <5>1. m = h /\ ~Stale(c, h)
          BY <4>1, <4>2, <4>6
        <5>2. m.saw = Part(DocAt(m.read.doc, HeadSeq), m.read.fields)
          BY <1>1, <1>2, <2>2, <4>1, <5>1, ReadCurrent
        <5>3. s - 1 = HeadSeq
          BY <1>1, <4>6
        <5> QED BY <4>4, <5>2, <5>3
      <4> QED BY <1>1, <4>2, <4>5, <4>6
    <3> QED BY <2>1, <3>1, <3>2
  <2> QED BY <2>6, <2>7, <2>8 DEF ReadInv
<1>7. CASE Flush
  <2>1. log' = log /\ \A d \in Client : Flushes(d)
    BY <1>1, <1>7, FlushEffect
  <2>2. \A d \in Client : Reads(d)'
    BY <1>1, <1>4, <2>1, QuietLog DEF Flushes
  <2> QED BY <1>3, <2>1, <2>2 DEF ReadInv
<1>8. CASE UNCHANGED vars
  <2>1. log' = log /\ \A d \in Client : Apart(d)
    BY <1>8 DEF vars, serverVars, replicaVars, Apart, LinkSame, BaseSame
  <2>2. \A d \in Client : Reads(d)'
    BY <1>1, <1>4, <2>1, QuietLog DEF Apart
  <2> QED BY <1>3, <2>1, <2>2 DEF ReadInv
<1> QED BY <1>5, <1>6, <1>7, <1>8 DEF Next, StepOf

(* Nothing was read or admitted at the start.                              *)
LEMMA InitReads == Init => ReadInv
<1> SUFFICES ASSUME Init PROVE ReadInv
  OBVIOUS
<1>1. CoherentInv
  BY InitCoherent
<1>2. 1..HeadSeq = {} /\ \A c \in Client : Locals(c) = {}
  BY DEF Init, HeadSeq, Locals
<1> QED BY <1>1, <1>2 DEF ReadInv, ReadCoherence, Reads

(* INV-1 for every set of clients, documents and transactions whose reads  *)
(* are of watched documents: a commit that wrote was admitted on exactly   *)
(* what the space held when it was admitted (ReadCoherence). The           *)
(* hypothesis is needed: the run of unwatched reads finds it violated.     *)
THEOREM ReadsAlwaysCohere ==
  ASSUME ReadsWatched
  PROVE  Spec => []ReadCoherence
<1>1. ReadInv /\ [Next]_vars => ReadInv'
  BY NextCoherent, NextReads DEF ReadInv
<1>2. ReadInv => ReadCoherence
  BY DEF ReadInv
<1> QED BY <1>1, <1>2, InitReads, PTL DEF Spec

-----------------------------------------------------------------------------
(* The protocol as SerialSpace sees it.                                      *)
SpaceNow == [d \in Doc |-> Stored(d)]
OpenNow == UNION {{[client |-> c, commit |-> pending[c][l].commit] :
                     l \in Undecided(c)} : c \in Client}
CommittedNow == {<<log[s].client, log[s].commit.localSeq>> : s \in 1..HeadSeq}
AbortedNow == UNION {{<<c, l>> : l \in {m \in 1..Len(fate[c]) :
                                          fate[c][m] = "rejected"}} : c \in Client}
NameOf(t) == <<t.client, t.commit.localSeq>>

(* A new transaction with a new name is a Begin of SerialSpace.            *)
LEMMA Begins ==
  ASSUME NEW t \in OpenNow', NameOf(t) \notin {NameOf(u) : u \in OpenNow},
         NameOf(t) \notin CommittedNow, NameOf(t) \notin AbortedNow,
         OpenNow' = OpenNow \cup {t}, SpaceNow' = SpaceNow,
         CommittedNow' = CommittedNow, AbortedNow' = AbortedNow
  PROVE  Serial!Begin
<1>1. \A u : Serial!Name(u) = NameOf(u)
  BY DEF Serial!Name, NameOf
<1>2. Serial!Name(t) \notin Serial!Names
  BY <1>1 DEF Serial!Names, OpenNow, CommittedNow, AbortedNow
<1> QED BY <1>2 DEF Serial!Begin, SpaceNow, OpenNow, CommittedNow, AbortedNow

(* Transactions that leave the open ones with their names aborted, and no  *)
(* name decided both ways, are an Abort of SerialSpace; none leaving is    *)
(* one as well.                                                            *)
LEMMA Aborts ==
  ASSUME OpenNow' \subseteq OpenNow, AbortedNow \subseteq AbortedNow',
         {NameOf(t) : t \in OpenNow \ OpenNow'} \subseteq AbortedNow',
         AbortedNow' \cap (CommittedNow \cup {NameOf(t) : t \in OpenNow'}) = {},
         SpaceNow' = SpaceNow, CommittedNow' = CommittedNow
  PROVE  Serial!Abort
<1>1. \A u : Serial!Name(u) = NameOf(u)
  BY DEF Serial!Name, NameOf
<1>2. \A S : {Serial!Name(t) : t \in S} = {NameOf(t) : t \in S}
  BY <1>1
<1>3. /\ {Serial!Name(t) : t \in OpenNow \ OpenNow'} \subseteq AbortedNow'
      /\ AbortedNow' \cap (CommittedNow \cup {Serial!Name(t) : t \in OpenNow'}) = {}
  BY <1>2
<1> QED BY <1>3 DEF Serial!Abort, SpaceNow, OpenNow, CommittedNow, AbortedNow

(* An open transaction whose observation is current, or whose operation    *)
(* changes nothing, and that is applied and named as committed, is a       *)
(* Commit of SerialSpace.                                                  *)
LEMMA CommitsOne ==
  ASSUME NEW t \in OpenNow,
         \/ \A f \in t.commit.read.fields : SpaceNow[t.commit.read.doc][f] = t.commit.saw[f]
         \/ [SpaceNow EXCEPT ![t.commit.op.doc] = Apply(@, t.commit.op)] = SpaceNow,
         SpaceNow' = [SpaceNow EXCEPT ![t.commit.op.doc] = Apply(@, t.commit.op)],
         OpenNow' = OpenNow \ {t}, CommittedNow' = CommittedNow \cup {NameOf(t)},
         AbortedNow' = AbortedNow
  PROVE  \E u \in OpenNow : Serial!Commit(u)
<1>1. \A u : Serial!Name(u) = NameOf(u)
  BY DEF Serial!Name, NameOf
<1>2. Serial!After(t.commit.op) = [SpaceNow EXCEPT ![t.commit.op.doc] = Apply(@, t.commit.op)]
  BY DEF Serial!After, SpaceNow
<1>3. Serial!Current(t) \/ Serial!After(t.commit.op) = SpaceNow
  BY <1>2 DEF Serial!Current, SpaceNow
<1>4. Serial!Commit(t)
  BY <1>1, <1>2, <1>3 DEF Serial!Commit, SpaceNow, OpenNow, CommittedNow, AbortedNow
<1> QED BY <1>4

(* What changes neither content, names nor open transactions is a stutter. *)
LEMMA Stutters ==
  ASSUME OpenNow' = OpenNow, SpaceNow' = SpaceNow, CommittedNow' = CommittedNow,
         AbortedNow' = AbortedNow
  PROVE  UNCHANGED Serial!vars
  BY DEF Serial!vars, SpaceNow, OpenNow, CommittedNow, AbortedNow

(* A transaction is open while its commit is on its way and not in the log.  *)
OpenFor(c, l) == l \in Locals(c) /\ Open(c, l) /\ ~Accepted(c, l)
TxnOf(c, l) == [client |-> c, commit |-> pending[c][l].commit]

NowIs ==
  /\ \A t : t \in OpenNow <=> \E c \in Client : \E l : OpenFor(c, l) /\ t = TxnOf(c, l)
  /\ \A c \in Client : \A l : OpenFor(c, l) => NameOf(TxnOf(c, l)) = <<c, l>>
  /\ \A n : n \in CommittedNow <=> \E s \in 1..HeadSeq : n = <<log[s].client, Local(s)>>
  /\ \A n : n \in AbortedNow <=>
       \E c \in Client : \E l \in Locals(c) : fate[c][l] = "rejected" /\ n = <<c, l>>

(* The refinement mapping, read layer by layer and row by row.             *)
LEMMA NowIsSo == FatesInv => NowIs
<1> SUFFICES ASSUME FatesInv PROVE NowIs
  OBVIOUS
<1>1. Shapes /\ \A c \in Client : Tracked(c)
  BY DEF FatesInv
<1>2. ASSUME NEW c \in Client, NEW l PROVE l \in Undecided(c) <=> OpenFor(c, l)
  <2>1. DOMAIN pending[c] = Locals(c)
    BY <1>1, LocalsDomain
  <2> QED BY <2>1 DEF Undecided, WithStatus, OpenFor, Open, St
<1>3. ASSUME NEW t
      PROVE  t \in OpenNow <=> \E c \in Client : \E l : OpenFor(c, l) /\ t = TxnOf(c, l)
  <2>1. t \in OpenNow <=> \E c \in Client : \E l \in Undecided(c) : t = TxnOf(c, l)
    BY DEF OpenNow, TxnOf
  <2> QED BY <1>2, <2>1
<1>4. ASSUME NEW c \in Client, NEW l, OpenFor(c, l) PROVE NameOf(TxnOf(c, l)) = <<c, l>>
  <2>1. l \in Locals(c) /\ St(c, l) # "gone"
    BY <1>4 DEF OpenFor, Open
  <2>2. pending[c][l].commit.localSeq = l
    BY <1>1, <2>1 DEF Tracked, Named
  <2> QED BY <2>2 DEF NameOf, TxnOf
<1>5. \A n : n \in CommittedNow <=> \E s \in 1..HeadSeq : n = <<log[s].client, Local(s)>>
  BY DEF CommittedNow, Local
<1>6. ASSUME NEW n
      PROVE  n \in AbortedNow <=>
               \E c \in Client : \E l \in Locals(c) : fate[c][l] = "rejected" /\ n = <<c, l>>
  BY DEF AbortedNow, Locals
<1> QED BY <1>3, <1>4, <1>5, <1>6 DEF NowIs

(* No transaction is decided both ways, and none that is open is decided.    *)
NowApart == AbortedNow \cap (CommittedNow \cup {NameOf(t) : t \in OpenNow}) = {}

(* By RejectedIsLost and Ages a rejected commit is not in the log, and an  *)
(* open one has no fate.                                                   *)
LEMMA NowIsApart == FatesInv => NowApart
<1> SUFFICES ASSUME FatesInv, NEW n \in AbortedNow
             PROVE  n \notin CommittedNow /\ \A t \in OpenNow : NameOf(t) # n
  BY DEF NowApart
<1>1. NowIs /\ \A c \in Client : Tracked(c)
  BY NowIsSo DEF FatesInv
<1>2. PICK c \in Client : \E l \in Locals(c) : fate[c][l] = "rejected" /\ n = <<c, l>>
  BY <1>1 DEF NowIs
<1>3. PICK l \in Locals(c) : fate[c][l] = "rejected" /\ n = <<c, l>>
  BY <1>2
<1>4. n \notin CommittedNow
  <2> SUFFICES ASSUME NEW s \in 1..HeadSeq, n = <<log[s].client, Local(s)>> PROVE FALSE
    BY <1>1 DEF NowIs
  <2>1. log[s].client = c /\ log[s].commit.localSeq = l
    BY <1>3 DEF Local
  <2>2. InLog(c, l)
    BY <2>1 DEF InLog, Rows
  <2> QED BY <1>1, <1>3, <2>2 DEF Tracked, RejectedIsLost
<1>5. ASSUME NEW t \in OpenNow, NameOf(t) = n PROVE FALSE
  <2>1. PICK e \in Client : \E k : OpenFor(e, k) /\ t = TxnOf(e, k)
    BY <1>1 DEF NowIs
  <2>2. PICK k : OpenFor(e, k) /\ t = TxnOf(e, k)
    BY <2>1
  <2>3. n = <<e, k>>
    BY <1>1, <1>5, <2>2 DEF NowIs
  <2>4. e = c /\ k = l
    BY <1>3, <2>3
  <2> QED BY <1>1, <1>3, <2>2, <2>4 DEF OpenFor, Open, Tracked, Ages
<1> QED BY <1>4, <1>5

(* Both hold after a step as they do before it.                            *)
LEMMA NowNext == FatesInv' => NowIs' /\ NowApart'
  BY NowIsSo, NowIsApart, PTL

(* What a replica does when it begins nothing: transactions stay open as     *)
(* they are, or their callers are told they failed.                          *)
Retires(c) ==
  /\ \A l \in Locals(c)' : Open(c, l)' =>
       l \in Locals(c) /\ Open(c, l) /\ pending'[c][l].commit = pending[c][l].commit
  /\ \A l \in Locals(c) :
       /\ l \in Locals(c)' /\ (fate[c][l] = "rejected" => fate'[c][l] = "rejected")
       /\ OpenFor(c, l) => Open(c, l)' \/ fate'[c][l] = "rejected"

(* While the log stays, so do the space and the names that committed.      *)
LEMMA LogSame ==
  ASSUME log' = log
  PROVE  /\ SpaceNow' = SpaceNow /\ CommittedNow' = CommittedNow
         /\ \A c, l : Accepted(c, l)' <=> Accepted(c, l)
<1>1. HeadSeq' = HeadSeq /\ \A d, s : DocAt(d, s)' = DocAt(d, s)
  BY DEF HeadSeq, DocAt
<1>2. SpaceNow' = SpaceNow
  BY <1>1 DEF SpaceNow, Stored, DocAt
<1>3. CommittedNow' = CommittedNow
  BY <1>1 DEF CommittedNow
<1>4. \A c, l : Accepted(c, l)' <=> Accepted(c, l)
  BY <1>1 DEF Accepted, IsRow
<1> QED BY <1>2, <1>3, <1>4

(* When every replica only retires transactions, the step is an Abort.     *)
LEMMA RetiresAborts ==
  ASSUME FatesInv, FatesInv', log' = log, \A c \in Client : Retires(c)
  PROVE  Serial!Abort
<1>1. NowIs /\ NowIs' /\ NowApart'
  BY NowIsSo, NowNext
<1>2. /\ SpaceNow' = SpaceNow /\ CommittedNow' = CommittedNow
      /\ \A c, l : Accepted(c, l)' <=> Accepted(c, l)
  BY LogSame
<1>3. ASSUME NEW c \in Client, NEW l, OpenFor(c, l)'
      PROVE  OpenFor(c, l) /\ TxnOf(c, l)' = TxnOf(c, l)
  BY <1>2, <1>3 DEF Retires, OpenFor, TxnOf
<1>4. OpenNow' \subseteq OpenNow
  <2> SUFFICES ASSUME NEW t \in OpenNow' PROVE t \in OpenNow
    OBVIOUS
  <2>1. PICK c \in Client : \E l : OpenFor(c, l)' /\ t = TxnOf(c, l)'
    BY <1>1 DEF NowIs
  <2>2. PICK l : OpenFor(c, l)' /\ t = TxnOf(c, l)'
    BY <2>1
  <2> QED BY <1>1, <1>3, <2>2 DEF NowIs
<1>5. AbortedNow \subseteq AbortedNow'
  <2> SUFFICES ASSUME NEW n \in AbortedNow PROVE n \in AbortedNow'
    OBVIOUS
  <2>1. PICK c \in Client : \E l \in Locals(c) : fate[c][l] = "rejected" /\ n = <<c, l>>
    BY <1>1 DEF NowIs
  <2>2. PICK l \in Locals(c) : fate[c][l] = "rejected" /\ n = <<c, l>>
    BY <2>1
  <2>3. l \in Locals(c)' /\ fate'[c][l] = "rejected"
    BY <2>2 DEF Retires
  <2> QED BY <1>1, <2>2, <2>3 DEF NowIs
<1>6. {NameOf(t) : t \in OpenNow \ OpenNow'} \subseteq AbortedNow'
  <2> SUFFICES ASSUME NEW t \in OpenNow, t \notin OpenNow' PROVE NameOf(t) \in AbortedNow'
    OBVIOUS
  <2>1. PICK c \in Client : \E l : OpenFor(c, l) /\ t = TxnOf(c, l)
    BY <1>1 DEF NowIs
  <2>2. PICK l : OpenFor(c, l) /\ t = TxnOf(c, l)
    BY <2>1
  <2>3. NameOf(t) = <<c, l>> /\ l \in Locals(c)
    BY <1>1, <2>2 DEF NowIs, OpenFor
  <2>4. l \in Locals(c)' /\ (Open(c, l)' \/ fate'[c][l] = "rejected")
    BY <2>2, <2>3 DEF Retires
  <2>5. ~Open(c, l)'
    <3>1. SUFFICES ASSUME Open(c, l)' PROVE FALSE
      OBVIOUS
    <3>2. OpenFor(c, l)'
      BY <1>2, <2>2, <2>4, <3>1 DEF OpenFor
    <3>3. t = TxnOf(c, l)'
      BY <1>3, <2>2, <3>2
    <3> QED BY <1>1, <2>2, <3>2, <3>3 DEF NowIs
  <2>6. fate'[c][l] = "rejected"
    BY <2>4, <2>5
  <2> QED BY <1>1, <2>3, <2>4, <2>6 DEF NowIs
<1>7. AbortedNow' \cap (CommittedNow \cup {NameOf(t) : t \in OpenNow'}) = {}
  BY <1>1, <1>2 DEF NowApart
<1> QED BY <1>2, <1>4, <1>5, <1>6, <1>7, Aborts

(* The commit a replica has just built begins a transaction.                 *)
Starts(c) ==
  LET n == NextLocal(c) IN
  /\ Len(fate'[c]) = n /\ \A l \in Locals(c) : Kept(c, l)
  /\ pending'[c][n].status = "queued" /\ fate'[c][n] = "open"

(* Every move of a replica begins one transaction or retires some, perhaps *)
(* none.                                                                   *)
LEMMA RetiresMoves ==
  ASSUME NEW c \in Client, Known(c), ClientMoves(c)
  PROVE  Retires(c) \/ Starts(c)
<1> DEFINE Fate(l) == /\ l \in Locals(c)' /\ (fate[c][l] = "rejected" => fate'[c][l] = "rejected")
                      /\ OpenFor(c, l) => Open(c, l)' \/ fate'[c][l] = "rejected"
<1>1. /\ Len(fate[c]) \in Nat
      /\ \A l \in Locals(c) : Open(c, l) => fate[c][l] = "open"
      /\ \A l \in Locals(c) : l \in Locals(c)' /\ (Open(c, l)' => Open(c, l))
      /\ \A l \in Locals(c) : Open(c, l)' => pending'[c][l].commit = pending[c][l].commit
  <2>1. \A l \in Locals(c) : Open(c, l)' => St(c, l)' # "gone"
    BY DEF Open
  <2> QED BY <2>1, LocalsDomain, CommitsKept DEF Known, Tracked, Ages, Open
<1>2. ASSUME NEW l \in Locals(c), Kept(c, l) PROVE Fate(l)
  BY <1>1, <1>2 DEF Kept, OpenFor, Open, St
<1>3. ASSUME \A l \in Locals(c) : Fate(l), Locals(c)' = Locals(c) PROVE Retires(c)
  BY <1>1, <1>3 DEF Retires
<1>4. CASE Retreats(c)
  <2>1. Locals(c)' = Locals(c)
    BY <1>4 DEF Retreats, Locals
  <2>2. ASSUME NEW l \in Locals(c) PROVE Fate(l)
    <3>1. Loses(c, l)
      BY <1>4 DEF Retreats
    <3>2. CASE Kept(c, l)
      BY <1>2, <3>2
    <3>3. CASE ~Kept(c, l)
      BY <1>1, <3>1, <3>3 DEF Loses, OpenFor, Open
    <3> QED BY <3>2, <3>3
  <2> QED BY <1>3, <2>1, <2>2
<1>5. ASSUME NEW tx \in Tx[c], Commits(c, tx) PROVE Retires(c) \/ Starts(c)
  <2>1. PICK n : n = NextLocal(c) /\ Len(fate'[c]) = n
    BY <1>5 DEF Commits
  <2>2. \A l \in Locals(c) : Kept(c, l) /\ Fate(l)
    BY <1>2, <1>5 DEF Commits
  <2>3. CASE pending'[c][n].status = "queued" /\ fate'[c][n] = "open"
    BY <2>1, <2>2, <2>3 DEF Starts
  <2>4. CASE pending'[c][n].status = "repairing"
    <3>1. \A l \in Locals(c)' : l \in Locals(c) \/ l = n
      BY <1>1, <2>1 DEF Locals, NextLocal
    <3>2. ~Open(c, n)'
      BY <2>4 DEF Open, St
    <3> QED BY <1>1, <2>2, <3>1, <3>2 DEF Retires
  <2> QED BY <1>5, <2>1, <2>3, <2>4 DEF Commits
<1>6. ASSUME NEW l, Dispatches(c, l) PROVE Retires(c)
  <2>1. Locals(c)' = Locals(c)
    BY <1>6 DEF Dispatches, Locals
  <2>2. ASSUME NEW k \in Locals(c) PROVE Fate(k)
    <3>1. CASE k = l
      BY <1>6, <2>1, <3>1 DEF Dispatches, Open
    <3>2. CASE k # l
      BY <1>2, <1>6, <3>2 DEF Dispatches, AllKept
    <3> QED BY <3>1, <3>2
  <2> QED BY <1>3, <2>1, <2>2
<1>7. ASSUME NEW m, Ignores(c, m) PROVE Retires(c)
  <2>1. Locals(c)' = Locals(c) /\ \A k \in Locals(c) : Kept(c, k)
    BY <1>7 DEF Ignores, Locals, Kept
  <2> QED BY <1>2, <1>3, <2>1
<1>8. ASSUME NEW m, NEW l, Heeds(c, m, l) PROVE Retires(c)
  <2>1. Locals(c)' = Locals(c)
    BY <1>8 DEF Heeds, Locals
  <2>2. m \in Verdicts(c) /\ l \in Locals(c) /\ l = m.localSeq /\ St(c, l) = "sent"
    <3>1. m = toClient[c][1] /\ 1 \in 1..Len(toClient[c])
      BY <1>8, TakesPlaces DEF Heeds, Known, Places
    <3> QED BY <1>8, <3>1 DEF Heeds, Verdicts
  <2>3. Fate(l)
    <3>1. l \in Locals(c)' /\ fate[c][l] = "open"
      BY <1>1, <2>1, <2>2 DEF Open
    <3>2. CASE m.type = "accept"
      <4>1. InLog(c, l)
        BY <2>2, <3>2 DEF Known, Tracked, VerdictsTrue
      <4>2. Accepted(c, l)
        BY <4>1, AcceptedInLog
      <4> QED BY <3>1, <4>2 DEF OpenFor
    <3>3. CASE m.type # "accept"
      BY <1>8, <3>1, <3>3 DEF Heeds
    <3> QED BY <3>2, <3>3
  <2>4. ASSUME NEW k \in Locals(c) PROVE Fate(k)
    <3>1. CASE k = l
      BY <2>3, <3>1
    <3>2. CASE k # l
      BY <1>2, <1>8, <3>2 DEF Heeds, AllKept
    <3> QED BY <3>1, <3>2
  <2> QED BY <1>3, <2>1, <2>4
<1>9. ASSUME NEW m, NEW g, Syncs(c, m, g) PROVE Retires(c)
  <2>1. /\ fate' = fate /\ Locals(c)' = Locals(c)
        /\ \A k \in Locals(c) : pending'[c][k] = IF Due(pending[c][k], Caught(c, m)) THEN Gone
                                                 ELSE pending[c][k]
    BY <1>9 DEF Syncs, Locals
  <2>2. ASSUME NEW k \in Locals(c) PROVE Fate(k)
    <3>1. CASE Due(pending[c][k], Caught(c, m))
      <4>1. ~Open(c, k)
        BY <3>1 DEF Due, Open, St
      <4> QED BY <2>1, <4>1 DEF OpenFor
    <3>2. CASE ~Due(pending[c][k], Caught(c, m))
      BY <1>2, <2>1, <3>2 DEF Kept
    <3> QED BY <3>1, <3>2
  <2> QED BY <1>3, <2>1, <2>2
<1> QED BY <1>4, <1>5, <1>6, <1>7, <1>8, <1>9 DEF ClientMoves

(* A replica that does not move retires none.                              *)
LEMMA RetiresStill ==
  ASSUME NEW c, pending'[c] = pending[c], fate'[c] = fate[c]
  PROVE  Retires(c)
  BY DEF Retires, Locals, Open, St, OpenFor

(* A replica that starts a commit begins a transaction whose name nobody   *)
(* had.                                                                    *)
LEMMA StartsBegins ==
  ASSUME FatesInv, FatesInv', log' = log, NEW c \in Client, Starts(c),
         \A d \in Client \ {c} : pending'[d] = pending[d] /\ fate'[d] = fate[d]
  PROVE  Serial!Begin
<1>1. NowIs /\ NowIs' /\ Shapes /\ \A d \in Client : Tracked(d)
  BY NowIsSo, NowNext DEF FatesInv
<1>2. /\ SpaceNow' = SpaceNow /\ CommittedNow' = CommittedNow
      /\ \A d, l : Accepted(d, l)' <=> Accepted(d, l)
  BY LogSame
<1>3. PICK n : n = NextLocal(c)
  OBVIOUS
<1>4. /\ Locals(c)' = Locals(c) \cup {n} /\ n \notin Locals(c)
      /\ pending'[c][n].status = "queued" /\ fate'[c][n] = "open"
      /\ \A l \in Locals(c) : pending'[c][l] = pending[c][l] /\ fate'[c][l] = fate[c][l]
  BY <1>1, <1>3, LocalsDomain DEF Starts, Locals, NextLocal, Kept
<1>5. ~Accepted(c, n)
  <2>1. \A r \in Rows(c) : r.localSeq \in Locals(c)
    BY <1>1 DEF Tracked, Named
  <2>2. ~InLog(c, n)
    BY <1>4, <2>1 DEF InLog
  <2> QED BY <2>2, AcceptedInLog
<1>6. PICK t : t = TxnOf(c, n)'
  OBVIOUS
<1>7. OpenFor(c, n)' /\ NameOf(t) = <<c, n>>
  <2>1. OpenFor(c, n)'
    BY <1>2, <1>4, <1>5 DEF OpenFor, Open, St
  <2> QED BY <1>1, <1>6, <2>1 DEF NowIs, NameOf
<1>8. ASSUME NEW d \in Client, NEW l, d # c \/ l # n
      PROVE  /\ OpenFor(d, l)' <=> OpenFor(d, l)
             /\ OpenFor(d, l) => TxnOf(d, l)' = TxnOf(d, l)
  <2>1. CASE d = c
    BY <1>2, <1>4, <1>8, <2>1 DEF OpenFor, Open, St, TxnOf
  <2>2. CASE d # c
    BY <1>2, <2>2 DEF OpenFor, Open, St, TxnOf, Locals
  <2> QED BY <2>1, <2>2
<1>9. ~OpenFor(c, n)
  BY <1>4 DEF OpenFor
<1>10. t \in OpenNow'
  BY <1>1, <1>6, <1>7 DEF NowIs
<1>11. OpenNow' = OpenNow \cup {t}
  <2>1. ASSUME NEW u \in OpenNow' PROVE u \in OpenNow \cup {t}
    <3>1. PICK d \in Client : \E l : OpenFor(d, l)' /\ u = TxnOf(d, l)'
      BY <1>1, <2>1 DEF NowIs
    <3>2. PICK l : OpenFor(d, l)' /\ u = TxnOf(d, l)'
      BY <3>1
    <3>3. CASE d = c /\ l = n
      BY <1>6, <3>2, <3>3
    <3>4. CASE d # c \/ l # n
      <4>1. OpenFor(d, l) /\ u = TxnOf(d, l)
        BY <1>8, <3>2, <3>4
      <4> QED BY <1>1, <4>1 DEF NowIs
    <3> QED BY <3>3, <3>4
  <2>2. ASSUME NEW u \in OpenNow PROVE u \in OpenNow'
    <3>1. PICK d \in Client : \E l : OpenFor(d, l) /\ u = TxnOf(d, l)
      BY <1>1, <2>2 DEF NowIs
    <3>2. PICK l : OpenFor(d, l) /\ u = TxnOf(d, l)
      BY <3>1
    <3>3. d # c \/ l # n
      BY <1>9, <3>2
    <3>4. OpenFor(d, l)' /\ u = TxnOf(d, l)'
      BY <1>8, <3>2, <3>3
    <3> QED BY <1>1, <3>4 DEF NowIs
  <2> QED BY <1>10, <2>1, <2>2
<1>12. AbortedNow' = AbortedNow
  <2>1. \A d \in Client : \A l : l \in Locals(d)' /\ fate'[d][l] = "rejected" <=>
                                 l \in Locals(d) /\ fate[d][l] = "rejected"
    <3> SUFFICES ASSUME NEW d \in Client, NEW l
                 PROVE  l \in Locals(d)' /\ fate'[d][l] = "rejected" <=>
                        l \in Locals(d) /\ fate[d][l] = "rejected"
      OBVIOUS
    <3>1. CASE d = c
      BY <1>4, <3>1
    <3>2. CASE d # c
      BY <3>2 DEF Locals
    <3> QED BY <3>1, <3>2
  <2>2. \A x : x \in AbortedNow' <=> x \in AbortedNow
    BY <1>1, <2>1 DEF NowIs
  <2> QED BY <2>2
<1>13. NameOf(t) \notin {NameOf(u) : u \in OpenNow}
  <2> SUFFICES ASSUME NEW u \in OpenNow, NameOf(u) = <<c, n>> PROVE FALSE
    BY <1>7
  <2>1. PICK d \in Client : \E l : OpenFor(d, l) /\ u = TxnOf(d, l)
    BY <1>1 DEF NowIs
  <2>2. PICK l : OpenFor(d, l) /\ u = TxnOf(d, l)
    BY <2>1
  <2>3. <<d, l>> = <<c, n>>
    BY <1>1, <2>2 DEF NowIs
  <2> QED BY <1>9, <2>2, <2>3
<1>14. NameOf(t) \notin CommittedNow
  <2> SUFFICES ASSUME NEW s \in 1..HeadSeq, <<log[s].client, Local(s)>> = <<c, n>> PROVE FALSE
    BY <1>1, <1>7 DEF NowIs
  <2> QED BY <1>5 DEF Accepted, IsRow, Local
<1>15. NameOf(t) \notin AbortedNow
  <2> SUFFICES ASSUME NEW d \in Client, NEW l \in Locals(d), <<d, l>> = <<c, n>> PROVE FALSE
    BY <1>1, <1>7 DEF NowIs
  <2> QED BY <1>4
<1> QED BY <1>2, <1>10, <1>11, <1>12, <1>13, <1>14, <1>15, Begins

(* An accepted commit commits its transaction, at that instant.              *)
LEMMA AcceptCommits ==
  ASSUME FatesInv, FatesInv', LogOK, NEW c \in Client, Known(c), Ordered(c),
         Watched[c] \subseteq Doc, Reads(c),
         NEW h, NEW v, NEW row, Handles(c, h, v), Accepts(c, h, v, row)
  PROVE  \E u \in OpenNow : Serial!Commit(u)
<1>1. NowIs /\ NowIs' /\ Shapes /\ \A d \in Client : Tracked(d)
  BY NowIsSo, NowNext DEF FatesInv
<1>2. /\ h \in Sent(c) /\ Resolved(c, h) /\ pending' = pending /\ fate' = fate
      /\ log' = Append(log, row) /\ row.client = c /\ row.commit = h
      /\ row.content = [d \in Doc |-> IF ~row.elided /\ d = h.op.doc
                                      THEN Apply(Stored(d), h.op) ELSE Stored(d)]
      /\ row.elided \in BOOLEAN
      /\ row.elided => Apply(Stored(h.op.doc), h.op) = Stored(h.op.doc)
      /\ ~row.elided => ~Stale(c, h)
  BY DEF Handles, Accepts
<1>3. /\ HeadSeq \in Nat /\ HeadSeq' = HeadSeq + 1
      /\ 1..HeadSeq' = (1..HeadSeq) \cup {HeadSeq + 1}
      /\ \A s \in 1..HeadSeq : log'[s] = log[s]
      /\ log'[HeadSeq + 1] = row
      /\ \A d : Stored(d)' = row.content[d]
  BY <1>1, <1>2, LogGrows
<1>4. PICK l \in Locals(c) : l = h.localSeq /\ St(c, l) = "sent" /\ pending[c][l].commit = h
  BY <1>2, AcceptedIsSent
<1>5. OpenFor(c, l)
  <2>1. ~InLog(c, l)
    BY <1>2, <1>4 DEF Known, Tracked, Once
  <2>2. ~Accepted(c, l)
    BY <2>1, AcceptedInLog
  <2> QED BY <1>4, <2>2 DEF OpenFor, Open
<1>6. PICK t : t = TxnOf(c, l)
  OBVIOUS
<1>7. t \in OpenNow /\ t.commit = h /\ NameOf(t) = <<c, l>>
  BY <1>1, <1>4, <1>5, <1>6 DEF NowIs, TxnOf
<1>8. WellFormed(c, h)
  BY <1>2 DEF Known, TypedOf
<1>9. h.op.doc \in Doc
  BY <1>8, WellFormedOp
<1>10. SpaceNow' = [SpaceNow EXCEPT ![h.op.doc] = Apply(SpaceNow[h.op.doc], h.op)]
  <2>1. SpaceNow' = [d \in Doc |-> row.content[d]]
    BY <1>3 DEF SpaceNow
  <2>2. SpaceNow = [d \in Doc |-> Stored(d)] /\ SpaceNow[h.op.doc] = Stored(h.op.doc)
    BY <1>9 DEF SpaceNow
  <2>3. ASSUME NEW d \in Doc
        PROVE  row.content[d] = IF d = h.op.doc THEN Apply(Stored(h.op.doc), h.op) ELSE Stored(d)
    BY <1>2
  <2> QED BY <2>1, <2>2, <2>3
<1>11. \/ \A f \in h.read.fields : SpaceNow[h.read.doc][f] = h.saw[f]
       \/ [SpaceNow EXCEPT ![h.op.doc] = Apply(SpaceNow[h.op.doc], h.op)] = SpaceNow
  <2>1. CASE row.elided
    <3>1. SpaceNow = [d \in Doc |-> Stored(d)] /\ SpaceNow[h.op.doc] = Stored(h.op.doc)
      BY <1>9 DEF SpaceNow
    <3>2. Apply(SpaceNow[h.op.doc], h.op) = SpaceNow[h.op.doc]
      BY <1>2, <2>1, <3>1
    <3> QED BY <3>1, <3>2
  <2>2. CASE ~row.elided /\ h.read.fields # {}
    <3>1. h.saw = Part(DocAt(h.read.doc, HeadSeq), h.read.fields)
      BY <1>2, <2>2, ReadCurrent
    <3>2. h.read.doc \in Doc
      BY <1>8, <2>2, WellFormedOp
    <3>3. SpaceNow[h.read.doc] = DocAt(h.read.doc, HeadSeq)
      BY <3>2 DEF SpaceNow, Stored
    <3> QED BY <3>1, <3>3 DEF Part
  <2>3. CASE h.read.fields = {}
    BY <2>3
  <2> QED BY <1>2, <2>1, <2>2, <2>3
<1>12. \A d \in Client : \A k : Accepted(d, k)' <=> Accepted(d, k) \/ (d = c /\ k = l)
  <2> SUFFICES ASSUME NEW d \in Client, NEW k
               PROVE  Accepted(d, k)' <=> Accepted(d, k) \/ (d = c /\ k = l)
    OBVIOUS
  <2>1. \A s \in 1..HeadSeq : IsRow(s, d, k)' <=> IsRow(s, d, k)
    BY <1>3 DEF IsRow
  <2>2. \A n : n = HeadSeq + 1 => (IsRow(n, d, k)' <=> d = c /\ k = l)
    BY <1>2, <1>3, <1>4 DEF IsRow
  <2> QED BY <1>3, <2>1, <2>2 DEF Accepted
<1>13. ASSUME NEW d \in Client, NEW k
       PROVE  /\ OpenFor(d, k)' <=> OpenFor(d, k) /\ ~(d = c /\ k = l)
              /\ TxnOf(d, k)' = TxnOf(d, k)
  BY <1>2, <1>12 DEF OpenFor, TxnOf, Locals, Open, St
<1>14. OpenNow' = OpenNow \ {t}
  <2>1. ASSUME NEW u \in OpenNow' PROVE u \in OpenNow /\ u # t
    <3>1. PICK d \in Client : \E k : OpenFor(d, k)' /\ u = TxnOf(d, k)'
      BY <1>1, <2>1 DEF NowIs
    <3>2. PICK k : OpenFor(d, k)' /\ u = TxnOf(d, k)'
      BY <3>1
    <3>3. OpenFor(d, k) /\ u = TxnOf(d, k) /\ ~(d = c /\ k = l)
      BY <1>13, <3>2
    <3>4. NameOf(u) = <<d, k>>
      BY <1>1, <3>3 DEF NowIs
    <3>5. u # t
      BY <1>7, <3>3, <3>4
    <3> QED BY <1>1, <3>3, <3>5 DEF NowIs
  <2>2. ASSUME NEW u \in OpenNow, u # t PROVE u \in OpenNow'
    <3>1. PICK d \in Client : \E k : OpenFor(d, k) /\ u = TxnOf(d, k)
      BY <1>1, <2>2 DEF NowIs
    <3>2. PICK k : OpenFor(d, k) /\ u = TxnOf(d, k)
      BY <3>1
    <3>3. OpenFor(d, k)' /\ u = TxnOf(d, k)'
      BY <1>6, <1>13, <2>2, <3>2
    <3> QED BY <1>1, <3>3 DEF NowIs
  <2> QED BY <2>1, <2>2
<1>15. CommittedNow' = CommittedNow \cup {NameOf(t)}
  <2>1. PICK n : n = HeadSeq + 1
    OBVIOUS
  <2>2. <<log'[n].client, Local(n)'>> = <<c, l>> /\ 1..HeadSeq' = (1..HeadSeq) \cup {n}
    BY <1>2, <1>3, <1>4, <2>1 DEF Local
  <2>3. \A s \in 1..HeadSeq : <<log'[s].client, Local(s)'>> = <<log[s].client, Local(s)>>
    BY <1>3 DEF Local
  <2>4. ASSUME NEW x PROVE x \in CommittedNow' <=> x \in CommittedNow \/ x = <<c, l>>
    <3>1. x \in CommittedNow' <=> \E s \in 1..HeadSeq' : x = <<log'[s].client, Local(s)'>>
      BY <1>1 DEF NowIs
    <3>2. x \in CommittedNow <=> \E s \in 1..HeadSeq : x = <<log[s].client, Local(s)>>
      BY <1>1 DEF NowIs
    <3> QED BY <2>2, <2>3, <3>1, <3>2
  <2> QED BY <1>7, <2>4
<1>16. AbortedNow' = AbortedNow
  BY <1>2 DEF AbortedNow
<1> QED BY <1>7, <1>10, <1>11, <1>14, <1>15, <1>16, CommitsOne

(* Every step of the protocol is a step of SerialSpace.                      *)
LEMMA NextSerial ==
  ASSUME ReadInv, ReadInv', [Next]_vars
  PROVE  [Serial!Next]_(Serial!vars)
<1>1. /\ Shapes /\ Domains /\ LogOK /\ HeadSeq \in Nat
      /\ \A c \in Client : /\ Known(c) /\ Tracked(c) /\ Ordered(c) /\ Answers(c) /\ Arrivals(c)
                           /\ Watched[c] \subseteq Doc /\ Reads(c)
  BY CoherentKnown DEF ReadInv
<1>2. FatesInv /\ FatesInv'
  BY DEF ReadInv, CoherentInv, TypedInv
<1>3. ASSUME log' = log, pending' = pending, fate' = fate PROVE UNCHANGED Serial!vars
  <2>1. SpaceNow' = SpaceNow /\ CommittedNow' = CommittedNow
    BY <1>3, LogSame
  <2>2. AbortedNow' = AbortedNow
    BY <1>3 DEF AbortedNow
  <2>3. \A c \in Client : Undecided(c)' = Undecided(c)
    BY <1>3, LogSame DEF Undecided, WithStatus
  <2>4. OpenNow' = OpenNow
    BY <1>3, <2>3 DEF OpenNow
  <2> QED BY <2>1, <2>2, <2>4, Stutters
<1>4. ASSUME NEW c \in Client, StepOf(c) PROVE Serial!Begin \/ Serial!Abort
  <2>1. /\ ClientMoves(c) /\ log' = log
        /\ \A d \in Client \ {c} : pending'[d] = pending[d] /\ fate'[d] = fate[d]
    BY <1>1, <1>4, StepEffect DEF ServerSame, Apart
  <2>2. CASE Starts(c)
    BY <1>2, <2>1, <2>2, StartsBegins
  <2>3. CASE ~Starts(c)
    <3>1. Retires(c)
      BY <1>1, <2>1, <2>3, RetiresMoves
    <3>2. \A d \in Client : Retires(d)
      BY <2>1, <3>1, RetiresStill
    <3> QED BY <1>2, <2>1, <3>2, RetiresAborts
  <2> QED BY <2>2, <2>3
<1>5. ASSUME NEW c \in Client, Transact(c)
      PROVE  (\E u \in OpenNow : Serial!Commit(u)) \/ UNCHANGED Serial!vars
  <2>1. PICK h, v : /\ Handles(c, h, v)
                    /\ Refuses(h, v) \/ \E row : Accepts(c, h, v, row)
    BY <1>1, <1>5, TransactEffect DEF Domains
  <2>2. CASE Refuses(h, v)
    BY <1>3, <2>1, <2>2 DEF Refuses, Handles
  <2>3. ASSUME NEW row, Accepts(c, h, v, row)
        PROVE  \E u \in OpenNow : Serial!Commit(u)
    BY <1>1, <1>2, <2>1, <2>3, AcceptCommits
  <2> QED BY <2>1, <2>2, <2>3
<1>6. Flush \/ UNCHANGED vars => UNCHANGED Serial!vars
  BY <1>3 DEF Flush, vars, serverVars, replicaVars
<1>7. (\E u \in OpenNow : Serial!Commit(u)) \/ Serial!Begin \/ Serial!Abort => Serial!Next
  BY DEF Serial!Next, OpenNow
<1> QED BY <1>4, <1>5, <1>6, <1>7 DEF Next, StepOf

(* No transaction is open or decided at the start.                         *)
LEMMA InitSerial == Init => Serial!Init
<1> SUFFICES ASSUME Init PROVE Serial!Init
  OBVIOUS
<1>1. NowIs
  BY InitFates, NowIsSo
<1>2. 1..HeadSeq = {} /\ \A c \in Client : Locals(c) = {}
  BY DEF Init, HeadSeq, Locals
<1>3. OpenNow = {} /\ CommittedNow = {} /\ AbortedNow = {}
  BY <1>1, <1>2 DEF NowIs, OpenFor
<1> QED BY <1>3 DEF Serial!Init, OpenNow, CommittedNow, AbortedNow

(* The protocol implements SerialSpace for every set of clients, documents *)
(* and transactions whose reads are of watched documents                   *)
(* (ImplementsSerialSpace): each step is one commit at an instant its      *)
(* observation is current or its operation without effect, a begin, an     *)
(* abort or a stutter.                                                     *)
THEOREM ProtocolImplementsSpace ==
  ASSUME ReadsWatched
  PROVE  Spec => ImplementsSerialSpace
<1>1. ReadInv /\ [Next]_vars => ReadInv'
  BY NextCoherent, NextReads DEF ReadInv
<1>2. ReadInv /\ ReadInv' /\ [Next]_vars => [Serial!Next]_(Serial!vars)
  BY NextSerial
<1> QED BY <1>1, <1>2, InitReads, InitSerial, PTL DEF Spec, ImplementsSerialSpace, Serial!Spec
=============================================================================
