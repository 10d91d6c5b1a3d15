------------------------ MODULE WatchDeliveryProofs ------------------------
(***************************************************************************)
(* The replica's part of the invariant of WatchDelivery, and its theorems: *)
(* for any number of documents, commits, passes and losses, with failed    *)
(* passes, failed sends, evaluations that fail, and calls that change the  *)
(* watches meanwhile.                                                      *)
(*                                                                         *)
(* A step is followed through what the replica will hold (Reaches). A      *)
(* frame received leaves it, since a document that a frame drops is added  *)
(* again behind it (WatchInv). A frame sent brings what the cache says, or *)
(* leaves it to the marker of the commit that elided it. So no step lowers *)
(* what the replica will hold of a document the client counts on (Point),  *)
(* and the floors of the commits, the settled commits and the values       *)
(* follow.                                                                 *)
(***************************************************************************)
EXTENDS WatchDeliveryFacts

(* What the replica holds of a document after a frame.                     *)
LEMMA AbsorbRaises ==
  ASSUME Types, ValueInv, NotBoth, NEW f \in Syncs, NEW k \in DOMAIN down, f = down[k], Absorb(f),
         NEW d \in Docs
  PROVE  /\ ~Drops(f, d) => held'[d].seq >= held[d].seq
         /\ \A s \in Nat : Raises(f, d, s) => held'[d].seq >= s
         /\ held' \in [Docs -> Record] /\ held \in [Docs -> Record]
<1>1. PICK h : /\ Brought(f, h)
               /\ held' = Promoted(h, mine, {n \in DOMAIN mine : n <= marker' /\ mine[n].at = "parked" /\ mine[n].ok})
  BY AbsorbEffect
<1>2. /\ h \in [Docs -> Record] /\ held \in [Docs -> Record] /\ held' \in [Docs -> Record]
      /\ mine \in Seq(Own) /\ f \in DownFrame
  BY <1>1, AbsorbEffect DEF Brought, Types, DownFrame
<1>3. held'[d].seq >= h[d].seq
  BY <1>1, <1>2, PromotedFacts
<1>4. held[d].seq \in Nat /\ h[d].seq \in Nat /\ held'[d].seq \in Nat
  BY <1>2 DEF Record
<1>5. /\ \A s \in Nat : Raises(f, d, s) => f.ups[d] \in Nat /\ f.ups[d] >= s /\ Raises(f, d, 0)
      /\ \A s, t \in Nat : Raises(f, d, t) /\ s <= t => Raises(f, d, s)
  BY <1>2, FrameFacts
<1>6. ~Drops(f, d) => h[d].seq >= held[d].seq
  <2>1. CASE ~Drops(f, d) /\ Raises(f, d, held[d].seq)
    <3>1. h[d].seq = f.ups[d]
      BY <1>1, <2>1 DEF Brought
    <3> QED BY <1>4, <1>5, <2>1, <3>1
  <2>2. CASE ~Drops(f, d) /\ ~Raises(f, d, held[d].seq)
    <3>1. h[d] = held[d]
      BY <1>1, <2>2 DEF Brought
    <3> QED BY <1>4, <3>1
  <2> QED BY <2>1, <2>2
<1>7. ASSUME NEW s \in Nat, Raises(f, d, s) PROVE h[d].seq >= s
  <2>1. ~Drops(f, d)
    BY <1>5, <1>7 DEF NotBoth
  <2>2. CASE Raises(f, d, held[d].seq)
    <3>1. h[d].seq = f.ups[d]
      BY <1>1, <2>1, <2>2 DEF Brought
    <3> QED BY <1>5, <1>7, <3>1
  <2>3. CASE ~Raises(f, d, held[d].seq)
    <3>1. h[d] = held[d]
      BY <1>1, <2>1, <2>3 DEF Brought
    <3>2. ~(held[d].seq <= s)
      BY <1>4, <1>5, <1>7, <2>3
    <3> QED BY <1>4, <3>1, <3>2
  <2> QED BY <2>2, <2>3
<1> QED BY <1>2, <1>3, <1>4, <1>6, <1>7

(* A frame that is received leaves what the replica will hold: it is       *)
(* absorbed, and a commit it settles only adds.                            *)
LEMMA ReachReceived ==
  ASSUME DeliveryInv, Effect \/ CallAnswered \/ Restored \/ Verdict,
         NEW d \in Docs, NEW s \in Nat, NEW k \in 0..End', Reaches(held, down, d, k + 1, s)
  PROVE  Reaches(held', down', d, k, s)
<1>0. Types /\ ValueInv /\ NotBoth /\ OrderInv /\ AnswerInv
  BY WatchParts DEF DeliveryInv
<1>1. down # <<>> /\ down' = Tail(down)
  BY DEF Effect, CallAnswered, Restored, Verdict, Received
<1>2. down \in Seq(DownFrame) /\ held \in [Docs -> Record] /\ End' = End - 1 /\ End = Len(down)
  BY <1>0, <1>1, ReceivedFrames, TypeFacts DEF Types
<1>3. 1 \in DOMAIN down /\ Head(down) = down[1]
  BY <1>0, <1>1, DownHead
<1>4. /\ ~Drops(down[1], d) => held'[d].seq >= held[d].seq
      /\ Raises(down[1], d, s) => held'[d].seq >= s
      /\ held' \in [Docs -> Record]
  <2>1. CASE Verdict
    <3>1. held' = held /\ Head(down).type = "verdict"
      BY <2>1 DEF Verdict
    <3>2. held[d].seq \in Nat
      BY <1>2 DEF Record
    <3> QED BY <1>2, <1>3, <3>1, <3>2 DEF Raises
  <2>2. CASE Effect \/ CallAnswered \/ Restored
    <3>1. Absorb(Head(down)) /\ Head(down).type # "verdict"
      BY <2>2 DEF Effect, CallAnswered, Restored, Received
    <3>2. PICK f \in Syncs : f = down[1] /\ 1 \in DOMAIN down /\ Absorb(f)
      BY <1>0, <1>1, <3>1, DownHead
    <3> QED BY <1>0, <3>2, AbsorbRaises
  <2> QED BY <2>1, <2>2
<1> QED BY <1>1, <1>2, <1>4, ReachAbsorbed

(* A step without a frame leaves what the replica will hold.               *)
LEMMA ReachQuiet ==
  ASSUME DeliveryInv,
         \/ Inner \/ Reconnect \/ Call
         \/ \E x \in Docs : \E op \in {"set", "patch"} : Commit(x, op)
         \/ \E n \in DOMAIN mine : Resolve(n),
         NEW d \in Docs, NEW s \in Nat, NEW k \in 0..End, Reaches(held, down, d, k, s)
  PROVE  Reaches(held', down', d, k, s)
<1>0. Types /\ held \in [Docs -> Record] /\ k \in Nat /\ mine \in Seq(Own)
  BY TypeFacts DEF DeliveryInv, Types
<1>1. CASE held' = held /\ down' = down
  BY <1>1
<1>2. CASE Inner
  BY <1>0, <1>1, <1>2, InnerFacts DEF ClientKept
<1>3. CASE Reconnect \/ Call
  BY <1>1, <1>3 DEF Reconnect, Call
<1>4. ASSUME NEW x \in Docs, NEW op \in {"set", "patch"}, Commit(x, op)
      PROVE  Reaches(held', down', d, k, s)
  BY <1>1, <1>4, Unchanged
<1>5. ASSUME NEW n \in DOMAIN mine, Resolve(n)
      PROVE  Reaches(held', down', d, k, s)
  <2>1. down' = down
    BY <1>5, Unchanged
  <2>2. /\ held' \in [Docs -> Record]
        /\ held' = held \/ held' = Promoted(held, mine, {n})
    BY <1>0, <1>5, ResolveEffect
  <2>3. held'[d].seq >= held[d].seq
    <3>1. held[d].seq \in Nat
      BY <1>0 DEF Record
    <3>2. Promoted(held, mine, {n})[d].seq >= held[d].seq
      BY <1>0, PromotedFacts
    <3> QED BY <2>2, <3>1, <3>2
  <2>4. Reaches(held', down, d, k, s)
    BY <1>0, <2>2, <2>3, ReachHigher
  <2> QED BY <2>1, <2>4
<1> QED BY <1>2, <1>3, <1>4, <1>5

(* What the server sends drops no document watched.                        *)
LEMMA SendStep ==
  ASSUME DeliveryInv, Serve \/ ServerStep
  PROVE  /\ held' = held
         /\ \E f \in DownFrame : /\ Sent(f) \/ down' = down \/ down' = Append(down, f)
                                 /\ \A d \in session'.watches : ~Drops(f, d)
<1>0. Types /\ LogInv /\ OrderInv
  BY DEF DeliveryInv
<1>1. held' = held
  BY Unchanged DEF clientVars, ServerStep
<1>2. CASE Serve
  <2>1. Sent(EffectFrame) \/ down' = down
    BY <1>0, <1>2, ServeEffect
  <2>2. session' = ServedBy.after /\ ServedBy.after.watches = session.watches
        /\ ServedBy.rems \intersect session.watches = {}
    BY <1>0, <1>2, ServeEffect, ServedFacts
  <2>3. EffectFrame \in DownFrame /\ \A d \in session'.watches : ~Drops(EffectFrame, d)
    BY <1>0, <2>2, EffectFrameFacts
  <2> QED BY <1>1, <2>1, <2>3
<1>3. CASE ReceiveCommit
  <2>1. PICK n, ok, seq : CommitServed(n, ok, seq)
    BY <1>0, <1>3, ReceiveCommitEffect
  <2>2. PICK f : f = [type |-> "verdict", id |-> n, ok |-> ok, seq |-> seq]
    OBVIOUS
  <2>3. f \in DownFrame /\ \A d : ~Drops(f, d)
    <3>1. n \in Nat /\ ok \in BOOLEAN /\ seq \in Nat
      BY <1>0, <2>1, TypeFacts DEF CommitServed
    <3> QED BY <2>2, <3>1 DEF DownFrame, Verdicts, Drops
  <2>4. Sent(f)
    BY <2>1, <2>2 DEF CommitServed, Sent
  <2> QED BY <1>1, <2>3, <2>4
<1>4. CASE ReceiveAdd
  <2>1. PICK d, f : AddServed(d, f)
    BY <1>0, <1>4, ReceiveAddEffect
  <2>2. f \in DownFrame /\ Sent(f) /\ \A x : ~Drops(f, x)
    BY <2>1 DEF AddServed
  <2> QED BY <1>1, <2>2
<1>5. CASE ReceiveSet
  <2>1. PICK ws, f : SetServed(ws, f)
    BY <1>0, <1>5, ReceiveSetEffect
  <2>2. f \in DownFrame /\ Sent(f) /\ \A x \in session'.watches : ~Drops(f, x)
    BY <2>1 DEF SetServed
  <2> QED BY <1>1, <2>2
<1>6. CASE ReceiveOpen
  <2>1. PICK f : OpenServed(f)
    BY <1>0, <1>6, ReceiveOpenEffect
  <2>2. f \in DownFrame /\ down' = Append(down, f) /\ \A x \in session'.watches : ~Drops(f, x)
    BY <2>1 DEF OpenServed
  <2> QED BY <1>1, <2>2
<1> QED BY <1>2, <1>3, <1>4, <1>5, <1>6 DEF ServerStep

(* What a replica will hold of a watched document, it will still hold after*)
(* a step.                                                                 *)
LEMMA ReachStays ==
  ASSUME DeliveryInv, Next, ~Lose, NEW d \in Docs, d \in session'.watches, NEW s \in Nat,
         Reaches(held, down, d, End, s)
  PROVE  Reaches(held', down', d, End', s)
<1>0. Types /\ down \in Seq(DownFrame) /\ End = Len(down) /\ End \in Nat
  BY TypeFacts DEF DeliveryInv, Types
<1> DEFINE Goal == Reaches(held', down', d, End', s)
<1> SUFFICES Goal
  OBVIOUS
<1>1. CASE Serve \/ ServerStep
  <2>1. PICK f \in DownFrame : /\ Sent(f) \/ down' = down \/ down' = Append(down, f)
                               /\ ~Drops(f, d) /\ held' = held
    BY <1>1, SendStep
  <2>2. CASE down' = down
    <3>1. End' = End
      BY <2>2 DEF End
    <3> QED BY <2>1, <2>2, <3>1
  <2>3. CASE down' = Append(down, f)
    <3>1. End' = Len(down) + 1
      BY <1>0, <2>3 DEF End
    <3>2. Reaches(held, Append(down, f), d, Len(down) + 1, s)
      BY <1>0, <2>1, ReachSent
    <3> QED BY <2>1, <2>3, <3>1, <3>2
  <2> QED BY <2>1, <2>2, <2>3 DEF Sent
<1>2. CASE Effect \/ CallAnswered \/ Restored \/ Verdict
  <2>1. down # <<>> /\ down' = Tail(down)
    BY <1>2 DEF Effect, CallAnswered, Restored, Verdict, Received
  <2>2. End' \in 0..End' /\ End' + 1 = End
    <3>1. End' = End - 1 /\ End \in Nat \ {0}
      BY <1>0, <2>1, ReceivedFrames
    <3> QED BY <3>1
  <2>3. PICK k \in 0..End' : k = End' /\ k + 1 = End
    BY <2>2
  <2>4. Reaches(held', down', d, k, s)
    BY <1>2, <2>3, ReachReceived
  <2> QED BY <2>3, <2>4
<1>3. CASE \/ Inner \/ Reconnect \/ Call
           \/ \E x \in Docs : \E op \in {"set", "patch"} : Commit(x, op)
           \/ \E n \in DOMAIN mine : Resolve(n)
  <2>1. down' = down
    <3>1. CASE Inner
      BY <1>0, <3>1, InnerFacts DEF ClientKept
    <3>2. CASE ~Inner
      BY <1>3, <3>2 DEF Reconnect, Call, Commit, Resolve, Settle, RepairTimesOut
    <3> QED BY <3>1, <3>2
  <2>2. End' = End
    BY <2>1 DEF End
  <2>3. End \in 0..End
    BY <1>0
  <2>4. Reaches(held', down', d, End, s)
    BY <1>3, <2>3, ReachQuiet
  <2> QED BY <2>2, <2>4
<1> HIDE DEF Goal
<1> QED BY <1>1, <1>2, <1>3 DEF Next, Inner

(* What a sent frame raises, the replica will hold.                        *)
LEMMA ReachRaised ==
  ASSUME Types, NEW f \in DownFrame, down' = Append(down, f), held' = held,
         NEW d \in Docs, NEW s \in Nat, Raises(f, d, s)
  PROVE  Reaches(held', down', d, End', s)
<1>1. down \in Seq(DownFrame)
  BY DEF Types
<1>2. End' = Len(down) + 1
  BY <1>1 DEF End
<1>3. Reaches(held, Append(down, f), d, Len(down) + 1, s)
  BY <1>1, ReachSent
<1> QED BY <1>2, <1>3

(* The steps that leave the cache, but for what an evaluation makes of it. *)
Mild == Inner \/ Outer \/ Serve \/ ReceiveCommit \/ ReceiveAdd

(* The steps that keep or extend the watches, and the two that set them    *)
(* anew.                                                                   *)
LEMMA MildSteps == (Mild => Next) /\ (Next => Mild \/ ReceiveSet \/ ReceiveOpen)
<1>1. Mild => Next
  BY DEF Mild, Inner, Outer, Next, ServerStep
<1>2. Next => Mild \/ ReceiveSet \/ ReceiveOpen
  BY DEF Mild, Inner, Outer, Next, ServerStep
<1> QED BY <1>1, <1>2

(* The sets of the session the client can do without a frame for.          *)
ElidedBy(n) == MarkReached(n) \/ due \/ Unserved \/ session.force

(* An elided commit stays elided until its marker has come.                *)
LEMMA ElidedStays ==
  ASSUME DeliveryInv, Mild, Live', ~Lose, NEW n \in 1..Top, ElidedBy(n)
  PROVE  ElidedBy(n)'
<1>0. Types /\ LogInv /\ OrderInv /\ Top \in Nat /\ n \in Nat /\ Next
  BY TypeFacts, MildSteps DEF DeliveryInv
<1>1. CASE MarkReached(n)
  BY <1>0, <1>1, MarkStays DEF ElidedBy
<1>2. ASSUME due \/ Unserved \/ session.force PROVE ElidedBy(n)'
  <2>1. CASE Serve
    <3>1. Top' = Top /\ session'.caught = Top /\ session'.owed <= Top
      <4>1. Top' = Top
        BY <1>0, <2>1, TopKept DEF Serve, ReceiveCommit, Serving
      <4>2. session'.caught = Top
        BY <1>0, <2>1, ServeEffect, ServedFacts
      <4>3. session'.owed <= Top
        <5>1. session.owed \in Nat /\ session.owed <= Top
          BY <1>0, TypeFacts
        <5>2. session'.owed = 0 \/ session'.owed = session.owed
          BY <1>0, <2>1, ServeEffect, ServedFacts
        <5> QED BY <1>0, <5>1, <5>2
      <4> QED BY <4>1, <4>2, <4>3
    <3>2. MarkDue'
      BY <1>0, MarkDueStep
    <3>3. PICK c \in Nat : c = session'.caught
      BY <1>0, <3>1
    <3>4. MarkReached(c)'
      <4>1. ~(session'.owed > session'.caught)
        <5>1. session'.owed \in Nat
          BY <1>0, TypesStep DEF Types, State
        <5> QED BY <1>0, <3>1, <5>1
      <4> QED BY <3>2, <3>3, <4>1 DEF MarkDue, MarkReached
    <3>5. MarkReached(n)'
      <4>1. n <= c
        BY <1>0, <3>1, <3>3
      <4>2. marker' \in Nat /\ \A k \in DOMAIN down' : MarkIn(down'[k]) \in Nat
        <5>1. marker' \in Nat /\ \A k \in DOMAIN down' : down'[k] \in DownFrame
          BY <1>0, TypesStep DEF Types
        <5> QED BY <5>1, FrameFacts
      <4>3. (marker' >= c) => (marker' >= n)
        BY <1>0, <3>3, <4>1, <4>2
      <4>4. \A k \in DOMAIN down' : MarkIn(down'[k]) >= c => MarkIn(down'[k]) >= n
        BY <1>0, <3>3, <4>1, <4>2
      <4> QED BY <3>4, <4>3, <4>4 DEF MarkReached, MarkIn
    <3> QED BY <3>5 DEF ElidedBy
  <2>2. CASE StartPass
    BY <2>2 DEF StartPass, ElidedBy, Unserved
  <2>3. CASE EvaluationFails
    <3>1. session'.force = TRUE
      BY <1>0, <2>3 DEF EvaluationFails, Types, State
    <3> QED BY <3>1 DEF ElidedBy
  <2>4. CASE SendFails
    BY <1>0, <2>4, SendFailsEffect DEF ElidedBy
  <2>5. CASE FailPass
    BY <1>0, <2>5, FailPassEffect DEF ElidedBy
  <2>6. CASE EndPass
    <3>1. session' = session /\ due' = due /\ ~Unserved
      BY <2>6 DEF EndPass, dirtyVars, Live, Unserved
    <3> QED BY <1>2, <3>1 DEF ElidedBy
  <2>7. CASE Detach
    BY <2>7 DEF Detach, Live
  <2>8. ASSUME NEW d \in Docs, ForeignCommit(d) PROVE ElidedBy(n)'
    BY <1>0, <2>8, ForeignCommitEffect DEF ElidedBy
  <2>9. CASE ReceiveCommit
    BY <1>0, <2>9, ReceiveCommitEffect DEF ElidedBy, CommitServed
  <2>10. CASE ReceiveAdd
    <3>1. due' = due /\ pass' = pass
      BY <2>10, Unchanged DEF dirtyVars
    <3>2. session'.force = session.force
      BY <1>0, <2>10, ReceiveAddEffect DEF AddServed
    <3> QED BY <1>2, <3>1, <3>2 DEF ElidedBy, Unserved
  <2>11. CASE Outer
    BY <1>2, <2>11, OuterFacts DEF ElidedBy, Unserved
  <2> QED BY <2>1, <2>2, <2>3, <2>4, <2>5, <2>6, <2>7, <2>8, <2>9, <2>10, <2>11
             DEF Mild, Inner
<1> QED BY <1>1, <1>2 DEF ElidedBy

(* A set whose marker is due is elided.                                    *)
LEMMA OwnElided ==
  ASSUME DeliveryInv, Mild, Live', ~Lose,
         NEW d, NEW q \in Nat, NEW n, OwnSet(n, d, q), ElidedBy(n) \/ ElidedBy(n)'
  PROVE  Elided(d, q)'
<1>1. OwnSet(n, d, q)' /\ n \in 1..Top
  BY OwnSetStays, MildSteps
<1>2. ElidedBy(n)'
  BY <1>1, ElidedStays
<1> QED BY <1>1, <1>2 DEF Elided, ElidedBy

(* A document of the cache is at the client, on its way, or elided.        *)
CachedHeld == \A d \in session.watches :
  session.cached[d] > 0 =>
    Reaches(held, down, d, End, session.cached[d]) \/ Elided(d, session.cached[d])

(* What the cache had is still held, in flight or elided.                  *)
LEMMA CachedStays ==
  ASSUME DeliveryInv, Mild, Live, Live', ~Lose,
         NEW d \in session.watches, d \in session'.watches, NEW q \in Nat, q > 0, q = session.cached[d]
  PROVE  Reaches(held', down', d, End', q) \/ Elided(d, q)'
<1>0. Types /\ CacheInv /\ d \in Docs
  BY DEF DeliveryInv, Types, State
<1>1. Reaches(held, down, d, End, q) \/ Elided(d, q)
  BY <1>0 DEF CacheInv
<1>2. CASE Reaches(held, down, d, End, q)
  BY <1>0, <1>2, ReachStays, MildSteps
<1>3. CASE Elided(d, q)
  <2>1. PICK n : OwnSet(n, d, q) /\ ElidedBy(n)
    BY <1>3 DEF Elided, ElidedBy
  <2> QED BY <2>1, OwnElided
<1> QED BY <1>1, <1>2, <1>3

(* After an open the replica will hold the head of every watched document: *)
(* it is in the answer, or the client said it had it.                      *)
LEMMA OpenHeld ==
  ASSUME DeliveryInv, ReceiveOpen, NEW d \in session.watches
  PROVE  Reaches(held', down', d, End', HeadSeq(d)) /\ session'.cached[d] = HeadSeq(d)
<1>0. Types /\ LinkInv /\ ValueInv /\ d \in Docs /\ held' = held
  BY Unchanged DEF DeliveryInv, Types, State, clientVars
<1>1. PICK f : OpenServed(f)
  BY <1>0, ReceiveOpenEffect
<1>2. /\ up # <<>> /\ up[1].type = "open"
      /\ f \in DownFrame /\ down' = Append(down, f) /\ ~Drops(f, d)
      /\ up[1].holdings[d] # HeadSeq(d) => Raises(f, d, HeadSeq(d))
      /\ session'.cached[d] = HeadSeq(d)
  <2>1. HeadSeq(d) >= HeadSeq(d)
    BY <1>0, HeadFacts
  <2> QED BY <1>1, <2>1 DEF OpenServed
<1>3. down = <<>> /\ up[1].holdings = delivered
  BY <1>0, <1>2, Connected
<1>4. HeadSeq(d) \in Nat
  BY <1>0, HeadFacts
<1>5. CASE Raises(f, d, HeadSeq(d))
  BY <1>0, <1>2, <1>4, <1>5, ReachRaised
<1>6. CASE delivered[d] = HeadSeq(d)
  <2>1. held[d].seq >= HeadSeq(d)
    <3>1. held[d].seq \in Nat /\ delivered[d] <= held[d].seq
      BY <1>0 DEF Types, Record, ValueInv
    <3> QED BY <1>4, <1>6, <3>1
  <2>2. down' = <<f>> /\ End' = 1
    BY <1>2, <1>3 DEF End
  <2>3. \A j \in 1..End' : ~Drops(down'[j], d)
    BY <1>2, <2>2
  <2>4. Reaches(held', down', d, End', HeadSeq(d))
    BY <1>0, <2>1, <2>3 DEF Reaches
  <2> QED BY <1>2, <2>4
<1>7. PICK o : o = up[1].holdings
  OBVIOUS
<1>8. o[d] # HeadSeq(d) => Raises(f, d, HeadSeq(d))
  BY <1>2, <1>7
<1>9. o = delivered
  BY <1>3, <1>7
<1> QED BY <1>5, <1>6, <1>8, <1>9

(* A session whose evaluation has not been for a document holds its head.  *)
LEMMA ServedCache ==
  ASSUME DeliveryInv, Mild, Live, Live', ~Lose, Serving,
         NEW d \in session.watches, d \in session'.watches, d \notin ServedBy.ups,
         NEW q \in Nat, q > 0, q = ServedBy.after.cached[d]
  PROVE  Reaches(held', down', d, End', q) \/ Elided(d, q)'
<1>0. Types /\ OriginInv /\ d \in Docs
  BY DEF DeliveryInv, Types, State
<1>1. CASE q = session.cached[d]
  BY <1>1, CachedStays
<1>2. CASE q = HeadSeq(d) /\ HeldByWriter(pass.origin, d)
  <2>1. pass.origin[d].op = "set" /\ pass.origin[d].seq = q
    BY <1>2 DEF HeldByWriter
  <2>2. PICK n : OwnSet(n, d, q)
    BY <1>0, <2>1 DEF OriginInv
  <2>3. ElidedBy(n)
    BY DEF Serving, ElidedBy, Unserved
  <2> QED BY <2>2, <2>3, OwnElided
<1> QED BY <1>0, <1>1, <1>2, ServedFacts

(* A connection is live after a step that did not lose it.                 *)
LEMMA LiveBefore ==
  ASSUME DeliveryInv, Next, Live'
  PROVE  ~Lose /\ (Mild \/ ReceiveSet => Live)
<1>0. Types
  BY DEF DeliveryInv
<1>1. ~Lose
  BY DEF Lose, Live
<1>2. Outer => Live
  BY OuterFacts
<1>3. Inner => Live
  BY <1>0, InnerFacts
<1>4. Serve \/ ReceiveCommit \/ ReceiveAdd \/ ReceiveSet => Live
  BY Unchanged DEF Live
<1> QED BY <1>1, <1>2, <1>3, <1>4 DEF Mild

(* Every step keeps what the cache says was sent.                          *)
LEMMA CachedHeldStep ==
  ASSUME DeliveryInv, Next, Live', NEW d \in session'.watches, NEW q \in Nat, q > 0,
         q = session'.cached[d]
  PROVE  Reaches(held', down', d, End', q) \/ Elided(d, q)'
<1>0. Types /\ LinkInv /\ LogInv /\ OrderInv /\ AnswerInv /\ ValueInv /\ WatchInv
  BY DEF DeliveryInv
<1>00. ~Lose /\ (Mild \/ ReceiveSet => Live)
  BY LiveBefore
<1>01. d \in Docs
  <2>1. session' \in State
    BY TypesStep DEF Types
  <2> QED BY <2>1 DEF State
<1>02. HeadSeq(d) \in Nat /\ HeadSeq(d) >= 1 /\ down \in Seq(DownFrame)
  BY <1>0, <1>01, HeadFacts DEF Types
<1> DEFINE Goal == Reaches(held', down', d, End', q) \/ Elided(d, q)'
<1> SUFFICES Goal
  OBVIOUS
<1> HIDE DEF Goal
<1>1. ASSUME Mild, d \in session.watches, q = session.cached[d] PROVE Goal
  BY <1>00, <1>1, CachedStays DEF Goal
<1>3. CASE Inner /\ ~EvaluationFails /\ ~SendFails
  <2>1. session' = session
    BY <1>3 DEF Inner, ForeignCommit, StartPass, EndPass, FailPass, Detach
  <2> QED BY <1>1, <1>3, <2>1 DEF Mild
<1>4. CASE Outer
  <2>1. session' = session
    BY <1>4, OuterFacts
  <2> QED BY <1>1, <1>4, <2>1 DEF Mild
<1>5. CASE EvaluationFails
  <2>1. session'.cached = session.cached /\ session'.watches = session.watches
    BY <1>0, <1>5 DEF EvaluationFails, Types, State
  <2> QED BY <1>1, <1>5, <2>1 DEF Mild, Inner
<1>6. CASE SendFails
  <2>1. /\ session'.watches = session.watches
        /\ \A x \in ServedBy.ups : session'.cached[x] = Nothing
        /\ \A x \in Docs : x \notin ServedBy.ups /\ x \notin ServedBy.rems =>
                              session'.cached[x] = ServedBy.after.cached[x]
    BY <1>0, <1>6, SendFailsEffect
  <2>2. d \notin ServedBy.rems
    BY <1>0, <2>1, ServedFacts
  <2>3. d \notin ServedBy.ups
    BY <2>1 DEF Nothing
  <2>4. q = ServedBy.after.cached[d]
    BY <1>01, <2>1, <2>2, <2>3
  <2>5. Serving /\ Mild
    BY <1>6 DEF SendFails, Mild, Inner
  <2> QED BY <1>00, <2>1, <2>3, <2>4, <2>5, ServedCache DEF Goal
<1>7. CASE Serve
  <2>1. /\ session' = ServedBy.after /\ session'.watches = session.watches
        /\ ~Empty(ServedBy) => Sent(EffectFrame)
    BY <1>0, <1>7, ServeEffect, ServedFacts
  <2>2. CASE d \in ServedBy.ups
    <3>1. q = HeadSeq(d) /\ Sent(EffectFrame)
      BY <1>0, <2>1, <2>2, ServedFacts DEF Empty
    <3>2. down' = Append(down, EffectFrame) /\ held' = held
      BY <1>00, <1>7, <3>1, Unchanged DEF Sent, Mild, Live, clientVars
    <3>3. EffectFrame \in DownFrame /\ Raises(EffectFrame, d, q)
      BY <1>0, <1>02, <2>2, <3>1, EffectFrameFacts
    <3> QED BY <1>0, <1>01, <3>2, <3>3, ReachRaised DEF Goal
  <2>3. CASE d \notin ServedBy.ups
    <3>1. Serving /\ Mild
      BY <1>7 DEF Serve, Mild
    <3> QED BY <1>00, <2>1, <2>3, <3>1, ServedCache DEF Goal
  <2> QED BY <2>2, <2>3
<1>8. CASE ReceiveCommit
  <2>1. session'.cached = session.cached /\ session'.watches = session.watches
    BY <1>0, <1>8, ReceiveCommitEffect DEF CommitServed
  <2> QED BY <1>1, <1>8, <2>1 DEF Mild
<1>9. CASE ReceiveAdd
  <2>1. PICK x, f : AddServed(x, f)
    BY <1>0, <1>9, ReceiveAddEffect
  <2>2. CASE d \in session.watches
    <3>1. session'.cached[d] = session.cached[d]
      BY <1>01, <2>1, <2>2 DEF AddServed
    <3> QED BY <1>1, <1>9, <2>2, <3>1 DEF Mild
  <2>3. CASE d \notin session.watches
    <3>1. d = x /\ q = HeadSeq(d)
      BY <1>01, <2>1, <2>3 DEF AddServed
    <3>2. session.cached[d] # HeadSeq(d)
      <4>1. session.cached[d] \in {Nothing, 0}
        BY <1>0, <1>01, <2>3 DEF WatchInv
      <4> QED BY <1>02, <4>1 DEF Nothing
    <3>3. f \in DownFrame /\ Sent(f) /\ Raises(f, d, q)
      BY <1>02, <2>1, <2>3, <3>1, <3>2 DEF AddServed
    <3>4. down' = Append(down, f) /\ held' = held
      BY <1>00, <1>9, <3>3, Unchanged DEF Sent, Mild, Live, clientVars
    <3> QED BY <1>0, <1>01, <3>3, <3>4, ReachRaised DEF Goal
  <2> QED BY <2>2, <2>3
<1>10. CASE ReceiveSet
  <2>1. PICK ws, f : SetServed(ws, f)
    BY <1>0, <1>10, ReceiveSetEffect
  <2>2. q = HeadSeq(d) /\ f \in DownFrame /\ Sent(f) /\ Raises(f, d, q)
    BY <1>02, <2>1 DEF SetServed
  <2>3. down' = Append(down, f) /\ held' = held
    BY <1>00, <1>10, <2>2, Unchanged DEF Sent, Live, clientVars
  <2> QED BY <1>0, <1>01, <2>2, <2>3, ReachRaised DEF Goal
<1>11. CASE ReceiveOpen
  <2>1. session'.watches = session.watches
    BY <1>0, <1>11, ReceiveOpenEffect DEF OpenServed
  <2> QED BY <1>11, <2>1, OpenHeld DEF Goal
<1> QED BY <1>3, <1>4, <1>5, <1>6, <1>7, <1>8, <1>9, <1>10, <1>11
           DEF Next, Outer, Inner, ServerStep

(* A watched document whose head the cache misses is on its way.           *)
Missed(d) == session.force \/ d \in dirty \/ (Unserved /\ d \in pass.docs)
NoneMissed == \A d \in session.watches : session.cached[d] # HeadSeq(d) => Missed(d)

(* What an evaluation leaves of the cache.                                 *)
LEMMA ServedMisses ==
  ASSUME Types, CacheInv, Live, Serving, NEW d \in session.watches
  PROVE  d \notin dirty => ServedBy.after.cached[d] = HeadSeq(d)
<1>0. d \in Docs
  BY DEF Types, State
<1>1. CASE session.force \/ d \in pass.docs
  BY <1>1, ServedFacts
<1>2. CASE d \notin dirty /\ ~session.force /\ d \notin pass.docs
  <2>1. session.cached[d] = HeadSeq(d)
    BY <1>0, <1>2 DEF CacheInv
  <2> QED BY <2>1, ServedFacts
<1> QED BY <1>1, <1>2

(* Every step keeps a document that is behind its head dirty, or in the    *)
(* pass.                                                                   *)
LEMMA NoneMissedStep ==
  ASSUME DeliveryInv, Next, Live', NEW d \in Docs, d \in session'.watches,
         session'.cached[d] # HeadSeq(d)'
  PROVE  Missed(d)'
<1>0. Types /\ LogInv /\ OrderInv /\ WatchInv /\ CacheInv
  BY DEF DeliveryInv
<1>00. ~Lose /\ (Mild \/ ReceiveSet => Live)
  BY LiveBefore
<1>01. log' = log => \A x \in Docs : HeadSeq(x)' = HeadSeq(x)
  BY <1>0, SameLog
<1> DEFINE Goal == Missed(d)'
<1> SUFFICES Goal
  OBVIOUS
<1> HIDE DEF Goal
<1>1. ASSUME Live, log' = log, session'.cached[d] = session.cached[d], d \in session.watches,
             Missed(d) => Missed(d)'
      PROVE  Goal
  BY <1>0, <1>01, <1>1 DEF CacheInv, Missed, Goal
<1>2. CASE Outer
  <2>1. UNCHANGED <<log, due, dirty, origin, pass, session, skipped>> /\ Live
    BY <1>2, OuterFacts
  <2> QED BY <1>1, <2>1 DEF Missed, Unserved
<1>3. ASSUME NEW e \in Entry, log' = Append(log, e), dirty' = dirty \union {e.doc},
             session'.cached = session.cached, session'.watches = session.watches,
             session'.force = session.force, pass' = pass, Live
      PROVE  Goal
  <2>1. CASE d = e.doc
    BY <1>3, <2>1 DEF Goal, Missed
  <2>2. CASE d # e.doc
    <3>1. HeadSeq(d)' = HeadSeq(d)
      BY <1>0, <1>3, <2>2, HeadGrows
    <3>2. Missed(d)
      BY <1>0, <1>3, <3>1 DEF CacheInv, Missed
    <3> QED BY <1>3, <3>2 DEF Goal, Missed, Unserved
  <2> QED BY <2>1, <2>2
<1>4. ASSUME NEW x \in Docs, ForeignCommit(x) PROVE Goal
  <2>1. PICK e \in Entry : log' = Append(log, e) /\ e.doc = x /\ dirty' = dirty \union {x}
    BY <1>0, <1>4, ForeignCommitEffect
  <2>2. session' = session /\ pass' = pass /\ Live
    BY <1>4, Unchanged DEF Live
  <2> QED BY <1>3, <2>1, <2>2
<1>5. CASE ReceiveCommit
  <2>1. PICK n, ok, seq : CommitServed(n, ok, seq)
    BY <1>0, <1>5, ReceiveCommitEffect
  <2>2. /\ pass' = pass /\ Live /\ dirty' = dirty \union {mine[n].doc}
        /\ session'.cached = session.cached /\ session'.watches = session.watches
        /\ session'.force = session.force
    BY <1>00, <1>5, <2>1, Unchanged DEF CommitServed, Mild
  <2>3. CASE log' = log
    <3>1. Missed(d) => Missed(d)'
      BY <2>2 DEF Missed, Unserved
    <3> QED BY <1>1, <2>2, <2>3, <3>1
  <2>4. ASSUME NEW e, Accepted(n, e) PROVE Goal
    <3>1. e \in Entry /\ log' = Append(log, e) /\ e.doc = mine[n].doc
      BY <2>4 DEF Accepted
    <3> QED BY <1>3, <2>2, <3>1
  <2> QED BY <2>1, <2>3, <2>4 DEF CommitServed, Answered, Refused
<1>6. CASE StartPass
  <2>1. /\ log' = log /\ session' = session /\ dirty' = {} /\ pass'.on /\ ~pass'.served
        /\ pass'.docs = dirty /\ ~pass.on /\ Live
    BY <1>6 DEF StartPass, Live
  <2>2. Missed(d) => Missed(d)'
    BY <2>1 DEF Missed, Unserved
  <2> QED BY <1>1, <2>1, <2>2
<1>7. CASE EvaluationFails
  <2>1. session'.force = TRUE
    BY <1>0, <1>7 DEF EvaluationFails, Types, State
  <2> QED BY <2>1 DEF Goal, Missed
<1>8. CASE EndPass
  <2>1. log' = log /\ session' = session /\ dirty' = dirty /\ ~Unserved /\ Live
    BY <1>8 DEF EndPass, dirtyVars, Live, Unserved
  <2>2. Missed(d) => Missed(d)'
    BY <2>1 DEF Missed
  <2> QED BY <1>1, <2>1, <2>2
<1>9. CASE FailPass
  <2>1. log' = log /\ session' = session /\ dirty' = dirty \union pass.docs /\ Live
    BY <1>0, <1>9, FailPassEffect DEF FailPass, Live
  <2>2. Missed(d) => Missed(d)'
    BY <2>1 DEF Missed
  <2> QED BY <1>1, <2>1, <2>2
<1>10. CASE Detach
  BY <1>10 DEF Detach, Live
<1>11. CASE SendFails
  <2>1. /\ session'.watches = session.watches
        /\ \A x \in Docs : x \notin ServedBy.ups /\ x \notin ServedBy.rems =>
                              session'.cached[x] = ServedBy.after.cached[x]
        /\ dirty' = dirty \union (ServedBy.ups \union ServedBy.rems)
    BY <1>0, <1>11, SendFailsEffect
  <2>2. log' = log /\ Serving /\ Live
    BY <1>00, <1>11, Unchanged DEF SendFails, Mild, Inner
  <2>3. CASE d \in dirty'
    BY <2>3 DEF Goal, Missed
  <2>4. CASE d \notin dirty'
    <3>1. session'.cached[d] = ServedBy.after.cached[d] /\ d \notin dirty
      BY <2>1, <2>4
    <3>2. session'.cached[d] = HeadSeq(d)
      BY <1>0, <2>1, <2>2, <3>1, ServedMisses
    <3> QED BY <1>01, <2>2, <3>2
  <2> QED BY <2>3, <2>4
<1>12. CASE Serve
  <2>1. session' = ServedBy.after /\ ServedBy.after.watches = session.watches
    BY <1>0, <1>12, ServeEffect, ServedFacts
  <2>2. log' = log /\ dirty' = dirty /\ Serving /\ Live
    BY <1>00, <1>12, Unchanged DEF Serve, Mild, dirtyVars
  <2>3. CASE d \in dirty
    BY <2>2, <2>3 DEF Goal, Missed
  <2>4. CASE d \notin dirty
    <3>1. session'.cached[d] = HeadSeq(d)
      BY <1>0, <2>1, <2>2, <2>4, ServedMisses
    <3> QED BY <1>01, <2>2, <3>1
  <2> QED BY <2>3, <2>4
<1>13. CASE ReceiveAdd
  <2>1. PICK x, f : AddServed(x, f)
    BY <1>0, <1>13, ReceiveAddEffect
  <2>2. UNCHANGED <<log, dirty, pass>> /\ Live /\ session'.force = session.force
    BY <1>00, <1>13, <2>1, Unchanged DEF dirtyVars, AddServed, Mild
  <2>3. CASE d \in session.watches
    <3>1. session'.cached[d] = session.cached[d]
      BY <2>1, <2>3 DEF AddServed
    <3>2. Missed(d) => Missed(d)'
      BY <2>2 DEF Missed, Unserved
    <3> QED BY <1>1, <2>2, <2>3, <3>1, <3>2
  <2>4. CASE d \notin session.watches
    <3>1. session'.cached[d] = HeadSeq(d)
      BY <2>1, <2>4 DEF AddServed
    <3> QED BY <1>01, <2>2, <3>1
  <2> QED BY <2>3, <2>4
<1>14. CASE ReceiveSet
  <2>1. session'.cached[d] = HeadSeq(d)
    BY <1>0, <1>14, ReceiveSetEffect DEF SetServed
  <2>2. log' = log
    BY <1>14, Unchanged
  <2> QED BY <1>01, <2>1, <2>2
<1>15. CASE ReceiveOpen
  <2>1. session'.watches = session.watches
    BY <1>0, <1>15, ReceiveOpenEffect DEF OpenServed
  <2>2. session'.cached[d] = HeadSeq(d)
    BY <1>15, <2>1, OpenHeld
  <2>3. log' = log
    BY <1>15, Unchanged
  <2> QED BY <1>01, <2>2, <2>3
<1> QED BY <1>2, <1>4, <1>5, <1>6, <1>7, <1>8, <1>9, <1>10, <1>11, <1>12, <1>13, <1>14,
           <1>15 DEF Next, Outer, ServerStep

(* Every step keeps the cache at or below the heads.                       *)
LEMMA CachedSeqStep ==
  ASSUME DeliveryInv, Next, NEW d \in Docs
  PROVE  session'.cached[d] \in Nothing..HeadSeq(d)'
<1>0. Types /\ LogInv /\ OrderInv /\ CacheInv
  BY DEF DeliveryInv
<1>1. /\ HeadSeq(d) \in Nat /\ HeadSeq(d) >= 1 /\ HeadSeq(d) <= HeadSeq(d)' /\ HeadSeq(d)' \in Nat
  <2>1. HeadSeq(d) \in Nat /\ HeadSeq(d) >= 1
    BY <1>0, HeadFacts
  <2>2. HeadSeq(d) <= HeadSeq(d)'
    BY <1>0, LogStep DEF Grown
  <2>3. HeadsTyped'
    BY TypesStep, HeadNat, PTL
  <2> QED BY <2>1, <2>2, <2>3 DEF HeadsTyped
<1>2. session.cached[d] \in Nothing..HeadSeq(d)
  BY <1>0 DEF CacheInv
<1> DEFINE Goal == session'.cached[d] \in {session.cached[d], Nothing, 0, HeadSeq(d)}
<1>3. SUFFICES Goal
  BY <1>1, <1>2 DEF Nothing
<1> HIDE DEF Goal
<1>4. CASE session' = session
  BY <1>4 DEF Goal
<1>5. CASE Outer
  BY <1>4, <1>5, OuterFacts
<1>6. CASE Inner /\ ~EvaluationFails /\ ~SendFails
  BY <1>4, <1>6 DEF Inner, ForeignCommit, StartPass, EndPass, FailPass, Detach
<1>7. CASE EvaluationFails
  BY <1>0, <1>7 DEF EvaluationFails, Types, State, Goal
<1>8. ServedBy.after.cached[d] \in {session.cached[d], Nothing, HeadSeq(d)}
  <2>1. CASE d \in session.watches
    BY <1>0, <2>1, ServedFacts
  <2>2. CASE d \notin session.watches
    BY <1>0, <2>2, ServedFacts
  <2> QED BY <2>1, <2>2
<1>9. CASE SendFails
  BY <1>0, <1>8, <1>9, SendFailsEffect DEF Goal
<1>10. CASE Serve
  BY <1>0, <1>8, <1>10, ServeEffect DEF Goal
<1>11. CASE ReceiveCommit
  BY <1>0, <1>11, ReceiveCommitEffect DEF CommitServed, Goal
<1>12. CASE ReceiveAdd
  BY <1>0, <1>12, ReceiveAddEffect DEF AddServed, Goal
<1>13. CASE ReceiveSet
  BY <1>0, <1>13, ReceiveSetEffect DEF SetServed, Goal
<1>14. CASE ReceiveOpen
  BY <1>0, <1>14, ReceiveOpenEffect DEF OpenServed, Goal
<1> QED BY <1>5, <1>6, <1>7, <1>9, <1>10, <1>11, <1>12, <1>13, <1>14
           DEF Next, Outer, Inner, ServerStep

(* Every step keeps the cache.                                             *)
LEMMA CacheStep == ASSUME DeliveryInv, Next PROVE CacheInv'
<1>1. \A d \in Docs : session'.cached[d] \in Nothing..HeadSeq(d)'
  BY CachedSeqStep
<1>2. session' \in State
  BY TypesStep DEF Types
<1>3. ASSUME Live', NEW d \in session'.watches, session'.cached[d] > 0
      PROVE  Reaches(held, down, d, End, session.cached[d])' \/ Elided(d, session.cached[d])'
  <2>1. PICK q \in Nat : q = session'.cached[d] /\ q > 0
    BY <1>2, <1>3 DEF State
  <2>2. Reaches(held', down', d, End', q) \/ Elided(d, q)'
    BY <1>3, <2>1, CachedHeldStep
  <2> QED BY <2>1, <2>2 DEF Elided, OwnSet, RecordedAs
<1>4. ASSUME Live', NEW d \in session'.watches, session'.cached[d] # HeadSeq(d)'
      PROVE  Missed(d)'
  <2>1. d \in Docs
    BY <1>2 DEF State
  <2> QED BY <1>4, <2>1, NoneMissedStep
<1>5. Live' => \A d \in session'.watches :
       /\ session'.cached[d] > 0 =>
            Reaches(held, down, d, End, session.cached[d])' \/ Elided(d, session.cached[d])'
       /\ session'.cached[d] # HeadSeq(d)' => Missed(d)'
  BY <1>3, <1>4
<1> QED BY <1>1, <1>5 DEF CacheInv, Missed

(* What a step keeps of a commit that was served.                          *)
LEMMA OldCommit ==
  ASSUME DeliveryInv, Next, NEW n \in 1..Top
  PROVE  /\ n \in DOMAIN mine /\ mine'[n].doc = mine[n].doc /\ mine'[n].op = mine[n].op
         /\ mine'[n].basis = mine[n].basis /\ mine[n].doc \in Docs /\ mine[n].basis \in Nat
         /\ mine[n].at = "done" => mine'[n].at = "done"
         /\ \A f \in Nat : FloorIs(n, f)' <=> FloorIs(n, f)
<1>0. Types /\ LogInv /\ OrderInv /\ AnswerInv /\ ValueInv
  BY DEF DeliveryInv
<1>1. Top \in Nat /\ DOMAIN mine = 1..Len(mine) /\ Len(mine) \in Nat
      /\ \A m \in DOMAIN mine : mine[m] \in Own
  BY <1>0, TypeFacts
<1>2. n \in DOMAIN mine /\ n \in Nat
  BY <1>0, <1>1 DEF OrderInv
<1>3. CoreKept /\ OldRecord(n)
  BY <1>0, CoreStep, LogStep
<1>4. mine[n].doc \in Docs /\ mine[n].basis \in Nat
  BY <1>1, <1>2 DEF Own
<1>5. /\ mine'[n].doc = mine[n].doc /\ mine'[n].op = mine[n].op
      /\ mine'[n].basis = mine[n].basis /\ (mine[n].at = "done" => mine'[n].at = "done")
  BY <1>2, <1>3 DEF CoreKept
<1>6. Recorded(n) \/ refused'[n] = refused[n]
  <2>1. RefusedInv /\ n \in 1..MaxOwn
    BY <1>1, <1>2, BoundsAssumption DEF DeliveryInv, RefusedInv
  <2>2. CASE ReceiveCommit
    <3>1. PICK m, ok, seq : CommitServed(m, ok, seq)
      BY <1>0, <2>2, ReceiveCommitEffect
    <3> QED BY <1>0, <2>1, <2>2, <3>1, RefusalNoted DEF RefusedInv
  <2> QED BY <2>2, QuietRefused
<1>7. ASSUME NEW f \in Nat PROVE FloorIs(n, f)' <=> FloorIs(n, f)
  BY <1>3, <1>5, <1>6 DEF FloorIs, OldRecord
<1> QED BY <1>2, <1>4, <1>5, <1>7

(* A floor is at most the head of its document.                            *)
LEMMA FloorBound ==
  ASSUME Types, LogInv, OrderInv, RefusedInv, NEW n \in 1..Top, NEW f \in Nat, FloorIs(n, f)
  PROVE  f <= HeadSeq(mine[n].doc)
<1>1. Top \in Nat /\ DOMAIN mine = 1..Len(mine) /\ Len(mine) \in Nat
      /\ \A m \in DOMAIN mine : mine[m] \in Own
  BY TypeFacts
<1>2. n \in DOMAIN mine /\ n \in Nat \ {0}
  BY <1>1 DEF OrderInv
<1>3. mine[n].doc \in Docs /\ mine[n].basis \in Nat
  BY <1>1, <1>2 DEF Own
<1>4. HeadSeq(mine[n].doc) \in Nat
  BY <1>3, HeadFacts
<1>5. CASE RecordedAs(n, f)
  BY <1>2, <1>5, RecordFacts
<1>6. CASE mine[n].op = "set" /\ ~Recorded(n) /\ f = refused[n]
  BY <1>6 DEF RefusedInv
<1> QED BY <1>5, <1>6 DEF FloorIs

(* A set of the session at the head settles what the session wrote before. *)
LEMMA NoElided ==
  ASSUME Types, LogInv, OrderInv, RefusedInv, AnswerInv, NEW n \in 1..Top, mine[n].at # "done",
         NEW f \in Nat, FloorIs(n, f), NEW m, OwnSet(m, mine[n].doc, HeadSeq(mine[n].doc))
  PROVE  FALSE
<1>1. /\ Top \in Nat /\ DOMAIN mine = 1..Len(mine) /\ Len(mine) \in Nat
      /\ \A i \in DOMAIN mine : mine[i] \in Own
      /\ DOMAIN log = 1..Len(log) /\ Len(log) \in Nat
  BY TypeFacts
<1>2. n \in DOMAIN mine /\ n \in Nat \ {0}
  BY <1>1 DEF OrderInv
<1>3. PICK d \in Docs : d = mine[n].doc
  BY <1>1, <1>2 DEF Own
<1>4. PICK q \in Nat : q = HeadSeq(d) /\ q >= 1
  BY HeadFacts
<1>5. m \in DOMAIN mine /\ m \in Nat \ {0} /\ mine[m].op = "set" /\ mine[m].doc = d
      /\ RecordedAs(m, q)
  BY <1>1, <1>3, <1>4 DEF OwnSet
<1>6. mine[m].seq \in Nat /\ mine[n].basis \in Nat
  BY <1>1, <1>2, <1>5 DEF Own
<1>7. f <= q
  BY <1>3, <1>4, FloorBound
<1>8. CASE n < m
  <2>1. n \in 1..(m - 1)
    BY <1>2, <1>5, <1>8
  <2> QED BY <1>3, <1>5, <2>1 DEF AnswerInv
<1>9. CASE n = m
  <2>1. Recorded(n)
    BY <1>5, <1>9, RecordFacts
  <2> QED BY <1>5, <1>9, <2>1 DEF FloorIs
<1>10. CASE m < n /\ mine[n].op = "patch"
  <2>1. RecordedAs(n, f)
    BY <1>10 DEF FloorIs
  <2>2. PICK i \in DOMAIN log, j \in DOMAIN log :
          i = q - 1 /\ j = f - 1 /\ log[i].by = m /\ log[j].by = n
    BY <1>5, <2>1 DEF RecordedAs
  <2>3. i \in Nat /\ j \in Nat /\ (i = j \/ j < i)
    BY <1>1, <1>7, <2>2
  <2>4. i = j => m = n
    BY <2>2
  <2>5. j < i => n < m
    BY <1>2, <1>5, <2>2 DEF LogInv
  <2> QED BY <1>2, <1>5, <1>10, <2>3, <2>4, <2>5
<1>11. CASE m < n /\ mine[n].op = "set"
  <2>1. m \in 1..(n - 1)
    BY <1>2, <1>5, <1>11
  <2>2. mine[m].at = "done" /\ (mine[m].ok => mine[n].basis >= mine[m].seq)
    BY <1>2, <1>3, <1>5, <1>11, <2>1 DEF AnswerInv
  <2>3. Told(m, mine[m].ok, mine[m].seq)
    BY <1>5, <2>2 DEF AnswerInv
  <2>4. Recorded(m)
    BY <1>5, RecordFacts
  <2>5. mine[m].ok /\ RecordedAs(m, mine[m].seq)
    BY <2>3, <2>4 DEF Told
  <2>6. mine[m].seq = q
    BY <1>4, <1>5, <1>6, <2>5, RecordFacts
  <2>7. mine[n].basis < q
    <3>1. ~Recorded(n)
      BY <1>11 DEF FloorIs
    <3> QED BY <1>3, <1>4, <3>1 DEF OrderInv, Decided
  <2> QED BY <1>4, <1>6, <2>2, <2>5, <2>6, <2>7
<1>12. n < m \/ n = m \/ m < n
  BY <1>2, <1>5
<1>13. mine[n].op = "patch" \/ mine[n].op = "set"
  BY DEF FloorIs
<1> QED BY <1>8, <1>9, <1>10, <1>11, <1>12, <1>13

(* A pass that serves a document brings it, or the replica has it.         *)
LEMMA ServedSends ==
  ASSUME DeliveryInv, Live, Serving, NEW n \in 1..Top, mine[n].at # "done",
         NEW f \in Nat, FloorIs(n, f), NEW d \in session.watches, d = mine[n].doc,
         Unsent(d), d \notin ServedBy.ups
  PROVE  Reaches(held, down, d, End, f)
<1>0. Types /\ LogInv /\ OrderInv /\ RefusedInv /\ AnswerInv /\ OriginInv /\ CacheInv
  BY DEF DeliveryInv
<1>1. d \in Docs /\ held \in [Docs -> Record] /\ down \in Seq(DownFrame) /\ End = Len(down)
      /\ End \in Nat
  BY <1>0, TypeFacts DEF Types, State
<1>2. PICK q \in Nat : q = HeadSeq(d) /\ q >= 1
  BY <1>0, <1>1, HeadFacts
<1>3. session.force \/ d \in pass.docs
  BY DEF Unsent, Unserved, Serving
<1>4. ServedBy.after.cached[d] = q
  BY <1>0, <1>2, <1>3, ServedFacts
<1>5. ~\E m : OwnSet(m, d, q)
  BY <1>0, <1>2, NoElided
<1>6. session.cached[d] = q
  <2>1. ~HeldByWriter(pass.origin, d)
    <3> SUFFICES ASSUME HeldByWriter(pass.origin, d) PROVE FALSE
      OBVIOUS
    <3>1. pass.origin[d].op = "set" /\ pass.origin[d].seq = q
      BY <1>2 DEF HeldByWriter
    <3>2. \E m : OwnSet(m, d, q)
      BY <1>0, <1>1, <3>1 DEF OriginInv
    <3> QED BY <1>5, <3>2
  <2> QED BY <1>0, <1>4, <2>1, ServedFacts
<1>7. Reaches(held, down, d, End, q)
  <2>1. Reaches(held, down, d, End, session.cached[d]) \/ Elided(d, session.cached[d])
    BY <1>0, <1>2, <1>6 DEF CacheInv
  <2>2. ~Elided(d, q)
    BY <1>5 DEF Elided
  <2> QED BY <1>6, <2>1, <2>2
<1>8. f <= q
  BY <1>0, <1>2, FloorBound
<1>9. PICK k \in 0..Len(down) : k = End
  BY <1>1
<1> QED BY <1>1, <1>7, <1>8, <1>9, ReachWeaker

(* A commit that was served before the step: its floor is held or in       *)
(* flight, or its document is still to be sent.                            *)
LEMMA PendOld ==
  ASSUME DeliveryInv, Next, Live', NEW n \in 1..Top, NEW d, d = mine[n].doc, d \in session'.watches,
         mine'[n].at # "done", NEW f \in Nat, FloorIs(n, f)'
  PROVE  Reaches(held', down', d, End', f) \/ Unsent(d)'
<1>0. Types /\ LinkInv /\ LogInv /\ OrderInv /\ RefusedInv /\ AnswerInv /\ WatchInv /\ PendInv /\ BatchInv
  BY DEF DeliveryInv
<1>1. /\ d \in Docs /\ n \in DOMAIN mine /\ mine[n].at # "done" /\ FloorIs(n, f)
  BY OldCommit
<1>2. ~Lose /\ (Mild \/ ReceiveSet => Live)
  BY LiveBefore
<1>3. HeadSeq(d) \in Nat /\ HeadSeq(d) >= f
  BY <1>0, <1>1, HeadFacts, FloorBound
<1> DEFINE Goal == Reaches(held', down', d, End', f) \/ Unsent(d)'
<1> SUFFICES Goal
  OBVIOUS
<1>4. ASSUME Reaches(held, down, d, End, f) PROVE Goal
  BY <1>1, <1>2, <1>4, ReachStays
<1>5. ASSUME Live, d \in session.watches, Unsent(d) => Goal PROVE Goal
  <2>1. Reaches(held, down, d, End, f) \/ Unsent(d)
    BY <1>0, <1>1, <1>5 DEF PendInv
  <2> HIDE DEF Goal
  <2> QED BY <1>4, <1>5, <2>1
<1>6. ASSUME Unsent(d)' PROVE Goal
  BY <1>6
<1>7. ASSUME NEW e \in DownFrame, down' = Append(down, e), held' = held, Raises(e, d, f) PROVE Goal
  BY <1>0, <1>1, <1>7, ReachRaised
<1> HIDE DEF Goal
<1>8. CASE Outer
  <2>1. UNCHANGED <<dirty, pass, session>> /\ Live
    BY <1>8, OuterFacts
  <2>2. Unsent(d) => Unsent(d)'
    BY <2>1 DEF Unsent, Unserved
  <2> QED BY <1>5, <1>6, <2>1, <2>2
<1>9. ASSUME NEW x \in Docs, ForeignCommit(x) PROVE Goal
  <2>1. dirty' = dirty \union {x}
    BY <1>0, <1>9, ForeignCommitEffect
  <2>2. session' = session /\ pass' = pass /\ Live
    BY <1>9, Unchanged DEF Live
  <2>3. Unsent(d) => Unsent(d)'
    BY <2>1, <2>2 DEF Unsent, Unserved
  <2> QED BY <1>5, <1>6, <2>2, <2>3
<1>10. CASE ReceiveCommit
  <2>1. /\ \E m, ok, seq : CommitServed(m, ok, seq)
        /\ pass' = pass /\ Live
    BY <1>0, <1>2, <1>10, ReceiveCommitEffect, Unchanged DEF Mild
  <2>2. /\ session'.watches = session.watches /\ session'.force = session.force
        /\ dirty \subseteq dirty'
    BY <2>1 DEF CommitServed
  <2>3. Unsent(d) => Unsent(d)'
    BY <2>1, <2>2 DEF Unsent, Unserved
  <2> QED BY <1>5, <1>6, <2>1, <2>2, <2>3
<1>11. CASE StartPass
  <2>1. /\ session' = session /\ pass'.on /\ ~pass'.served
        /\ pass'.docs = dirty /\ ~pass.on /\ Live
    BY <1>11 DEF StartPass, Live
  <2>2. Unsent(d) => Unsent(d)'
    BY <2>1 DEF Unsent, Unserved
  <2> QED BY <1>5, <1>6, <2>1, <2>2
<1>12. CASE EvaluationFails
  <2>1. session'.force = TRUE
    BY <1>0, <1>12 DEF EvaluationFails, Types, State
  <2> QED BY <1>6, <2>1 DEF Unsent
<1>13. CASE EndPass
  <2>1. session' = session /\ dirty' = dirty /\ ~Unserved /\ ~Unserved' /\ Live
    BY <1>13 DEF EndPass, dirtyVars, Live, Unserved, NoPass
  <2>2. Unsent(d) => Unsent(d)'
    BY <2>1 DEF Unsent
  <2> QED BY <1>5, <1>6, <2>1, <2>2
<1>14. CASE FailPass
  <2>1. session' = session /\ dirty' = dirty \union pass.docs /\ Live /\ ~Unserved'
    BY <1>0, <1>14, FailPassEffect DEF FailPass, Live, Unserved, NoPass
  <2>2. Unsent(d) => Unsent(d)'
    BY <2>1 DEF Unsent
  <2> QED BY <1>5, <1>6, <2>1, <2>2
<1>15. CASE Detach
  BY <1>15 DEF Detach, Live
<1>16. CASE SendFails
  <2>1. /\ session'.watches = session.watches
        /\ dirty' = dirty \union (ServedBy.ups \union ServedBy.rems)
        /\ ~Unserved' /\ Serving /\ Live
    BY <1>0, <1>2, <1>16, SendFailsEffect DEF SendFails, Mild, Inner, Unserved
  <2>2. CASE d \in ServedBy.ups
    BY <1>6, <2>1, <2>2 DEF Unsent
  <2>3. CASE d \notin ServedBy.ups
    <3>1. Unsent(d) => Reaches(held, down, d, End, f)
      BY <1>1, <2>1, <2>3, ServedSends
    <3> QED BY <1>4, <1>5, <2>1, <3>1
  <2> QED BY <2>2, <2>3
<1>17. CASE Serve
  <2>1. /\ session'.watches = session.watches /\ Serving /\ Live
        /\ ~Empty(ServedBy) => Sent(EffectFrame)
    BY <1>0, <1>2, <1>17, ServeEffect, ServedFacts DEF Serve, Mild
  <2>2. CASE d \in ServedBy.ups
    <3>1. Sent(EffectFrame)
      BY <2>1, <2>2 DEF Empty
    <3>2. down' = Append(down, EffectFrame) /\ held' = held
      BY <1>17, <2>1, <3>1, Unchanged DEF Sent, Live, clientVars
    <3>3. EffectFrame \in DownFrame /\ Raises(EffectFrame, d, f)
      BY <1>0, <1>3, <2>2, EffectFrameFacts
    <3> QED BY <1>7, <3>2, <3>3
  <2>3. CASE d \notin ServedBy.ups
    <3>1. Unsent(d) => Reaches(held, down, d, End, f)
      BY <1>1, <2>1, <2>3, ServedSends
    <3> QED BY <1>4, <1>5, <2>1, <3>1
  <2> QED BY <2>2, <2>3
<1>18. CASE ReceiveAdd
  <2>1. PICK x, e : AddServed(x, e)
    BY <1>0, <1>18, ReceiveAddEffect
  <2>2. UNCHANGED <<dirty, pass>> /\ Live /\ session'.force = session.force /\ held' = held
    BY <1>2, <1>18, <2>1, Unchanged DEF dirtyVars, clientVars, AddServed, Mild
  <2>3. CASE d \in session.watches
    <3>1. Unsent(d) => Unsent(d)'
      BY <2>2 DEF Unsent, Unserved
    <3> QED BY <1>5, <1>6, <2>2, <2>3, <3>1
  <2>4. CASE d \notin session.watches
    <3>1. d = x
      BY <2>1, <2>4 DEF AddServed
    <3>2. session.cached[d] # HeadSeq(d)
      <4>1. session.cached[d] \in {Nothing, 0}
        BY <1>0, <1>1, <2>4 DEF WatchInv
      <4>2. HeadSeq(d) >= 1 /\ HeadSeq(d) \in Nat
        BY <1>0, <1>1, HeadFacts
      <4> QED BY <4>1, <4>2 DEF Nothing
    <3>3. e \in DownFrame /\ Sent(e) /\ Raises(e, d, f)
      BY <1>3, <2>1, <2>4, <3>1, <3>2 DEF AddServed
    <3>4. down' = Append(down, e)
      BY <2>2, <3>3 DEF Sent, Live
    <3> QED BY <1>7, <2>2, <3>3, <3>4
  <2> QED BY <2>3, <2>4
<1>19. CASE ReceiveSet
  <2>1. PICK ws, e : SetServed(ws, e)
    BY <1>0, <1>19, ReceiveSetEffect
  <2>2. e \in DownFrame /\ Sent(e) /\ Raises(e, d, f)
    BY <1>3, <2>1 DEF SetServed
  <2>3. down' = Append(down, e) /\ held' = held
    BY <1>2, <1>19, <2>2, Unchanged DEF Sent, Live, clientVars
  <2> QED BY <1>7, <2>2, <2>3
<1>20. CASE ReceiveOpen
  <2>1. session'.watches = session.watches
    BY <1>0, <1>20, ReceiveOpenEffect DEF OpenServed
  <2>2. Reaches(held', down', d, End', HeadSeq(d))
    BY <1>20, <2>1, OpenHeld
  <2>3. /\ held' \in [Docs -> Record] /\ down' \in Seq(DownFrame)
        /\ End' = Len(down') /\ Len(down') \in Nat
    BY TypesStep DEF Types, End
  <2>4. PICK k \in 0..Len(down') : k = End'
    BY <2>3
  <2>5. Reaches(held', down', d, End', f)
    BY <1>1, <1>3, <2>2, <2>3, <2>4, ReachWeaker
  <2> QED BY <2>5 DEF Goal
<1> QED BY <1>8, <1>9, <1>10, <1>11, <1>12, <1>13, <1>14, <1>15, <1>16, <1>17, <1>18,
           <1>19, <1>20 DEF Next, Outer, ServerStep

(* Every step keeps the floors of what is pending. A new commit leaves its *)
(* document dirty.                                                         *)
LEMMA PendStep == ASSUME DeliveryInv, Next PROVE PendInv'
<1>0. Types /\ LogInv /\ OrderInv
  BY DEF DeliveryInv
<1>1. SUFFICES ASSUME Live', NEW n \in 1..Top', mine'[n].doc \in session'.watches, mine'[n].at # "done",
                      NEW f \in Nat, FloorIs(n, f)'
               PROVE  Reaches(held, down, mine[n].doc, End, f)' \/ Unsent(mine[n].doc)'
  BY DEF PendInv
<1>2. CASE n \in 1..Top
  <2>1. PICK d : d = mine[n].doc
    OBVIOUS
  <2>2. mine'[n].doc = d
    BY <1>2, <2>1, OldCommit
  <2>3. Reaches(held', down', d, End', f) \/ Unsent(d)'
    BY <1>1, <1>2, <2>1, <2>2, PendOld
  <2> QED BY <2>2, <2>3 DEF Unsent
<1>3. CASE n \notin 1..Top
  <2>1. Top \in Nat /\ n \in Nat
    BY <1>0, <1>1, TopGrows
  <2>2. CASE ReceiveCommit
    <3>1. PICK m, ok, seq : CommitServed(m, ok, seq)
      BY <1>0, <2>2, ReceiveCommitEffect
    <3>2. m \in Nat \ {0} /\ m \in DOMAIN mine /\ (m > Top => m = Top + 1)
      BY <1>0, <3>1, CommitNext
    <3>3. Top' \in {Top, m}
      BY <1>0, <3>1, <3>2, TopServed
    <3>4. n = m
      BY <1>1, <1>3, <2>1, <3>2, <3>3
    <3>5. mine' = mine /\ pass' = pass
      BY <2>2, Unchanged DEF clientVars
    <3>6. mine[m].doc \in dirty' /\ ~pass.on
      BY <3>1 DEF CommitServed
    <3> QED BY <3>4, <3>5, <3>6 DEF Unsent, Unserved
  <2>3. CASE ~ReceiveCommit
    BY <1>0, <1>1, <1>3, <2>3, TopKept
  <2> QED BY <2>2, <2>3
<1> QED BY <1>2, <1>3

(* A frame is received; or neither a frame nor a commit moves between the  *)
(* two sides of the wire.                                                  *)
Receives == Effect \/ CallAnswered \/ Restored \/ Verdict
Quieter  == \/ Inner \/ Reconnect \/ Call
            \/ \E x \in Docs : \E op \in {"set", "patch"} : Commit(x, op)
            \/ \E n \in DOMAIN mine : Resolve(n)

(* The steps by what they do to the replica and the wire.                  *)
LEMMA StepKinds == Next => Quieter \/ Lose \/ Receives \/ Serve \/ ServerStep
BY DEF Next, Quieter, Inner, Receives

(* Where the client counts on a document, the server watches it.           *)
LEMMA PointWatched ==
  ASSUME DeliveryInv, NEW d \in Docs, NEW k \in 0..End, Point(d, k)
  PROVE  d \in session.watches /\ (down # <<>> => Live)
<1>0. Types /\ LinkInv /\ CallInv /\ WatchInv
  BY DEF DeliveryInv
<1>1. DOMAIN down = 1..End /\ End \in Nat
  BY <1>0, TypeFacts
<1>2. down # <<>> => Live
  BY <1>0, Connected
<1>3. AddedIn(d, k) => d \in session.watches
  <2>1. ASSUME NEW j \in 1..k, down[j].type = "added", call.doc = d PROVE d \in session.watches
    <3>1. j \in DOMAIN down
      BY <1>1, <2>1
    <3> QED BY <1>0, <2>1, <3>1 DEF CallInv
  <2> QED BY <2>1 DEF AddedIn
<1> QED BY <1>0, <1>2, <1>3 DEF Point, WatchInv

(* A frame is absorbed.                                                    *)
LEMMA PointReceived ==
  ASSUME DeliveryInv, Receives, NEW d \in Docs, NEW k \in 0..End', Point(d, k)'
  PROVE  /\ k \in Nat /\ k + 1 \in 0..End /\ k + 1 \in Nat /\ Point(d, k + 1)
         /\ \A n \in Nat : MarkBy(k, n)' => MarkBy(k + 1, n)
<1>0. Types /\ CallInv /\ ValueInv
  BY DEF DeliveryInv
<1>1. /\ down # <<>> /\ down' = Tail(down)
      /\ session' = session /\ link' = link
  BY DEF Receives, Effect, CallAnswered, Restored, Verdict, Received, serverVars
<1>2. /\ \A j \in DOMAIN down' : j \in Nat \ {0} /\ j + 1 \in DOMAIN down /\ down'[j] = down[j + 1]
      /\ End' = End - 1 /\ End \in Nat \ {0} /\ 1 \in DOMAIN down /\ Head(down) = down[1]
  BY <1>0, <1>1, ReceivedFrames
<1>3. /\ k \in Nat /\ k + 1 \in 0..End /\ k + 1 \in Nat /\ 1 \in 1..(k + 1)
         /\ (k = End' => k + 1 = End)
  BY <1>2
<1>4. \A j \in 1..k : j \in DOMAIN down' /\ j + 1 \in 1..(k + 1)
  <2>1. DOMAIN down' = 1..End'
    <3>1. down' \in Seq(DownFrame)
      BY <1>0, <1>1, DownHead
    <3> QED BY <3>1 DEF End
  <2> QED BY <1>2, <2>1
<1>5. \A j \in 1..k : j + 1 \in 1..(k + 1) /\ down'[j] = down[j + 1]
  BY <1>2, <1>4
<1>6. AddedIn(d, k)' => AddedIn(d, k + 1)
  <2>1. CASE call' = call
    BY <1>5, <2>1 DEF AddedIn
  <2>2. CASE CallAnswered
    BY <2>2 DEF AddedIn, CallAnswered, NoCall
  <2> QED BY <2>1, <2>2 DEF Receives, Effect, Restored, Verdict
<1>7. d \in wanted' => d \in wanted \/ AddedIn(d, k + 1)
  <2>1. CASE wanted' = wanted
    BY <2>1
  <2>2. CASE CallAnswered
    <3>1. /\ wanted' = IF call.op = "add" THEN wanted \union {call.doc} ELSE wanted
          /\ down[1].type \in {"added", "replaced"}
      BY <1>2, <2>2 DEF CallAnswered
    <3>2. down[1].type = "replaced" => call.op = "remove"
      BY <1>0, <1>2 DEF CallInv
    <3> QED BY <1>3, <3>1, <3>2 DEF AddedIn
  <2> QED BY <2>1, <2>2 DEF Receives, Effect, Restored, Verdict
<1>8. Point(d, k + 1)
  BY <1>1, <1>3, <1>6, <1>7 DEF Point, Live
<1>9. ASSUME NEW n \in Nat, MarkBy(k, n)' PROVE MarkBy(k + 1, n)
  <2>1. marker' = marker \/ marker' = MarkIn(down[1])
    <3>1. CASE Verdict
      BY <3>1 DEF Verdict
    <3>2. CASE Effect \/ CallAnswered \/ Restored
      <4>1. Absorb(Head(down)) /\ Head(down).type # "verdict"
        BY <3>2 DEF Effect, CallAnswered, Restored, Received
      <4>2. PICK f \in Syncs : f = down[1] /\ 1 \in DOMAIN down /\ Absorb(f)
        BY <1>0, <1>1, <4>1, DownHead
      <4> QED BY <1>0, <4>2, AbsorbEffect
    <3> QED BY <3>1, <3>2 DEF Receives
  <2>2. marker' >= n => MarkBy(k + 1, n)
    BY <1>3, <2>1 DEF MarkBy
  <2>3. ASSUME NEW j \in 1..k, MarkIn(down'[j]) >= n PROVE MarkBy(k + 1, n)
    BY <1>5, <2>3 DEF MarkBy
  <2> QED BY <1>9, <2>2, <2>3 DEF MarkBy, MarkIn
<1> QED BY <1>3, <1>8, <1>9

(* A step that sends and absorbs nothing.                                  *)
LEMMA PointQuiet ==
  ASSUME DeliveryInv, Quieter, NEW d \in Docs, NEW k \in 0..End', Point(d, k)'
  PROVE  /\ k \in 0..End /\ Point(d, k) /\ down' = down /\ marker' = marker
         /\ \A n : MarkBy(k, n)' => MarkBy(k, n)
<1>0. Types /\ CallInv
  BY DEF DeliveryInv
<1>1. /\ down' = down /\ marker' = marker /\ (Live' <=> Live)
      /\ session'.watches = session.watches /\ wanted' \subseteq wanted
      /\ call' = call \/ call = NoCall
  <2>1. CASE Inner
    BY <1>0, <2>1, InnerFacts DEF ClientKept
  <2>2. CASE Reconnect \/ Call
    BY <2>2 DEF Reconnect, Call, serverVars, Live
  <2>3. ASSUME NEW x \in Docs, NEW op \in {"set", "patch"}, Commit(x, op)
        PROVE  UNCHANGED <<down, marker, link, session, wanted, call>>
    BY <2>3, Unchanged DEF serverVars
  <2>4. ASSUME NEW n \in DOMAIN mine, Resolve(n)
        PROVE  UNCHANGED <<down, marker, link, session, wanted, call>>
    BY <2>4, Unchanged DEF serverVars
  <2> QED BY <2>1, <2>2, <2>3, <2>4 DEF Quieter, Live
<1>2. End' = End
  BY <1>1 DEF End
<1>3. AddedIn(d, k)' => AddedIn(d, k)
  <2>1. CASE call' = call
    BY <1>1, <2>1 DEF AddedIn
  <2>2. CASE call = NoCall
    <3>1. ASSUME NEW j \in 1..k, down[j].type = "added" PROVE FALSE
      <4>1. j \in DOMAIN down
        BY <1>0, <1>2, TypeFacts
      <4> QED BY <1>0, <2>2, <3>1, <4>1 DEF CallInv, IsAnswer
    <3> QED BY <1>1, <3>1 DEF AddedIn
  <2> QED BY <1>1, <2>1, <2>2
<1>4. Point(d, k)
  BY <1>1, <1>2, <1>3 DEF Point
<1>5. \A n : MarkBy(k, n)' => MarkBy(k, n)
  BY <1>1 DEF MarkBy, MarkIn
<1> QED BY <1>1, <1>2, <1>4, <1>5

(* What the client counts on when the connection is lost, it counted on    *)
(* before, without the frames.                                             *)
LEMMA PointLost ==
  ASSUME DeliveryInv, Lose, NEW d \in Docs, NEW k \in 0..End', Point(d, k)'
  PROVE  /\ k = 0 /\ k \in 0..End /\ Point(d, k) /\ held' = held /\ down' = <<>> /\ marker' = marker /\ mine' = mine
         /\ \A n : MarkBy(k, n)' => MarkBy(k, n)
<1>0. Types /\ End \in Nat
  BY TypeFacts DEF DeliveryInv
<1>1. /\ down' = <<>> /\ ~Live' /\ wanted' = wanted /\ held' = held /\ marker' = marker
         /\ mine' = mine
  BY DEF Lose, Live
<1>2. k = 0 /\ k \in 0..End
  BY <1>0, <1>1 DEF End
<1>3. ~AddedIn(d, k)' /\ (\A n : MarkBy(k, n)' => MarkBy(k, n))
  <2>1. \A j \in 1..k : FALSE
    BY <1>2
  <2> QED BY <1>1, <2>1 DEF AddedIn, MarkBy
<1> QED BY <1>1, <1>2, <1>3 DEF Point

(* A frame that brings a document at its head, to a replica that may be    *)
(* there already.                                                          *)
Brings(f, d) == /\ Raises(f, d, HeadSeq(d)) \/ delivered[d] = HeadSeq(d)
                /\ Reaches(held', down', d, End', HeadSeq(d))
SentLast(f) ==
  /\ f \in DownFrame /\ down' = Append(down, f) /\ Live'
  /\ (\A d \in session'.watches : ~Drops(f, d))
  /\ \A d \in session'.watches :
       (Live /\ d \in session.watches /\ (Serve \/ MarkIn(f) = 0)) \/ Brings(f, d)
NothingSent == down' = down /\ (Live' <=> Live) /\ session'.watches = session.watches

(* The server sends one frame or none.                                     *)
LEMMA SendKinds ==
  ASSUME DeliveryInv, Serve \/ ServerStep
  PROVE  /\ UNCHANGED <<conn, wanted, call, held, delivered, marker, mine>>
         /\ NothingSent \/ \E f : SentLast(f)
<1>0. Types /\ LinkInv /\ LogInv /\ OrderInv /\ WatchInv
  BY DEF DeliveryInv
<1>1. UNCHANGED <<conn, wanted, call, held, delivered, marker, mine>>
  BY Unchanged DEF clientVars, ServerStep
<1>2. CASE Serve
  <2>1. session'.watches = session.watches /\ link' = link
    BY <1>0, <1>2, ServeEffect, ServedFacts, Unchanged
  <2>2. Sent(EffectFrame) \/ down' = down
    BY <1>0, <1>2, ServeEffect
  <2>3. ServedBy.rems \intersect session'.watches = {}
    BY <1>0, <2>1, ServedFacts
  <2>4. EffectFrame \in DownFrame /\ \A d : Drops(EffectFrame, d) <=> d \in ServedBy.rems
    BY <1>0, EffectFrameFacts
  <2>5. \A d \in session'.watches : ~Drops(EffectFrame, d)
    BY <2>3, <2>4
  <2>6. NothingSent \/ SentLast(EffectFrame)
    BY <1>2, <2>1, <2>2, <2>4, <2>5 DEF SentLast, NothingSent, Sent, Live
  <2> QED BY <1>1, <2>6
<1>3. CASE ReceiveCommit
  <2>1. PICK n, ok, seq : CommitServed(n, ok, seq)
    BY <1>0, <1>3, ReceiveCommitEffect
  <2>2. PICK f : f = [type |-> "verdict", id |-> n, ok |-> ok, seq |-> seq]
    OBVIOUS
  <2>3. f \in DownFrame /\ (\A d : ~Drops(f, d)) /\ MarkIn(f) = 0
    <3>1. n \in Nat /\ ok \in BOOLEAN /\ seq \in Nat
      BY <1>0, <2>1, TypeFacts DEF CommitServed
    <3> QED BY <2>2, <3>1 DEF DownFrame, Verdicts, Drops, MarkIn
  <2>4. Live /\ Live' /\ session'.watches = session.watches
    BY <1>0, <1>3, <2>1, Connected, Unchanged DEF CommitServed, Live
  <2>5. down' = Append(down, f)
    BY <2>1, <2>2, <2>4 DEF CommitServed, Live
  <2>6. SentLast(f)
    BY <2>3, <2>4, <2>5 DEF SentLast
  <2> QED BY <1>1, <2>6
<1>4. CASE ReceiveAdd
  <2>1. PICK x, f : AddServed(x, f)
    BY <1>0, <1>4, ReceiveAddEffect
  <2>2. Live /\ Live'
    BY <1>0, <1>4, <2>1, Connected, Unchanged DEF AddServed, Live
  <2>3. down' = Append(down, f) /\ f \in DownFrame /\ MarkIn(f) = 0 /\ \A d : ~Drops(f, d)
    BY <2>1, <2>2 DEF AddServed, Sent, Live
  <2>4. ASSUME NEW d \in session'.watches, d \notin session.watches PROVE Brings(f, d)
    <3>1. d = x /\ d \in Docs
      BY <2>1, <2>4 DEF AddServed
    <3>2. HeadSeq(d) \in Nat /\ HeadSeq(d) >= 1
      BY <1>0, <3>1, HeadFacts
    <3>3. session.cached[d] # HeadSeq(d)
      <4>1. session.cached[d] \in {Nothing, 0}
        BY <1>0, <2>4, <3>1 DEF WatchInv
      <4> QED BY <3>2, <4>1 DEF Nothing
    <3>4. Raises(f, d, HeadSeq(d))
      BY <2>1, <2>4, <3>1, <3>2, <3>3 DEF AddServed
    <3> QED BY <1>0, <1>1, <2>3, <3>1, <3>2, <3>4, ReachRaised DEF Brings
  <2>5. SentLast(f)
    BY <2>2, <2>3, <2>4 DEF SentLast
  <2> QED BY <1>1, <2>5
<1>5. CASE ReceiveSet
  <2>1. PICK ws, f : SetServed(ws, f)
    BY <1>0, <1>5, ReceiveSetEffect
  <2>2. Live /\ Live'
    BY <1>0, <1>5, <2>1, Connected, Unchanged DEF SetServed, Live
  <2>3. down' = Append(down, f) /\ f \in DownFrame /\ \A d \in session'.watches : ~Drops(f, d)
    BY <2>1, <2>2 DEF SetServed, Sent, Live
  <2>4. ASSUME NEW d \in session'.watches PROVE Brings(f, d)
    <3>1. d \in ws /\ d \in Docs
      BY <2>1, <2>4 DEF SetServed
    <3>2. HeadSeq(d) \in Nat
      BY <1>0, <3>1, HeadFacts
    <3>3. Raises(f, d, HeadSeq(d))
      BY <2>1, <3>1, <3>2 DEF SetServed
    <3> QED BY <1>0, <1>1, <2>3, <3>1, <3>2, <3>3, ReachRaised DEF Brings
  <2>5. SentLast(f)
    BY <2>2, <2>3, <2>4 DEF SentLast
  <2> QED BY <1>1, <2>5
<1>6. CASE ReceiveOpen
  <2>1. PICK f : OpenServed(f)
    BY <1>0, <1>6, ReceiveOpenEffect
  <2>2. /\ Live' /\ down' = Append(down, f) /\ f \in DownFrame
        /\ session'.watches = session.watches /\ session.watches \subseteq Docs
        /\ \A d \in session'.watches : ~Drops(f, d)
    BY <1>0, <2>1 DEF OpenServed, Live, Types, State
  <2>3. PICK o : o = up[1].holdings
    OBVIOUS
  <2>4. o = delivered
    BY <1>0, <2>1, <2>3, Connected DEF OpenServed
  <2>5. ASSUME NEW d \in session.watches PROVE Brings(f, d)
    <3>1. HeadSeq(d) >= HeadSeq(d)
      BY <1>0, <2>2, HeadFacts
    <3>2. o[d] # HeadSeq(d) => Raises(f, d, HeadSeq(d))
      BY <2>1, <2>3, <3>1 DEF OpenServed
    <3> QED BY <1>6, <2>4, <3>2, OpenHeld DEF Brings
  <2>6. SentLast(f)
    BY <2>2, <2>5 DEF SentLast
  <2> QED BY <1>1, <2>6
<1> QED BY <1>2, <1>3, <1>4, <1>5, <1>6 DEF ServerStep

(* A document the client counted on stays so, or the last frame brings it. *)
LEMMA PointSent ==
  ASSUME DeliveryInv, Serve \/ ServerStep, NEW d \in Docs, NEW k \in 0..End', Point(d, k)'
  PROVE  \/ /\ k \in 0..End /\ Point(d, k)
            /\ (\A j \in 1..k : down'[j] = down[j]) /\ \A n : MarkBy(k, n)' => MarkBy(k, n)
         \/ \E f : /\ SentLast(f) /\ k = End + 1 /\ k = End' /\ d \in session'.watches /\ ~Drops(f, d)
                   /\ \A j \in 1..End : down'[j] = down[j]
                   /\ down'[k] = f /\ \A n : MarkBy(k, n)' => MarkBy(End, n) \/ MarkIn(f) >= n
<1>0. Types /\ down \in Seq(DownFrame) /\ End \in Nat /\ End = Len(down)
  BY TypeFacts DEF DeliveryInv, Types
<1>1. UNCHANGED <<conn, wanted, call, held, delivered, marker, mine>>
  BY SendKinds
<1>2. CASE NothingSent
  <2>1. down' = down /\ End' = End
    BY <1>2 DEF NothingSent, End
  <2>2. Point(d, k)
    BY <1>1, <1>2, <2>1 DEF Point, AddedIn, NothingSent
  <2>3. \A n : MarkBy(k, n)' => MarkBy(k, n)
    BY <1>1, <2>1 DEF MarkBy, MarkIn
  <2> QED BY <2>1, <2>2, <2>3
<1>3. ASSUME NEW f, SentLast(f)
      PROVE  \/ /\ k \in 0..End /\ Point(d, k)
                /\ (\A j \in 1..k : down'[j] = down[j]) /\ \A n : MarkBy(k, n)' => MarkBy(k, n)
             \/ /\ SentLast(f) /\ k = End + 1 /\ k = End' /\ d \in session'.watches /\ ~Drops(f, d)
                /\ \A j \in 1..End : down'[j] = down[j]
                /\ down'[k] = f /\ \A n : MarkBy(k, n)' => MarkBy(End, n) \/ MarkIn(f) >= n
  <2>1. f \in DownFrame /\ down' = Append(down, f)
    BY <1>3 DEF SentLast
  <2>2. End' = End + 1 /\ down'[End + 1] = f /\ \A j \in 1..End : down'[j] = down[j]
    BY <1>0, <2>1 DEF End
  <2>3. CASE k \in 0..End
    <3>1. \A j \in 1..k : down'[j] = down[j]
      BY <1>0, <2>2, <2>3
    <3>2. k # End'
      BY <1>0, <2>2, <2>3
    <3>3. Point(d, k)
      BY <1>1, <3>1, <3>2 DEF Point, AddedIn
    <3>4. \A n : MarkBy(k, n)' => MarkBy(k, n)
      BY <1>1, <3>1 DEF MarkBy, MarkIn
    <3> QED BY <2>3, <3>1, <3>3, <3>4
  <2>4. CASE k \notin 0..End
    <3>1. k = End + 1 /\ k = End'
      BY <1>0, <2>2, <2>4
    <3>2. d \in session'.watches
      <4>1. d \in wanted' \/ AddedIn(d, k)' => d \in session'.watches
        <5>1. CallInv' /\ WatchInv' /\ Types'
          BY CallStep, WatchStep, TypesStep DEF Next
        <5>2. ASSUME NEW j \in 1..k, down'[j].type = "added", call'.doc = d PROVE d \in session'.watches
          <6>1. j \in DOMAIN down'
            <7>1. DOMAIN down' = 1..Len(down')
              BY <5>1 DEF Types
            <7> QED BY <3>1, <5>2, <7>1 DEF End
          <6> QED BY <5>1, <5>2, <6>1 DEF CallInv
        <5> QED BY <5>1, <5>2 DEF AddedIn, WatchInv
      <4> QED BY <4>1 DEF Point
    <3>3. ~Drops(f, d)
      BY <1>3, <3>2 DEF SentLast
    <3>4. ASSUME NEW n, MarkBy(k, n)' PROVE MarkBy(End, n) \/ MarkIn(f) >= n
      <4>1. \A j \in 1..k : j \in 1..End \/ j = End + 1
        BY <1>0, <3>1
      <4>2. ASSUME NEW j \in 1..k, MarkIn(down'[j]) >= n PROVE MarkBy(End, n) \/ MarkIn(f) >= n
        BY <2>2, <4>1, <4>2 DEF MarkBy
      <4> QED BY <1>1, <3>4, <4>2 DEF MarkBy, MarkIn
    <3>5. down'[k] = f
      BY <2>2, <3>1
    <3> QED BY <1>3, <2>2, <3>1, <3>2, <3>3, <3>4, <3>5
  <2> QED BY <2>3, <2>4
<1> QED BY <1>2, <1>3, SendKinds

(* An evaluation leaves nothing unsent of what its marker covers.          *)
LEMMA ServedReaches ==
  ASSUME DeliveryInv, Serve, Live, NEW n \in 1..Top, mine[n].at # "done",
         NEW f \in Nat, FloorIs(n, f), NEW d \in session.watches, d = mine[n].doc
  PROVE  Reaches(held', down', d, End', f)
<1>0. Types /\ LogInv /\ OrderInv /\ RefusedInv /\ PendInv /\ d \in Docs
  BY DEF DeliveryInv, Types, State
<1>1. HeadSeq(d) \in Nat /\ HeadSeq(d) >= f
  BY <1>0, HeadFacts, FloorBound
<1>2. Serving /\ Next /\ ~Lose /\ session'.watches = session.watches
  BY <1>0, ServeEffect, ServedFacts DEF Serve, Next, Lose, clientVars
<1>3. CASE Reaches(held, down, d, End, f)
  BY <1>0, <1>2, <1>3, ReachStays
<1>4. CASE d \in ServedBy.ups
  <2>1. Sent(EffectFrame) /\ link' = link /\ held' = held
    BY <1>0, <1>4, ServeEffect, Unchanged DEF Empty, clientVars
  <2>2. down' = Append(down, EffectFrame)
    BY <2>1 DEF Sent, Live
  <2>3. EffectFrame \in DownFrame /\ Raises(EffectFrame, d, f)
    BY <1>0, <1>1, <1>4, EffectFrameFacts
  <2> QED BY <1>0, <2>1, <2>2, <2>3, ReachRaised
<1>5. CASE d \notin ServedBy.ups /\ Unsent(d)
  BY <1>2, <1>3, <1>5, ServedSends
<1> QED BY <1>0, <1>3, <1>4, <1>5 DEF PendInv

(* A commit that was served before the step: where its marker has come,    *)
(* its floor has been reached.                                             *)
LEMMA FloorAt ==
  ASSUME DeliveryInv, Next, NEW n \in 1..Top, NEW d, d = mine[n].doc, mine'[n].at # "done",
         NEW k \in 0..End', Point(d, k)', MarkBy(k, n)', NEW f \in Nat, FloorIs(n, f)'
  PROVE  Reaches(held', down', d, k, f)
<1>0. Types /\ LogInv /\ OrderInv /\ RefusedInv /\ FloorInv
  BY DEF DeliveryInv
<1>1. d \in Docs /\ n \in DOMAIN mine /\ mine[n].at # "done" /\ FloorIs(n, f) /\ n \in Nat
  BY OldCommit
<1>2. HeadSeq(d) \in Nat /\ f <= HeadSeq(d) /\ f \in Nat
  BY <1>0, <1>1, HeadFacts, FloorBound
<1>3. ASSUME NEW j \in 0..End, Point(d, j), MarkBy(j, n) PROVE Reaches(held, down, d, j, f)
  BY <1>0, <1>1, <1>3 DEF FloorInv
<1>4. CASE Quieter
  <2>1. k \in 0..End /\ Point(d, k) /\ MarkBy(k, n)
    BY <1>1, <1>4, PointQuiet
  <2>2. Reaches(held, down, d, k, f)
    BY <1>3, <2>1
  <2> QED BY <1>1, <1>4, <2>1, <2>2, ReachQuiet DEF Quieter
<1>5. CASE Lose
  <2>1. /\ k = 0 /\ k \in 0..End /\ Point(d, k) /\ MarkBy(k, n) /\ held' = held /\ down' = <<>>
    BY <1>1, <1>5, PointLost
  <2>2. Reaches(held, down, d, k, f)
    BY <1>3, <2>1
  <2>3. \A j \in 1..k : FALSE
    BY <2>1
  <2> QED BY <2>1, <2>2, <2>3 DEF Reaches
<1>6. CASE Receives
  <2>1. k + 1 \in 0..End /\ Point(d, k + 1) /\ MarkBy(k + 1, n)
    BY <1>1, <1>6, PointReceived
  <2>2. Reaches(held, down, d, k + 1, f)
    BY <1>3, <2>1
  <2> QED BY <1>1, <1>6, <2>2, ReachReceived DEF Receives
<1>7. CASE Serve \/ ServerStep
  <2>1. held' = held
    BY <1>7, SendKinds
  <2>2. CASE k \in 0..End /\ Point(d, k) /\ MarkBy(k, n) /\ \A j \in 1..k : down'[j] = down[j]
    <3>1. Reaches(held, down, d, k, f)
      BY <1>3, <2>2
    <3>2. k \in Nat
      BY <2>2
    <3> QED BY <2>1, <2>2, <3>1, <3>2, ReachSame
  <2>3. ASSUME NEW e, SentLast(e), k = End', d \in session'.watches, MarkBy(End, n) \/ MarkIn(e) >= n
        PROVE  Reaches(held', down', d, k, f)
    <3>1. CASE Brings(e, d)
      <4>1. /\ held' \in [Docs -> Record] /\ down' \in Seq(DownFrame)
            /\ k \in 0..Len(down')
        BY <2>3, TypesStep DEF Types, End
      <4>2. Reaches(held', down', d, k, HeadSeq(d))
        BY <2>3, <3>1 DEF Brings
      <4> QED BY <1>1, <1>2, <4>1, <4>2, ReachWeaker
    <3>2. CASE Live /\ d \in session.watches /\ Serve
      BY <1>1, <2>3, <3>2, ServedReaches
    <3>3. CASE Live /\ d \in session.watches /\ MarkIn(e) = 0
      <4>1. MarkBy(End, n)
        <5>1. ~(0 >= n)
          OBVIOUS
        <5> QED BY <2>3, <3>3, <5>1
      <4>2. End \in 0..End /\ Point(d, End)
        BY <1>0, <3>3, TypeFacts DEF Point
      <4>3. Reaches(held, down, d, End, f)
        BY <1>3, <4>1, <4>2
      <4>4. ~Lose
        BY <2>3 DEF Lose, SentLast, Live
      <4> QED BY <1>1, <2>3, <4>3, <4>4, ReachStays
    <3> QED BY <2>3, <3>1, <3>2, <3>3 DEF SentLast
  <2>4. \/ k \in 0..End /\ Point(d, k) /\ (\A j \in 1..k : down'[j] = down[j]) /\ MarkBy(k, n)
        \/ \E e : SentLast(e) /\ k = End' /\ d \in session'.watches /\ (MarkBy(End, n) \/ MarkIn(e) >= n)
    BY <1>1, <1>7, PointSent
  <2> QED BY <2>2, <2>3, <2>4
<1> QED BY <1>4, <1>5, <1>6, <1>7, StepKinds

(* A commit a marker covers was decided before.                            *)
LEMMA MarkedBefore ==
  ASSUME DeliveryInv, Next, NEW k \in 0..End', NEW n \in Nat \ {0}, MarkBy(k, n)'
  PROVE  n \in 1..Top
<1>0. Types /\ LogInv /\ OrderInv /\ MarkInv /\ Top \in Nat /\ Types'
  BY TypeFacts, TypesStep DEF DeliveryInv
<1>1. \A j \in DOMAIN down' : MarkIn(down'[j]) <= Top /\ MarkIn(down'[j]) \in Nat
  <2>1. \A j \in DOMAIN down' : MarkIn(down'[j]) <= Top
    BY <1>0, MarksStep DEF MarkInv
  <2>2. \A j \in DOMAIN down' : down'[j] \in DownFrame
    BY <1>0 DEF Types
  <2> QED BY <2>1, <2>2, FrameFacts
<1>2. marker' <= Top /\ marker' \in Nat
  <2>1. CASE ReceiveCommit
    BY <1>0, <2>1, Unchanged DEF clientVars, MarkInv, Types
  <2>2. CASE ~ReceiveCommit
    <3>1. MarkInv'
      BY MarkStep
    <3>2. Top' = Top
      BY <1>0, <2>2, TopKept
    <3> QED BY <1>0, <3>1, <3>2 DEF MarkInv, Types
  <2> QED BY <2>1, <2>2
<1>3. \A j \in 1..k : j \in DOMAIN down'
  <2>1. DOMAIN down' = 1..End' /\ End' \in Nat
    BY <1>0 DEF Types, End
  <2> QED BY <2>1
<1>4. PICK m \in Nat : m >= n /\ m <= Top
  BY <1>1, <1>2, <1>3 DEF MarkBy, MarkIn
<1> QED BY <1>0, <1>4

(* Every step keeps the floors.                                            *)
LEMMA FloorStep == ASSUME DeliveryInv, Next PROVE FloorInv'
<1>1. SUFFICES ASSUME NEW n \in DOMAIN mine', mine'[n].at # "done", NEW k \in 0..End',
                      Point(mine[n].doc, k)', MarkBy(k, n)', NEW f \in Nat, FloorIs(n, f)'
               PROVE  Reaches(held, down, mine[n].doc, k, f)'
  BY DEF FloorInv
<1>2. n \in Nat \ {0}
  <2>1. mine' \in Seq(Own)
    BY TypesStep DEF Types
  <2> QED BY <2>1
<1>3. n \in 1..Top
  BY <1>1, <1>2, MarkedBefore
<1>4. PICK d : d = mine[n].doc
  OBVIOUS
<1>5. mine'[n].doc = d
  BY <1>3, <1>4, OldCommit
<1>6. Point(d, k)'
  BY <1>1, <1>5 DEF Point, AddedIn
<1>7. Reaches(held', down', d, k, f)
  BY <1>1, <1>3, <1>4, <1>6, FloorAt
<1> QED BY <1>5, <1>7

(* Where the client counts on a document it has recorded own writes of, no *)
(* drop is left that the answer to its watch call does not make good.      *)
LEMMA OwnReaches ==
  ASSUME DeliveryInv, NEW d \in Docs, NEW k \in 0..End, Point(d, k),
         NEW n \in Nat \ {0}, NEW s \in Nat, RecordedAs(n, s), mine[n].doc = d,
         NEW g, g[d].seq >= s
  PROVE  Reaches(g, down, d, k, s)
<1>0. Types /\ CallInv /\ WatchInv /\ LogInv /\ AddedInv
  BY DEF DeliveryInv
<1>1. DOMAIN down = 1..End /\ End \in Nat /\ k \in Nat /\ k <= End
  BY <1>0, TypeFacts
<1>2. CASE \A j \in 1..k : ~Drops(down[j], d)
  BY <1>2 DEF Reaches
<1>3. ASSUME NEW i \in 1..k, Drops(down[i], d) PROVE Reaches(g, down, d, k, s)
  <2>1. i \in DOMAIN down /\ i \in Nat /\ down # <<>>
    BY <1>1, <1>3
  <2>2. Live /\ d \in session.watches
    BY <2>1, PointWatched
  <2>3. PICK j \in (i + 1)..End : down[j].type = "added"
    BY <1>0, <1>3, <2>1, <2>2 DEF WatchInv
  <2>4. call.op = "add" /\ d = call.doc
    BY <1>0, <1>3, <2>1, <2>2 DEF WatchInv
  <2>5. j \in DOMAIN down /\ j \in Nat /\ i < j /\ i \in 1..j
    BY <1>1, <2>1, <2>3
  <2>6. \A m \in DOMAIN down : down[m].type = "added" => m = j
    BY <1>0, <2>3, <2>5 DEF CallInv, IsAnswer
  <2>7. j <= k
    <3>1. d \notin wanted
      BY <1>0, <2>3, <2>4, <2>5 DEF CallInv, IsAnswer
    <3>2. CASE AddedIn(d, k)
      <4>1. PICK m \in 1..k : down[m].type = "added"
        BY <3>2 DEF AddedIn
      <4>2. m \in DOMAIN down
        BY <1>1, <4>1
      <4> QED BY <1>1, <2>6, <4>1, <4>2
    <3>3. CASE k = End
      BY <2>3, <2>5, <1>1, <3>3
    <3> QED BY <3>1, <3>2, <3>3 DEF Point
  <2>8. Raises(down[j], d, s)
    <3>1. PICK m \in DOMAIN log : m = s - 1 /\ log[m].by = n
      BY DEF RecordedAs
    <3>2. log[m].doc = call.doc /\ log[m].by # 0
      BY <1>0, <2>4, <3>1 DEF LogInv
    <3>3. Raises(down[j], call.doc, m + 1)
      BY <1>0, <1>3, <2>3, <2>4, <2>5, <3>2 DEF AddedInv
    <3>4. m + 1 = s
      BY <3>1
    <3> QED BY <2>4, <3>3, <3>4
  <2>9. \A m \in (j + 1)..k : ~Drops(down[m], d)
    <3> SUFFICES ASSUME NEW m \in (j + 1)..k, Drops(down[m], d) PROVE FALSE
      OBVIOUS
    <3>1. m \in DOMAIN down /\ m > j /\ m \in Nat
      BY <1>1, <2>5
    <3>2. PICK b \in (m + 1)..End : down[b].type = "added"
      BY <1>0, <2>2, <3>1 DEF WatchInv
    <3>3. b \in DOMAIN down /\ b > j
      BY <1>1, <2>5, <3>1, <3>2
    <3> QED BY <2>5, <2>6, <3>2, <3>3
  <2>10. j \in 1..k
    BY <1>1, <2>5, <2>7
  <2> QED BY <2>8, <2>9, <2>10 DEF Reaches
<1> QED BY <1>2, <1>3

(* A commit is settled by its verdict or by the marker that covers it.     *)
LEMMA NewlyDone ==
  ASSUME DeliveryInv, Next, NEW n \in DOMAIN mine', mine'[n].at = "done",
         ~(n \in DOMAIN mine /\ mine[n].at = "done")
  PROVE  /\ n \in DOMAIN mine /\ mine[n].at \in {"answered", "parked"}
         /\ mine'[n].ok = mine[n].ok /\ mine'[n].seq = mine[n].seq
         /\ mine'[n].doc = mine[n].doc
         /\ \/ Settle(n) /\ n <= marker
            \/ RepairTimesOut(n) /\ ~mine[n].ok
            \/ /\ Effect \/ CallAnswered \/ Restored
               /\ Absorb(Head(down)) /\ n <= marker' /\ mine[n].at = "parked"
<1>0. Types /\ OrderInv /\ AnswerInv /\ ValueInv
  BY DEF DeliveryInv
<1>1. n \in DOMAIN mine
  <2> SUFFICES ASSUME n \notin DOMAIN mine PROVE FALSE
    OBVIOUS
  <2>1. PICK d \in Docs, op \in {"set", "patch"} : Commit(d, op)
    BY <1>0, Committed
  <2>2. mine'[n].at = "sent"
    BY <1>0, <2>1, CommitEffect
  <2> QED BY <2>2
<1>2. mine[n].at # "done" /\ n \in Nat /\ marker \in Nat
  BY <1>0, <1>1, TypeFacts
<1>3. ASSUME NEW m \in DOMAIN mine, Resolve(m) PROVE m = n
  BY <1>0, <1>1, <1>2, <1>3, ResolveEffect
<1>4. CASE \E m \in DOMAIN mine : Resolve(m)
  <2>1. Resolve(n)
    BY <1>3, <1>4
  <2>2. /\ mine[n].at \in {"answered", "parked"} /\ mine'[n].ok = mine[n].ok
        /\ mine'[n].seq = mine[n].seq /\ mine'[n].doc = mine[n].doc
    BY <1>0, <1>1, <2>1, ResolveEffect DEF SameCore
  <2>3. Settle(n) => n <= marker
    <3>1. Settle(n) /\ n > marker => mine'[n].at = "parked"
      BY <1>0, <1>1, SettleEffect
    <3> QED BY <1>2, <3>1
  <2>4. RepairTimesOut(n) => ~mine[n].ok
    BY DEF RepairTimesOut
  <2> QED BY <1>1, <2>1, <2>2, <2>3, <2>4 DEF Resolve
<1>5. CASE Effect \/ CallAnswered \/ Restored
  <2>1. Absorb(Head(down)) /\ Head(down).type # "verdict" /\ down # <<>>
    BY <1>5 DEF Effect, CallAnswered, Restored, Received
  <2>2. PICK f \in Syncs : f = down[1] /\ 1 \in DOMAIN down /\ Absorb(f)
    BY <1>0, <2>1, DownHead
  <2>3. Settled(f)
    BY <1>0, <2>2, AbsorbEffect
  <2>4. n <= marker' /\ mine[n].at = "parked"
    BY <1>1, <1>2, <2>3 DEF Settled
  <2>5. mine'[n].ok = mine[n].ok /\ mine'[n].seq = mine[n].seq /\ mine'[n].doc = mine[n].doc
    BY <1>1, <2>3 DEF Settled, SameCore
  <2> QED BY <1>1, <1>5, <2>1, <2>4, <2>5
<1>6. CASE Verdict
  BY <1>0, <1>1, <1>2, <1>6, VerdictEffect
<1>7. CASE mine' = mine
  BY <1>1, <1>2, <1>7
<1>8. ASSUME NEW d \in Docs, NEW op \in {"set", "patch"}, Commit(d, op) PROVE FALSE
  BY <1>0, <1>1, <1>2, <1>8, CommitEffect
<1>9. Inner \/ Reconnect \/ Call \/ Lose \/ Serve \/ ServerStep => mine' = mine
  <2>1. Inner => mine' = mine
    BY <1>0, InnerFacts DEF ClientKept
  <2>2. Serve \/ ServerStep => mine' = mine
    BY SendKinds
  <2> QED BY <2>1, <2>2 DEF Reconnect, Call, Lose
<1> QED BY <1>4, <1>5, <1>6, <1>7, <1>8, <1>9, StepKinds DEF Quieter, Receives

(* A commit that is settled is in the replica.                             *)
LEMMA PromotedReaches ==
  ASSUME DeliveryInv, Next, NEW n \in DOMAIN mine', mine'[n].at = "done", ~(n \in DOMAIN mine /\ mine[n].at = "done"),
         mine[n].ok
  PROVE  /\ held' \in [Docs -> Record] /\ held'[mine[n].doc].seq >= mine[n].seq
         /\ n \in Nat \ {0} /\ RecordedAs(n, mine[n].seq) /\ mine[n].seq \in Nat
            /\ mine[n].doc \in Docs
<1>0. Types /\ OrderInv /\ AnswerInv /\ ValueInv /\ mine \in Seq(Own)
      /\ held \in [Docs -> Record]
  BY DEF DeliveryInv, Types
<1>1. /\ n \in DOMAIN mine /\ mine[n].at \in {"answered", "parked"}
      /\ \/ Settle(n) /\ n <= marker
         \/ /\ Effect \/ CallAnswered \/ Restored
            /\ Absorb(Head(down)) /\ n <= marker' /\ mine[n].at = "parked"
  BY NewlyDone
<1>2. mine[n] \in Own /\ n \in Nat \ {0}
  BY <1>0, <1>1
<1>3. RecordedAs(n, mine[n].seq)
  BY <1>0, <1>1 DEF AnswerInv, Told
<1>4. mine[n].seq \in Nat /\ mine[n].doc \in Docs
  BY <1>2 DEF Own
<1>5. CASE Settle(n) /\ n <= marker
  <2>1. held' = Promoted(held, mine, {n})
    BY <1>0, <1>1, <1>5, SettleEffect
  <2> QED BY <1>0, <1>1, <1>2, <1>3, <1>4, <2>1, PromotedFacts
<1>6. CASE /\ Effect \/ CallAnswered \/ Restored
           /\ Absorb(Head(down)) /\ n <= marker' /\ mine[n].at = "parked"
  <2>1. Head(down).type # "verdict" /\ down # <<>>
    BY <1>6 DEF Effect, CallAnswered, Restored, Received
  <2>2. PICK f \in Syncs : f = down[1] /\ 1 \in DOMAIN down /\ Absorb(f)
    BY <1>0, <1>6, <2>1, DownHead
  <2>3. PICK h : /\ Brought(f, h)
                 /\ held' = Promoted(h, mine, {m \in DOMAIN mine : m <= marker' /\ mine[m].at = "parked" /\ mine[m].ok})
    BY <1>0, <2>2, AbsorbEffect
  <2>4. h \in [Docs -> Record]
    BY <2>3 DEF Brought
  <2>5. n \in {m \in DOMAIN mine : m <= marker' /\ mine[m].at = "parked" /\ mine[m].ok}
    BY <1>1, <1>6
  <2> QED BY <1>0, <1>2, <1>3, <1>4, <2>3, <2>4, <2>5, PromotedFacts
<1> QED BY <1>1, <1>5, <1>6

(* A commit settled by this step is reached from every frame on.           *)
LEMMA DoneNew ==
  ASSUME DeliveryInv, Next, NEW n \in DOMAIN mine', mine'[n].at = "done", ~(n \in DOMAIN mine /\ mine[n].at = "done"),
         mine[n].ok, NEW d, d = mine[n].doc, NEW k \in 0..End', Point(d, k)'
  PROVE  Reaches(held', down', d, k, mine[n].seq)
<1>0. Types /\ down \in Seq(DownFrame)
  BY DEF DeliveryInv, Types
<1>1. /\ \/ Settle(n)
         \/ (Effect \/ CallAnswered \/ Restored) /\ Absorb(Head(down))
      /\ n \in DOMAIN mine
  BY NewlyDone
<1>2. PICK s \in Nat : s = mine[n].seq
  BY PromotedReaches
<1>3. /\ held' \in [Docs -> Record] /\ held'[d].seq >= s /\ n \in Nat \ {0} /\ RecordedAs(n, s)
      /\ d \in Docs /\ held'[d].seq \in Nat
  <2>1. held' \in [Docs -> Record] /\ held'[d].seq >= s /\ n \in Nat \ {0}
        /\ RecordedAs(n, s) /\ d \in Docs
    BY <1>2, PromotedReaches
  <2> QED BY <2>1 DEF Record
<1>4. PICK g : g = held'
  OBVIOUS
<1>5. CASE Settle(n)
  <2>1. Quieter
    BY <1>1, <1>5 DEF Quieter, Resolve
  <2>2. k \in 0..End /\ Point(d, k) /\ down' = down
    BY <1>3, <2>1, PointQuiet
  <2>3. Reaches(g, down, d, k, s)
    BY <1>3, <1>4, <2>2, OwnReaches
  <2> QED BY <1>2, <1>4, <2>2, <2>3
<1>6. CASE (Effect \/ CallAnswered \/ Restored) /\ Absorb(Head(down))
  <2>1. Receives /\ down # <<>> /\ down' = Tail(down)
    BY <1>6 DEF Receives, Effect, CallAnswered, Restored, Received
  <2>2. k \in Nat /\ k + 1 \in 0..End /\ Point(d, k + 1)
    BY <1>3, <2>1, PointReceived
  <2>3. Reaches(g, down, d, k + 1, s)
    BY <1>3, <1>4, <2>2, OwnReaches
  <2>4. k \in 0..(Len(down) - 1)
    <3>1. End = Len(down) /\ Len(down) \in Nat
      BY <1>0, TypeFacts
    <3> QED BY <2>2, <3>1
  <2>5. Reaches(g, Tail(down), d, k, s)
    BY <1>0, <1>3, <1>4, <2>1, <2>3, <2>4, ReachAbsorbed
  <2> QED BY <1>2, <1>4, <2>1, <2>5
<1> QED BY <1>1, <1>5, <1>6

(* What the replica has wherever the client counts on a document, it keeps.*)
LEMMA ReachCarried ==
  ASSUME DeliveryInv, Next, NEW d \in Docs, NEW s \in Nat, s <= HeadSeq(d),
         \A j \in 0..End : Point(d, j) => Reaches(held, down, d, j, s),
         NEW k \in 0..End', Point(d, k)'
  PROVE  Reaches(held', down', d, k, s)
<1>0. Types /\ HeadSeq(d) \in Nat
  BY HeadFacts DEF DeliveryInv
<1>4. CASE Quieter
  <2>1. k \in 0..End /\ Point(d, k)
    BY <1>4, PointQuiet
  <2>2. Reaches(held, down, d, k, s)
    BY <2>1
  <2> QED BY <1>4, <2>1, <2>2, ReachQuiet DEF Quieter
<1>5. CASE Lose
  <2>1. k = 0 /\ k \in 0..End /\ Point(d, k) /\ held' = held /\ down' = <<>>
    BY <1>5, PointLost
  <2>2. Reaches(held, down, d, k, s)
    BY <2>1
  <2>3. \A j \in 1..k : FALSE
    BY <2>1
  <2> QED BY <2>1, <2>2, <2>3 DEF Reaches
<1>6. CASE Receives
  <2>1. k + 1 \in 0..End /\ Point(d, k + 1)
    BY <1>6, PointReceived
  <2>2. Reaches(held, down, d, k + 1, s)
    BY <2>1
  <2> QED BY <1>6, <2>2, ReachReceived DEF Receives
<1>7. CASE Serve \/ ServerStep
  <2>1. held' = held
    BY <1>7, SendKinds
  <2>2. CASE k \in 0..End /\ Point(d, k) /\ \A j \in 1..k : down'[j] = down[j]
    <3>1. Reaches(held, down, d, k, s)
      BY <2>2
    <3>2. k \in Nat
      BY <2>2
    <3> QED BY <2>1, <2>2, <3>1, <3>2, ReachSame
  <2>3. ASSUME NEW e, SentLast(e), k = End', d \in session'.watches
        PROVE  Reaches(held', down', d, k, s)
    <3>1. CASE Brings(e, d)
      <4>1. /\ held' \in [Docs -> Record] /\ down' \in Seq(DownFrame)
            /\ k \in 0..Len(down')
        BY <2>3, TypesStep DEF Types, End
      <4>2. Reaches(held', down', d, k, HeadSeq(d))
        BY <2>3, <3>1 DEF Brings
      <4> QED BY <1>0, <4>1, <4>2, ReachWeaker
    <3>2. CASE Live /\ d \in session.watches
      <4>1. End \in 0..End /\ Point(d, End)
        BY <1>0, <3>2, TypeFacts DEF Point
      <4>2. Reaches(held, down, d, End, s)
        BY <4>1
      <4>3. ~Lose
        BY <2>3 DEF Lose, SentLast, Live
      <4> QED BY <2>3, <4>2, <4>3, ReachStays
    <3> QED BY <2>3, <3>1, <3>2 DEF SentLast
  <2>4. \/ k \in 0..End /\ Point(d, k) /\ (\A j \in 1..k : down'[j] = down[j])
        \/ \E e : SentLast(e) /\ k = End' /\ d \in session'.watches
    BY <1>7, PointSent
  <2> QED BY <2>2, <2>3, <2>4
<1> QED BY <1>4, <1>5, <1>6, <1>7, StepKinds

(* Every step keeps the settled commits in the replica.                    *)
LEMMA DoneStep == ASSUME DeliveryInv, Next PROVE DoneInv'
<1>0. Types /\ LogInv /\ OrderInv /\ AnswerInv /\ ValueInv /\ DoneInv
  BY DEF DeliveryInv
<1>1. SUFFICES ASSUME NEW n \in DOMAIN mine', mine'[n].at = "done", mine'[n].ok, NEW k \in 0..End',
                      Point(mine[n].doc, k)'
               PROVE  Reaches(held, down, mine[n].doc, k, mine[n].seq)'
  BY DEF DoneInv
<1>2. CASE n \in DOMAIN mine /\ mine[n].at = "done"
  <2>1. /\ mine'[n].doc = mine[n].doc /\ mine'[n].ok = mine[n].ok /\ mine'[n].seq = mine[n].seq
    BY <1>0, <1>2, CoreStep DEF CoreKept
  <2>2. n \in Nat \ {0} /\ mine[n] \in Own /\ RecordedAs(n, mine[n].seq)
    <3>1. n \in Nat \ {0} /\ mine[n] \in Own
      BY <1>0, <1>2, TypeFacts
    <3> QED BY <1>0, <1>1, <1>2, <2>1, <3>1 DEF AnswerInv, Told
  <2>3. PICK d \in Docs : d = mine[n].doc
    BY <2>2 DEF Own
  <2>4. PICK s \in Nat : s = mine[n].seq
    BY <2>2 DEF Own
  <2>5. s <= HeadSeq(d)
    BY <1>0, <2>2, <2>3, <2>4, RecordFacts
  <2>6. \A j \in 0..End : Point(d, j) => Reaches(held, down, d, j, s)
    BY <1>0, <1>1, <1>2, <2>1, <2>3, <2>4 DEF DoneInv
  <2>7. Point(d, k)'
    BY <1>1, <2>1, <2>3 DEF Point, AddedIn
  <2>8. Reaches(held', down', d, k, s)
    BY <2>5, <2>6, <2>7, ReachCarried
  <2> QED BY <2>1, <2>3, <2>4, <2>8
<1>3. CASE ~(n \in DOMAIN mine /\ mine[n].at = "done")
  <2>1. /\ mine'[n].doc = mine[n].doc /\ mine'[n].ok = mine[n].ok /\ mine'[n].seq = mine[n].seq
    BY <1>1, <1>3, NewlyDone
  <2>2. PICK d : d = mine[n].doc
    OBVIOUS
  <2>3. Point(d, k)'
    BY <1>1, <2>1, <2>2 DEF Point, AddedIn
  <2>4. Reaches(held', down', d, k, mine[n].seq)
    BY <1>1, <1>3, <2>1, <2>2, <2>3, DoneNew
  <2> QED BY <2>1, <2>2, <2>4
<1> QED BY <1>2, <1>3

(* The answer to an add, when its document may have been dropped before it.*)
Restores(f, d) == \A i \in DOMAIN log : log[i].doc = d /\ log[i].by # 0 => Raises(f, d, i + 1)

(* An answer keeps bringing the commits of its document: no own commit of  *)
(* a document is served while it is being added.                           *)
LEMMA RestoresStep ==
  ASSUME DeliveryInv, Next, NEW j \in DOMAIN down, down[j].type = "added",
         NEW f, f = down[j], NEW d, d = call.doc, Restores(f, d)
  PROVE  Restores(f, d)'
<1>0. Types /\ LinkInv /\ CallInv /\ LogInv /\ OrderInv
  BY DEF DeliveryInv
<1>3. \A i \in DOMAIN log : log[i].doc = d /\ log[i].by # 0 => Raises(f, d, i + 1)
  BY DEF Restores
<1>4. ASSUME NEW i \in DOMAIN log', log'[i].doc = d, log'[i].by # 0 PROVE Raises(f, d, i + 1)
  <2>1. CASE log' = log
    BY <1>3, <1>4, <2>1
  <2>2. ASSUME NEW e \in Entry, log' = Append(log, e), e.by = 0 \/ e.doc # d PROVE Raises(f, d, i + 1)
    <3>1. i \in DOMAIN log /\ log'[i] = log[i]
      <4>1. i \in DOMAIN log \/ log'[i] = e
        BY <1>0, <2>2, LogGrows
      <4>2. i \in DOMAIN log => log'[i] = log[i]
        BY <1>0, <2>2, LogGrows
      <4> QED BY <1>4, <2>2, <4>1, <4>2
    <3> QED BY <1>3, <1>4, <3>1
  <2>3. ASSUME NEW x \in Docs, ForeignCommit(x) PROVE Raises(f, d, i + 1)
    BY <1>0, <2>2, <2>3, ForeignCommitEffect
  <2>4. CASE ReceiveCommit
    <3>1. PICK n, ok, seq : CommitServed(n, ok, seq)
      BY <1>0, <2>4, ReceiveCommitEffect
    <3>2. mine[n].doc # d
      <4> SUFFICES ASSUME mine[n].doc = d PROVE FALSE
        OBVIOUS
      <4>1. up # <<>> /\ IsCommit(up[1]) /\ up[1].id = n /\ 1 \in DOMAIN up
        BY <1>0, <3>1, TypeFacts DEF CommitServed, IsCommit
      <4>2. up[1].doc = d
        <5>1. up[1] = CommitFrame(mine, n)
          BY <1>0, <4>1 DEF OrderInv
        <5> QED BY <5>1 DEF CommitFrame
      <4>3. call.op = "add"
        BY <1>0 DEF CallInv
      <4>4. PICK m \in 2..Len(up) : up[m].type = "add"
        BY <1>0, <4>1, <4>2, <4>3 DEF OrderInv
      <4>5. m \in DOMAIN up
        BY <1>0, <4>4, TypeFacts
      <4> QED BY <1>0, <4>4, <4>5 DEF CallInv, IsCall, IsAnswer
    <3>3. ASSUME NEW e, Accepted(n, e) PROVE Raises(f, d, i + 1)
      BY <2>2, <3>2, <3>3 DEF Accepted
    <3> QED BY <2>1, <3>1, <3>3 DEF CommitServed, Answered, Refused
  <2> QED BY <2>1, <2>3, <2>4, QuietLog
<1> QED BY <1>4 DEF Restores, Raises

(* Every step keeps the answers to additions: no drop is behind them, or   *)
(* they bring the commits.                                                 *)
LEMMA AddedStep == ASSUME DeliveryInv, Next PROVE AddedInv'
<1>0. Types /\ LinkInv /\ CallInv /\ WatchInv /\ AddedInv /\ CallInv' /\ Types'
  BY CallStep, TypesStep DEF DeliveryInv
<1>1. SUFFICES ASSUME NEW j \in DOMAIN down', down'[j].type = "added"
               PROVE  (\A i \in 1..j : ~Drops(down'[i], call'.doc)) \/ Restores(down[j], call.doc)'
  BY DEF AddedInv, Restores, Drops
<1>2. /\ call' # NoCall /\ \A m \in DOMAIN down' : IsAnswer(down'[m]) => m = j
  BY <1>0, <1>1 DEF CallInv, IsAnswer
<1>3. DOMAIN down = 1..End /\ End \in Nat /\ down \in Seq(DownFrame) /\ End = Len(down)
  BY <1>0, TypeFacts DEF Types
<1>4. ASSUME NEW m \in DOMAIN down, down[m].type = "added", call' = call, down'[j] = down[m],
             \A i \in 1..j : \E b \in 1..m : down'[i] = down[b]
      PROVE  (\A i \in 1..j : ~Drops(down'[i], call'.doc)) \/ Restores(down[j], call.doc)'
  <2>1. PICK f, d : f = down[m] /\ d = call.doc
    OBVIOUS
  <2>2. CASE \A i \in 1..m : ~Drops(down[i], d)
    <3>1. \A i \in 1..j : ~Drops(down'[i], d)
      BY <1>4, <2>2
    <3> QED BY <1>4, <2>1, <3>1
  <2>3. CASE Restores(f, d)
    <3>1. Restores(f, d)'
      BY <1>4, <2>1, <2>3, RestoresStep
    <3> QED BY <1>4, <2>1, <3>1 DEF Restores, Raises
  <2> QED BY <1>0, <1>4, <2>1, <2>2, <2>3 DEF AddedInv, Restores
<1>5. CASE down' = down /\ call' = call
  <2>1. j \in DOMAIN down /\ \A i \in 1..j : i \in 1..j /\ down'[i] = down[i]
    BY <1>1, <1>5
  <2> QED BY <1>1, <1>4, <1>5, <2>1
<1>6. CASE Lose
  <2>1. down' = <<>>
    BY <1>6 DEF Lose
  <2> QED BY <1>1, <2>1
<1>7. CASE Receives
  <2>1. down # <<>> /\ down' = Tail(down)
    BY <1>7 DEF Receives, Effect, CallAnswered, Restored, Verdict, Received
  <2>2. \A i \in DOMAIN down' :
          i \in Nat \ {0} /\ i + 1 \in DOMAIN down /\ down'[i] = down[i + 1]
    BY <1>0, <2>1, ReceivedFrames
  <2>3. call' = call
    <3>1. ~CallAnswered
      BY <1>2 DEF CallAnswered
    <3> QED BY <1>7, <3>1 DEF Receives, Effect, Restored, Verdict
  <2>4. \A i \in 1..j : i \in DOMAIN down' /\ i + 1 \in 1..(j + 1)
    <3>1. DOMAIN down' = 1..Len(down') /\ Len(down') \in Nat
      BY <1>0 DEF Types
    <3> QED BY <1>1, <3>1
  <2>5. \A i \in 1..j : \E b \in 1..(j + 1) : down'[i] = down[b]
    BY <2>2, <2>4
  <2>6. PICK m \in DOMAIN down : m = j + 1 /\ down'[j] = down[m] /\ down[m].type = "added"
    BY <1>1, <2>2
  <2>7. \A i \in 1..j : \E b \in 1..m : down'[i] = down[b]
    BY <2>5, <2>6
  <2> QED BY <1>4, <2>3, <2>6, <2>7
<1>8. CASE Serve \/ ServerStep
  <2>1. call' = call
    BY <1>8, SendKinds
  <2>2. ASSUME NEW f \in DownFrame, down' = Append(down, f), f.type = "added" => ReceiveAdd
        PROVE  (\A i \in 1..j : ~Drops(down'[i], call'.doc)) \/ Restores(down[j], call.doc)'
    <3>1. /\ \A i \in 1..End : down'[i] = down[i]
          /\ down'[End + 1] = f /\ (j \in DOMAIN down \/ j = End + 1)
      BY <1>1, <1>3, <2>2
    <3>2. CASE j \in DOMAIN down
      <4>1. \A i \in 1..j : i \in 1..End
        BY <1>3, <3>2
      <4>2. down'[j] = down[j] /\ \A i \in 1..j : \E b \in 1..j : down'[i] = down[b]
        BY <1>3, <3>1, <3>2, <4>1
      <4> QED BY <1>1, <1>4, <2>1, <3>2, <4>2
    <3>3. CASE j = End + 1
      <4>1. ReceiveAdd
        BY <1>1, <2>2, <3>1, <3>3
      <4>2. PICK d, g : AddServed(d, g)
        BY <1>0, <4>1, ReceiveAddEffect
      <4>3. Live /\ 1 \in DOMAIN up /\ up[1].type = "add" /\ call.doc = d /\ d \in Docs
        <5>1. up # <<>> /\ up[1].type = "add" /\ up[1].doc = d /\ d \in Docs
          BY <4>2 DEF AddServed
        <5>2. 1 \in DOMAIN up
          BY <1>0, <5>1, TypeFacts
        <5> QED BY <1>0, <5>1, <5>2, Connected DEF CallInv
      <4>4. f = g
        <5>1. down' = Append(down, g)
          BY <4>2, <4>3 DEF AddServed, Sent, Live
        <5>2. down'[End + 1] = g
          BY <1>3, <4>2, <5>1 DEF AddServed
        <5> QED BY <3>1, <5>2
      <4>5. CASE d \in session.watches
        <5>1. \A m \in DOMAIN down : ~IsAnswer(down[m])
          BY <1>0, <4>3 DEF CallInv, IsCall
        <5>2. \A i \in DOMAIN down : ~Drops(down[i], d)
          <6> SUFFICES ASSUME NEW i \in DOMAIN down, Drops(down[i], d) PROVE FALSE
            OBVIOUS
          <6>1. PICK m \in (i + 1)..End : down[m].type = "added"
            BY <1>0, <4>3, <4>5 DEF WatchInv
          <6>2. m \in DOMAIN down
            BY <1>3, <6>1
          <6> QED BY <5>1, <6>1, <6>2 DEF IsAnswer
        <5>3. \A i \in 1..j : ~Drops(down'[i], d)
          <6>1. \A i \in 1..j : i \in DOMAIN down \/ i = End + 1
            BY <1>3, <3>3
          <6>2. ~Drops(f, d)
            BY <4>2, <4>4 DEF AddServed
          <6> QED BY <1>3, <3>1, <5>2, <6>1, <6>2
        <5> QED BY <2>1, <4>3, <5>3
      <4>6. CASE d \notin session.watches
        <5>1. HeadSeq(d) \in Nat /\ HeadSeq(d) >= 1 /\ \A i \in DOMAIN log : log[i].doc = d =>
                i + 1 <= HeadSeq(d)
          BY <1>0, <4>3, HeadFacts
        <5>2. session.cached[d] # HeadSeq(d)
          <6>1. session.cached[d] \in {Nothing, 0}
            BY <1>0, <4>3, <4>6 DEF WatchInv
          <6> QED BY <5>1, <6>1 DEF Nothing
        <5>3. \A i \in DOMAIN log : log[i].doc = d => HeadSeq(d) >= i + 1
          <6>1. \A i \in DOMAIN log : i \in Nat
            BY <1>0, TypeFacts
          <6> QED BY <5>1, <6>1
        <5>4. \A i \in DOMAIN log : log[i].doc = d => Raises(f, d, i + 1)
          BY <4>2, <4>4, <4>6, <5>2, <5>3 DEF AddServed
        <5>5. log' = log /\ down'[j] = f /\ call'.doc = d
          BY <2>1, <3>1, <3>3, <4>1, <4>3, Unchanged
        <5> QED BY <5>4, <5>5 DEF Restores, Raises
      <4> QED BY <4>5, <4>6
    <3> QED BY <3>1, <3>2, <3>3
  <2>3. CASE down' = down
    BY <1>5, <2>1, <2>3
  <2>4. \/ down' = down
        \/ \E f \in DownFrame : down' = Append(down, f) /\ (f.type = "added" => ReceiveAdd)
    <3>0. LogInv /\ OrderInv
      BY DEF DeliveryInv
    <3>1. CASE Serve
      <4>1. Sent(EffectFrame) \/ down' = down
        BY <1>0, <3>1, ServeEffect
      <4>2. EffectFrame \in DownFrame /\ EffectFrame.type = "effect"
        BY <1>0, EffectFrameFacts
      <4> QED BY <4>1, <4>2 DEF Sent
    <3>2. CASE ReceiveCommit
      <4>1. PICK n, ok, seq : CommitServed(n, ok, seq)
        BY <1>0, <3>0, <3>2, ReceiveCommitEffect
      <4>2. PICK f : f = [type |-> "verdict", id |-> n, ok |-> ok, seq |-> seq]
        OBVIOUS
      <4>3. f \in DownFrame /\ f.type = "verdict"
        <5>1. n \in Nat /\ ok \in BOOLEAN /\ seq \in Nat
          BY <1>0, <4>1, TypeFacts DEF CommitServed
        <5> QED BY <4>2, <5>1 DEF DownFrame, Verdicts
      <4> QED BY <4>1, <4>2, <4>3 DEF CommitServed
    <3>3. CASE ReceiveAdd
      <4>1. PICK d, f : AddServed(d, f)
        BY <1>0, <3>3, ReceiveAddEffect
      <4> QED BY <3>3, <4>1 DEF AddServed, Sent
    <3>4. CASE ReceiveSet
      <4>1. PICK ws, f : SetServed(ws, f)
        BY <1>0, <3>4, ReceiveSetEffect
      <4> QED BY <4>1 DEF SetServed, Sent
    <3>5. CASE ReceiveOpen
      <4>1. PICK f : OpenServed(f)
        BY <1>0, <3>5, ReceiveOpenEffect
      <4> QED BY <4>1 DEF OpenServed
    <3> QED BY <1>8, <3>1, <3>2, <3>3, <3>4, <3>5 DEF ServerStep
  <2> QED BY <2>2, <2>3, <2>4
<1>9. CASE Quieter
  <2>1. CASE Call
    <3>1. call = NoCall /\ down' = down
      BY <2>1 DEF Call
    <3> QED BY <1>0, <1>1, <3>1 DEF CallInv, IsAnswer
  <2>2. CASE Inner \/ Reconnect
    BY <1>0, <1>5, <2>2, InnerFacts DEF ClientKept, Reconnect
  <2>3. ASSUME NEW x \in Docs, NEW op \in {"set", "patch"}, Commit(x, op) PROVE down' = down
               /\ call' = call
    BY <2>3, Unchanged
  <2>4. ASSUME NEW n \in DOMAIN mine, Resolve(n) PROVE down' = down /\ call' = call
    BY <2>4, Unchanged
  <2> QED BY <1>5, <1>9, <2>1, <2>2, <2>3, <2>4 DEF Quieter
<1> QED BY <1>6, <1>7, <1>8, <1>9, StepKinds

(* A frame that is absorbed brings the document to the seq it has, and     *)
(* takes nothing unless it drops it.                                       *)
LEMMA BroughtRaises ==
  ASSUME Types, NotBoth, NEW f \in DownFrame, NEW i \in DOMAIN down, f = down[i],
         NEW h, Brought(f, h), NEW d \in Docs
  PROVE  /\ ~Drops(f, d) => h[d].seq >= held[d].seq
         /\ \A s \in Nat : Raises(f, d, s) => h[d].seq >= s
         /\ h[d].seq \in Nat /\ held[d].seq \in Nat
<1>1. h \in [Docs -> Record] /\ held \in [Docs -> Record]
  BY DEF Brought, Types
<1>2. h[d].seq \in Nat /\ held[d].seq \in Nat
  BY <1>1 DEF Record
<1>3. /\ \A s \in Nat : Raises(f, d, s) => f.ups[d] \in Nat /\ f.ups[d] >= s /\ Raises(f, d, 0)
      /\ \A s, t \in Nat : Raises(f, d, t) /\ s <= t => Raises(f, d, s)
  BY FrameFacts
<1>4. ~Drops(f, d) => h[d].seq >= held[d].seq
  <2>1. CASE ~Drops(f, d) /\ Raises(f, d, held[d].seq)
    <3>1. h[d].seq = f.ups[d]
      BY <2>1 DEF Brought
    <3> QED BY <1>2, <1>3, <2>1, <3>1
  <2>2. CASE ~Drops(f, d) /\ ~Raises(f, d, held[d].seq)
    <3>1. h[d] = held[d]
      BY <2>2 DEF Brought
    <3> QED BY <1>2, <3>1
  <2> QED BY <2>1, <2>2
<1>5. ASSUME NEW s \in Nat, Raises(f, d, s) PROVE h[d].seq >= s
  <2>1. ~Drops(f, d)
    BY <1>3, <1>5 DEF NotBoth
  <2>2. CASE Raises(f, d, held[d].seq)
    <3>1. h[d].seq = f.ups[d]
      BY <2>1, <2>2 DEF Brought
    <3> QED BY <1>3, <1>5, <3>1
  <2>3. CASE ~Raises(f, d, held[d].seq)
    <3>1. h[d] = held[d]
      BY <2>1, <2>3 DEF Brought
    <3>2. ~(held[d].seq <= s)
      BY <1>2, <1>3, <1>5, <2>3
    <3> QED BY <1>2, <3>1, <3>2
  <2> QED BY <2>2, <2>3
<1> QED BY <1>2, <1>4, <1>5

(* What a replica holds is durable, or a frame that replaces it is due.    *)
Heals(h, dn, d, k) ==
  \/ h[d].value = Durable(h[d].seq)
  \/ \E j \in 1..k : Raises(dn[j], d, h[d].seq) \/ Drops(dn[j], d)
Accepts(ns) == \A n \in ns : mine[n].at \in {"answered", "parked"} /\ mine[n].ok

(* The own commits promoted were recorded in their order.                  *)
LEMMA AcceptedOrder ==
  ASSUME Types, LogInv, AnswerInv, NEW ns \in SUBSET DOMAIN mine, Accepts(ns)
  PROVE  /\ \A n \in ns : /\ n \in Nat \ {0} /\ mine[n].seq \in Nat /\ RecordedAs(n, mine[n].seq)
                          /\ mine[n].op \in {"set", "patch"}
         /\ \A i, j \in ns : i < j => mine[i].seq < mine[j].seq
<1>1. \A n \in ns : n \in Nat \ {0} /\ mine[n] \in Own /\ RecordedAs(n, mine[n].seq)
  BY TypeFacts DEF Accepts, AnswerInv, Told
<1>2. \A n \in ns :
        n \in Nat \ {0} /\ mine[n].seq \in Nat /\ RecordedAs(n, mine[n].seq)
      /\ mine[n].op \in {"set", "patch"}
  BY <1>1 DEF Own
<1>3. ASSUME NEW i \in ns, NEW j \in ns, i < j PROVE mine[i].seq < mine[j].seq
  <2>1. PICK a \in DOMAIN log, b \in DOMAIN log :
           a = mine[i].seq - 1 /\ b = mine[j].seq - 1 /\ log[a].by = i /\ log[b].by = j
    BY <1>2 DEF RecordedAs
  <2>2. a \in Nat /\ b \in Nat /\ i \in Nat \ {0} /\ j \in Nat \ {0}
    BY <1>2, TypeFacts
  <2>3. b < a => j < i
    BY <2>1, <2>2 DEF LogInv
  <2>4. a # b
    BY <1>3, <2>1, <2>2
  <2>5. a < b
    BY <1>3, <2>2, <2>3, <2>4
  <2> QED BY <1>2, <2>1, <2>2, <2>5
<1> QED BY <1>2, <1>3

(* A promotion leaves a document or gives it the seq of an accepted        *)
(* commit; a set leaves its own durable value.                             *)
LEMMA PromotedBy ==
  ASSUME Types, LogInv, AnswerInv, NEW ns \in SUBSET DOMAIN mine, Accepts(ns),
         NEW h \in [Docs -> Record], NEW d \in Docs
  PROVE  \/ Promoted(h, mine, ns)[d] = h[d]
         \/ \E n \in ns, s \in Nat :
              /\ mine[n].doc = d /\ mine[n].seq = s /\ h[d].seq < s
                 /\ Promoted(h, mine, ns)[d].seq = s
              /\ RecordedAs(n, s) /\ s <= HeadSeq(d)
              /\ mine[n].op = "set" => Promoted(h, mine, ns)[d].value = Durable(s)
              /\ mine[n].op \in {"set", "patch"}
<1>0. mine \in Seq(Own)
  BY DEF Types
<1>1. /\ \A n \in ns : /\ n \in Nat \ {0} /\ mine[n].seq \in Nat /\ RecordedAs(n, mine[n].seq)
                       /\ mine[n].op \in {"set", "patch"}
      /\ \A i, j \in ns : i < j => mine[i].seq < mine[j].seq
  BY AcceptedOrder
<1>2. PICK g : g = Promoted(h, mine, ns)
  OBVIOUS
<1>3. \/ g[d] = h[d]
      \/ \E n \in ns : /\ mine[n].doc = d /\ h[d].seq < mine[n].seq /\ g[d].seq = mine[n].seq
                       /\ mine[n].op = "set" => g[d].value = {mine[n].seq}
  BY <1>0, <1>1, <1>2, PromotedFacts
<1>4. ASSUME NEW n \in ns, mine[n].doc = d, h[d].seq < mine[n].seq, g[d].seq = mine[n].seq,
             mine[n].op = "set" => g[d].value = {mine[n].seq}
      PROVE  \E s \in Nat :
              /\ mine[n].doc = d /\ mine[n].seq = s /\ h[d].seq < s /\ g[d].seq = s
              /\ RecordedAs(n, s) /\ s <= HeadSeq(d)
              /\ mine[n].op = "set" => g[d].value = Durable(s)
              /\ mine[n].op \in {"set", "patch"}
  <2>1. PICK s \in Nat : s = mine[n].seq
    BY <1>1
  <2>2. RecordedAs(n, s) /\ n \in Nat \ {0} /\ mine[n].op \in {"set", "patch"}
    BY <1>1, <2>1
  <2>3. s <= HeadSeq(d) /\ (mine[n].op = "set" => Durable(s) = {s})
    BY <1>4, <2>2, RecordFacts
  <2> QED BY <1>4, <2>1, <2>2, <2>3
<1> QED BY <1>2, <1>3, <1>4

(* A promotion keeps a document sound, or to be healed by what is in       *)
(* flight: for a patch because its seq is in flight.                       *)
LEMMA PromotedHeals ==
  ASSUME Types, LogInv, AnswerInv, NEW ns \in SUBSET DOMAIN mine, Accepts(ns),
         NEW h \in [Docs -> Record], NEW dn, NEW d \in Docs, NEW k \in Nat, Heals(h, dn, d, k),
         \A n \in ns : mine[n].doc = d /\ mine[n].op = "patch" =>
           Reaches(h, dn, d, k, mine[n].seq)
  PROVE  Heals(Promoted(h, mine, ns), dn, d, k)
<1>1. PICK g : g = Promoted(h, mine, ns)
  OBVIOUS
<1>2. CASE g[d] = h[d]
  BY <1>1, <1>2 DEF Heals
<1>3. ASSUME NEW n \in ns, NEW s \in Nat,
             mine[n].doc = d, mine[n].seq = s, h[d].seq < s, g[d].seq = s,
             mine[n].op = "set" => g[d].value = Durable(s), mine[n].op \in {"set", "patch"}
      PROVE  Heals(g, dn, d, k)
  <2>1. CASE mine[n].op = "set"
    BY <1>3, <2>1 DEF Heals
  <2>2. CASE mine[n].op = "patch"
    <3>1. Reaches(h, dn, d, k, s)
      BY <1>3, <2>2
    <3>2. ~(h[d].seq >= s)
      <4>1. h[d].seq \in Nat
        BY DEF Record
      <4> QED BY <1>3, <4>1
    <3>3. \E j \in 1..k : Raises(dn[j], d, s)
      BY <3>1, <3>2 DEF Reaches
    <3> QED BY <1>3, <3>3 DEF Heals
  <2> QED BY <1>3, <2>1, <2>2
<1> QED BY <1>1, <1>2, <1>3, PromotedBy

(* What a step makes of what the replica holds.                            *)
SettledBy(n) ==
  /\ Quieter /\ n \in DOMAIN mine /\ n \in Nat \ {0} /\ n <= marker
  /\ mine[n].at = "answered" /\ mine[n].ok
  /\ held' = Promoted(held, mine, {n}) /\ delivered' = delivered /\ down' = down /\ log' = log
AbsorbedBy(f, h, ns) ==
  /\ Receives /\ f \in DownFrame /\ 1 \in DOMAIN down /\ f = down[1] /\ down' = Tail(down)
     /\ down # <<>>
  /\ h \in [Docs -> Record] /\ Brought(f, h) /\ ns \in SUBSET DOMAIN mine /\ Accepts(ns)
  /\ \A n \in ns : n \in Nat \ {0} /\ n <= marker' /\ mine[n].at # "done"
  /\ held' = Promoted(h, mine, ns) /\ log' = log
HeldKept == /\ held' = held /\ delivered' = delivered
            /\ Quieter \/ Lose \/ Verdict \/ Serve \/ ServerStep

(* What a step does to the replica: nothing, a settlement, or a frame      *)
(* absorbed with the commits it settles.                                   *)
LEMMA HeldStep ==
  ASSUME DeliveryInv, Next
  PROVE  \/ HeldKept
         \/ \E n : SettledBy(n)
         \/ \E f, h, ns : AbsorbedBy(f, h, ns)
<1>0. Types /\ ValueInv
  BY DEF DeliveryInv
<1>1. ASSUME NEW n \in DOMAIN mine, Resolve(n)
      PROVE  HeldKept \/ SettledBy(n)
  <2>1. n \in Nat \ {0}
    BY <1>0, TypeFacts
  <2>2. delivered' = delivered /\ down' = down /\ log' = log
    BY <1>1, Unchanged
  <2>3. \/ held' = held
        \/ n <= marker /\ mine[n].at = "answered" /\ mine[n].ok /\ held' = Promoted(held, mine, {n})
    BY <1>0, <1>1, ResolveEffect
  <2> QED BY <1>1, <2>1, <2>2, <2>3 DEF SettledBy, Quieter, HeldKept
<1>2. CASE Effect \/ CallAnswered \/ Restored
  <2>1. /\ Absorb(Head(down)) /\ Head(down).type # "verdict" /\ down # <<>> /\ down' = Tail(down) /\ log' = log
        /\ Receives
    BY <1>2 DEF Effect, CallAnswered, Restored, Received, Receives
  <2>2. PICK f \in Syncs : f = down[1] /\ 1 \in DOMAIN down /\ Absorb(f)
    BY <1>0, <2>1, DownHead
  <2>3. PICK h, ns : /\ Brought(f, h) /\ ns = {n \in DOMAIN mine : n <= marker' /\ mine[n].at = "parked" /\ mine[n].ok}
                     /\ held' = Promoted(h, mine, ns)
    BY <1>0, <2>2, AbsorbEffect
  <2>4. f \in DownFrame /\ h \in [Docs -> Record]
    BY <2>3 DEF Brought, DownFrame
  <2>5. /\ ns \in SUBSET DOMAIN mine /\ Accepts(ns)
        /\ \A n \in ns : n \in Nat \ {0} /\ n <= marker' /\ mine[n].at # "done"
    BY <1>0, <2>3, TypeFacts DEF Accepts
  <2> QED BY <2>1, <2>2, <2>3, <2>4, <2>5 DEF AbsorbedBy
<1>3. Inner => HeldKept
  BY <1>0, InnerFacts DEF ClientKept, HeldKept, Quieter
<1>4. Serve \/ ServerStep => HeldKept
  BY SendKinds DEF HeldKept
<1>5. ASSUME NEW x \in Docs, NEW op \in {"set", "patch"}, Commit(x, op) PROVE HeldKept
  BY <1>5, Unchanged DEF HeldKept, Quieter
<1>6. Reconnect \/ Call \/ Lose \/ Verdict => HeldKept
  BY DEF Reconnect, Call, Lose, Verdict, HeldKept, Quieter
<1> QED BY <1>1, <1>2, <1>3, <1>4, <1>5, <1>6, StepKinds DEF Quieter, Receives

(* The replica never holds more than the space has, nor claims more than it*)
(* holds; what it claims came from the space.                              *)
LEMMA HeldBounds ==
  ASSUME DeliveryInv, Next, NEW d \in Docs
  PROVE  /\ held'[d].seq \in Nat /\ delivered'[d] \in Nat
         /\ delivered'[d] <= held'[d].seq /\ held'[d].seq <= HeadSeq(d)
         /\ delivered'[d] = held'[d].seq => held'[d].value = Durable(held'[d].seq)
<1>0. Types /\ NotBoth /\ LogInv /\ AnswerInv /\ ValueInv /\ Types'
  BY TypesStep, WatchParts DEF DeliveryInv
<1>1. /\ held'[d].seq \in Nat /\ delivered'[d] \in Nat /\ held[d].seq \in Nat /\ delivered[d] \in Nat
      /\ HeadSeq(d) \in Nat /\ HeadSeq(d) >= 1
      /\ held \in [Docs -> Record]
  BY <1>0, HeadFacts DEF Types, Record
<1>2. /\ delivered[d] <= held[d].seq /\ held[d].seq <= HeadSeq(d)
      /\ delivered[d] = held[d].seq => held[d].value = Durable(held[d].seq)
  BY <1>0 DEF ValueInv, Sound
<1>3. CASE HeldKept
  BY <1>1, <1>2, <1>3 DEF HeldKept
<1>4. ASSUME NEW h \in [Docs -> Record], NEW ns \in SUBSET DOMAIN mine, Accepts(ns), held' = Promoted(h, mine, ns),
             delivered'[d] <= h[d].seq, h[d].seq <= HeadSeq(d),
             delivered'[d] = h[d].seq => h[d].value = Durable(h[d].seq)
      PROVE  /\ delivered'[d] <= held'[d].seq /\ held'[d].seq <= HeadSeq(d)
             /\ delivered'[d] = held'[d].seq => held'[d].value = Durable(held'[d].seq)
  <2>1. CASE held'[d] = h[d]
    BY <1>4, <2>1
  <2>2. ASSUME NEW s \in Nat, h[d].seq < s, held'[d].seq = s, s <= HeadSeq(d)
        PROVE  /\ delivered'[d] <= held'[d].seq /\ held'[d].seq <= HeadSeq(d)
                  /\ delivered'[d] # held'[d].seq
    <3>1. h[d].seq \in Nat
      BY DEF Record
    <3> QED BY <1>1, <1>4, <2>2, <3>1
  <2>3. \/ held'[d] = h[d]
        \/ \E s \in Nat : h[d].seq < s /\ held'[d].seq = s /\ s <= HeadSeq(d)
    BY <1>0, <1>4, PromotedBy
  <2> QED BY <2>1, <2>2, <2>3
<1>5. ASSUME NEW n, SettledBy(n)
      PROVE  /\ delivered'[d] <= held'[d].seq /\ held'[d].seq <= HeadSeq(d)
             /\ delivered'[d] = held'[d].seq => held'[d].value = Durable(held'[d].seq)
  <2>1. {n} \in SUBSET DOMAIN mine /\ Accepts({n}) /\ held' = Promoted(held, mine, {n})
        /\ delivered' = delivered
    BY <1>5 DEF SettledBy, Accepts
  <2> QED BY <1>1, <1>2, <1>4, <2>1
<1>6. ASSUME NEW f, NEW h, NEW ns, AbsorbedBy(f, h, ns)
      PROVE  /\ delivered'[d] <= held'[d].seq /\ held'[d].seq <= HeadSeq(d)
             /\ delivered'[d] = held'[d].seq => held'[d].value = Durable(held'[d].seq)
  <2>1. /\ h \in [Docs -> Record] /\ Brought(f, h) /\ ns \in SUBSET DOMAIN mine /\ Accepts(ns)
        /\ held' = Promoted(h, mine, ns) /\ 1 \in DOMAIN down /\ f = down[1] /\ f \in DownFrame
    BY <1>6 DEF AbsorbedBy
  <2>2. CASE Drops(f, d)
    <3>1. h[d].seq = 0 /\ h[d].value = {} /\ delivered'[d] = 0
      BY <2>1, <2>2 DEF Brought
    <3>2. Durable(0) = {}
      BY DEF Durable
    <3> QED BY <1>1, <1>4, <2>1, <3>1, <3>2
  <2>3. CASE ~Drops(f, d) /\ Raises(f, d, held[d].seq)
    <3>1. h[d].seq = f.ups[d] /\ h[d].value = Durable(f.ups[d]) /\ delivered'[d] = f.ups[d]
      BY <2>1, <2>3 DEF Brought
    <3>2. Raises(f, d, 0)
      BY <1>1, <2>1, <2>3, FrameFacts
    <3>3. f.ups[d] \in 1..HeadSeq(d)
      BY <1>0, <2>1, <3>2 DEF ValueInv
    <3> QED BY <1>1, <1>4, <2>1, <3>1, <3>3
  <2>4. CASE ~Drops(f, d) /\ ~Raises(f, d, held[d].seq)
    <3>1. h[d] = held[d] /\ delivered'[d] = delivered[d]
      BY <2>1, <2>4 DEF Brought
    <3> QED BY <1>1, <1>2, <1>4, <2>1, <3>1
  <2> QED BY <2>2, <2>3, <2>4
<1> QED BY <1>1, <1>3, <1>5, <1>6, HeldStep

(* What a replica will have of a document on which it counts.              *)
LEMMA HealsStep ==
  ASSUME DeliveryInv, Next, NEW d \in Docs, NEW k \in 0..End', Point(d, k)'
  PROVE  Heals(held', down', d, k)
<1>0. /\ Types /\ NotBoth /\ LogInv /\ OrderInv /\ AnswerInv /\ ValueInv /\ FloorInv
      /\ down \in Seq(DownFrame) /\ held \in [Docs -> Record] /\ End = Len(down) /\ End \in Nat
  BY WatchParts, TypeFacts DEF DeliveryInv, Types
<1>1. ASSUME NEW j \in 0..End, Point(d, j) PROVE Heals(held, down, d, j)
  BY <1>0, <1>1 DEF ValueInv, Healed, Sound, Heals
<1>2. held[d].seq \in Nat /\ delivered[d] \in Nat /\ HeadSeq(d) \in Nat
  BY <1>0, HeadFacts DEF Types, Record
<1>3. ASSUME NEW n, NEW ns, n \in ns, Accepts(ns), ns \subseteq DOMAIN mine, mine[n].doc = d, mine[n].op = "patch",
             NEW j \in 0..End, Point(d, j), MarkBy(j, n)
      PROVE  Reaches(held, down, d, j, mine[n].seq)
  <2>1. n \in DOMAIN mine /\ mine[n].at # "done"
    BY <1>3 DEF Accepts
  <2>2. mine[n].seq \in Nat /\ RecordedAs(n, mine[n].seq)
    BY <1>0, <1>3, AcceptedOrder
  <2>3. FloorIs(n, mine[n].seq)
    BY <1>3, <2>2 DEF FloorIs
  <2> QED BY <1>0, <1>3, <2>1, <2>2, <2>3 DEF FloorInv
<1>4. ASSUME NEW n, SettledBy(n) PROVE Heals(held', down', d, k)
  <2>1. /\ Quieter /\ n \in DOMAIN mine /\ n <= marker /\ mine[n].at = "answered" /\ mine[n].ok
        /\ held' = Promoted(held, mine, {n}) /\ down' = down
    BY <1>4 DEF SettledBy
  <2>2. k \in 0..End /\ Point(d, k) /\ k \in Nat
    BY <2>1, PointQuiet
  <2>3. Accepts({n}) /\ {n} \in SUBSET DOMAIN mine /\ Heals(held, down, d, k)
    BY <1>1, <2>1, <2>2 DEF Accepts
  <2>4. MarkBy(k, n)
    <3>1. n \in Nat /\ marker \in Nat
      BY <1>0, <2>1, TypeFacts
    <3> QED BY <2>1, <3>1 DEF MarkBy
  <2>5. \A m \in {n} : mine[m].doc = d /\ mine[m].op = "patch" =>
          Reaches(held, down, d, k, mine[m].seq)
    BY <1>3, <2>2, <2>3, <2>4
  <2> QED BY <1>0, <2>1, <2>2, <2>3, <2>5, PromotedHeals
<1>5. ASSUME NEW f, NEW h, NEW ns, AbsorbedBy(f, h, ns) PROVE Heals(held', down', d, k)
  <2>1. /\ h \in [Docs -> Record] /\ Brought(f, h) /\ ns \in SUBSET DOMAIN mine /\ Accepts(ns) /\ Receives
        /\ held' = Promoted(h, mine, ns) /\ 1 \in DOMAIN down /\ f = down[1] /\ f \in DownFrame
        /\ down' = Tail(down) /\ down # <<>>
        /\ \A n \in ns : n \in Nat \ {0} /\ n <= marker'
    BY <1>5 DEF AbsorbedBy
  <2>2. /\ k \in Nat /\ k + 1 \in 0..End /\ Point(d, k + 1)
        /\ \A n \in Nat : MarkBy(k, n)' => MarkBy(k + 1, n)
    BY <2>1, PointReceived
  <2>3. /\ \A j \in DOMAIN down : j \in Nat \ {0} /\ (j # 1 => j - 1 \in DOMAIN down')
        /\ \A j \in DOMAIN down' :
             j \in Nat \ {0} /\ j + 1 \in DOMAIN down /\ down'[j] = down[j + 1]
    BY <1>0, <2>1, ReceivedFrames
  <2>4. Heals(h, down', d, k)
    <3>1. CASE Drops(f, d)
      <4>1. h[d].seq = 0 /\ h[d].value = {}
        BY <2>1, <3>1 DEF Brought
      <4> QED BY <4>1 DEF Heals, Durable
    <3>2. CASE ~Drops(f, d) /\ Raises(f, d, held[d].seq)
      <4>1. h[d].seq = f.ups[d] /\ h[d].value = Durable(f.ups[d])
        BY <2>1, <3>2 DEF Brought
      <4> QED BY <4>1 DEF Heals
    <3>3. CASE ~Drops(f, d) /\ ~Raises(f, d, held[d].seq)
      <4>1. h[d] = held[d]
        BY <2>1, <3>3 DEF Brought
      <4>2. Heals(held, down, d, k + 1)
        BY <1>1, <2>2
      <4>3. CASE held[d].value = Durable(held[d].seq)
        BY <4>1, <4>3 DEF Heals
      <4>4. ASSUME NEW j \in 1..(k + 1), Raises(down[j], d, held[d].seq) \/ Drops(down[j], d)
            PROVE  Heals(h, down', d, k)
        <5>1. j # 1
          BY <2>1, <3>3, <4>4
        <5>2. j \in DOMAIN down
          BY <1>0, <2>2, TypeFacts
        <5>3. PICK i \in DOMAIN down' : i = j - 1
          BY <2>3, <5>1, <5>2
        <5>4. down'[i] = down[j] /\ i \in 1..k
          <6>1. i + 1 = j
            BY <2>3, <5>2, <5>3
          <6>2. i \in 1..k
            BY <2>2, <2>3, <5>3, <6>1
          <6> QED BY <2>3, <6>1, <6>2
        <5> QED BY <4>1, <4>4, <5>4 DEF Heals
      <4> QED BY <4>2, <4>3, <4>4 DEF Heals
    <3> QED BY <3>1, <3>2, <3>3
  <2>5. ASSUME NEW n \in ns, mine[n].doc = d, mine[n].op = "patch" PROVE Reaches(h, down', d, k, mine[n].seq)
    <3>1. PICK s \in Nat : s = mine[n].seq
      BY <1>0, <2>1, AcceptedOrder
    <3>2. MarkBy(k + 1, n)
      <4>1. MarkBy(k, n)'
        <5>1. n \in Nat /\ marker' \in Nat /\ n <= marker'
          BY <2>1, TypesStep DEF Types
        <5> QED BY <5>1 DEF MarkBy
      <4> QED BY <2>1, <2>2, <4>1
    <3>3. Reaches(held, down, d, k + 1, s)
      BY <1>3, <2>1, <2>2, <2>5, <3>1, <3>2
    <3>4. k \in 0..(Len(down) - 1)
      BY <1>0, <2>2
    <3>5. /\ ~Drops(down[1], d) => h[d].seq >= held[d].seq
          /\ Raises(down[1], d, s) => h[d].seq >= s
      BY <1>0, <2>1, BroughtRaises
    <3>6. Reaches(h, Tail(down), d, k, s)
      BY <1>0, <2>1, <3>3, <3>4, <3>5, ReachAbsorbed
    <3> QED BY <2>1, <3>1, <3>6
  <2> QED BY <1>0, <2>1, <2>2, <2>4, <2>5, PromotedHeals
<1>6. ASSUME held' = held, NEW j \in 0..End, Point(d, j), j <= k, \A i \in 1..j : down'[i] = down[i]
      PROVE  Heals(held', down', d, k)
  <2>1. Heals(held, down, d, j)
    BY <1>1, <1>6
  <2>2. \A i \in 1..j : i \in 1..k
    <3>1. k \in Nat
      <4>1. End' \in Nat
        BY TypesStep DEF Types, End
      <4> QED BY <4>1
    <3> QED BY <1>0, <1>6, <3>1
  <2> QED BY <1>6, <2>1, <2>2 DEF Heals
<1>7. ASSUME held' = held, Quieter \/ Lose \/ Verdict \/ Serve \/ ServerStep PROVE Heals(held', down', d, k)
  <2>0. k \in Nat
    <3>1. End' \in Nat
      BY TypesStep DEF Types, End
    <3> QED BY <3>1
  <2>1. CASE Quieter
    <3>1. k \in 0..End /\ Point(d, k) /\ down' = down
      BY <2>1, PointQuiet
    <3> QED BY <1>6, <1>7, <2>0, <3>1
  <2>2. CASE Lose
    <3>1. k = 0 /\ k \in 0..End /\ Point(d, k)
      BY <2>2, PointLost
    <3>2. \A i \in 1..k : down'[i] = down[i]
      BY <3>1
    <3> QED BY <1>6, <1>7, <2>0, <3>1, <3>2
  <2>3. CASE Verdict
    <3>1. /\ down # <<>> /\ down' = Tail(down) /\ Head(down).type = "verdict"
      BY <2>3 DEF Verdict, Received
    <3>2. k \in Nat /\ k + 1 \in 0..End /\ Point(d, k + 1)
      BY <2>3, PointReceived DEF Receives
    <3>3. Heals(held, down, d, k + 1)
      BY <1>1, <3>2
    <3>4. /\ \A j \in DOMAIN down : j \in Nat \ {0} /\ (j # 1 => j - 1 \in DOMAIN down')
          /\ \A j \in DOMAIN down' :
               j \in Nat \ {0} /\ j + 1 \in DOMAIN down /\ down'[j] = down[j + 1]
          /\ Head(down) = down[1]
      BY <1>0, <3>1, ReceivedFrames
    <3>5. ASSUME NEW j \in 1..(k + 1), Raises(down[j], d, held[d].seq) \/ Drops(down[j], d)
          PROVE  Heals(held', down', d, k)
      <4>1. j # 1
        BY <3>1, <3>4, <3>5 DEF Raises, Drops
      <4>2. j \in DOMAIN down
        BY <1>0, <3>2, TypeFacts
      <4>3. PICK i \in DOMAIN down' : i = j - 1
        BY <3>4, <4>1, <4>2
      <4>4. down'[i] = down[j] /\ i \in 1..k
        <5>1. i + 1 = j
          BY <3>4, <4>2, <4>3
        <5>2. i \in 1..k
          BY <3>2, <3>4, <4>3, <5>1
        <5> QED BY <3>4, <5>1, <5>2
      <4> QED BY <1>7, <3>5, <4>4 DEF Heals
    <3> QED BY <1>7, <3>3, <3>5 DEF Heals
  <2>4. CASE Serve \/ ServerStep
    <3>1. CASE k \in 0..End /\ Point(d, k) /\ \A j \in 1..k : down'[j] = down[j]
      BY <1>6, <1>7, <2>0, <3>1
    <3>2. ASSUME NEW e, SentLast(e), k = End + 1, d \in session'.watches, down'[k] = e,
                 \A j \in 1..End : down'[j] = down[j]
          PROVE  Heals(held', down', d, k)
      <4>1. CASE Live /\ d \in session.watches
        <5>1. End \in 0..End /\ Point(d, End) /\ End <= k
          BY <1>0, <3>2, <4>1 DEF Point
        <5> QED BY <1>6, <1>7, <3>2, <5>1
      <4>2. CASE Brings(e, d)
        <5>1. CASE delivered[d] = HeadSeq(d)
          <6>1. delivered[d] = held[d].seq
            BY <1>0, <1>2, <5>1 DEF ValueInv
          <6> QED BY <1>0, <1>7, <6>1 DEF ValueInv, Sound, Heals
        <5>2. CASE Raises(e, d, HeadSeq(d))
          <6>1. held[d].seq <= HeadSeq(d) /\ e \in DownFrame
            BY <1>0, <3>2 DEF ValueInv, SentLast
          <6>2. Raises(e, d, held[d].seq)
            BY <1>2, <5>2, <6>1, FrameFacts
          <6>3. k \in 1..k
            BY <1>0, <3>2
          <6> QED BY <1>7, <3>2, <6>2, <6>3 DEF Heals
        <5> QED BY <4>2, <5>1, <5>2 DEF Brings
      <4> QED BY <3>2, <4>1, <4>2 DEF SentLast
    <3>3. \/ k \in 0..End /\ Point(d, k) /\ (\A j \in 1..k : down'[j] = down[j])
          \/ \E e : /\ SentLast(e) /\ k = End + 1 /\ d \in session'.watches /\ down'[k] = e
                    /\ \A j \in 1..End : down'[j] = down[j]
      BY <2>4, PointSent
    <3> QED BY <3>1, <3>2, <3>3
  <2> QED BY <1>7, <2>1, <2>2, <2>3, <2>4
<1> QED BY <1>4, <1>5, <1>7, HeldStep DEF HeldKept

(* Every step keeps the values.                                            *)
LEMMA ValueStep == ASSUME DeliveryInv, Next PROVE ValueInv'
<1>0. Types /\ LogInv /\ OrderInv /\ ValueInv /\ Types' /\ Grown
  BY TypesStep, LogStep DEF DeliveryInv
<1>1. ASSUME NEW d \in Docs
      PROVE  /\ \E s \in Nat : s = held'[d].seq /\ Durable(s)' = Durable(s)
             /\ HeadSeq(d) <= HeadSeq(d)' /\ HeadSeq(d) \in Nat /\ HeadSeq(d)' \in Nat
  <2>1. HeadSeq(d) \in Nat /\ HeadSeq(d) <= SpaceSeq /\ SpaceSeq \in Nat
    BY <1>0, HeadFacts, TypeFacts
  <2>2. PICK s \in Nat : s = held'[d].seq /\ s <= SpaceSeq
    BY <2>1, HeldBounds
  <2>3. Durable(s)' = Durable(s)
    BY <1>0, <2>2 DEF Grown
  <2>4. HeadSeq(d)' \in Nat
    <3>1. HeadsTyped'
      BY <1>0, HeadNat, PTL
    <3> QED BY <3>1 DEF HeadsTyped
  <2>5. HeadSeq(d) <= HeadSeq(d)'
    BY <1>0 DEF Grown
  <2> QED BY <2>1, <2>2, <2>3, <2>4, <2>5
<1>2. ASSUME NEW d \in Docs, NEW k \in 0..End', Point(d, k)' PROVE Healed(d, k)'
  <2>1. Heals(held', down', d, k)
    BY <1>2, HealsStep
  <2>2. CASE held'[d].value = Durable(held'[d].seq)
    <3>1. PICK s \in Nat : s = held'[d].seq /\ Durable(s)' = Durable(s)
      BY <1>1
    <3>2. held'[d].value = Durable(s)'
      BY <2>2, <3>1
    <3> QED BY <3>1, <3>2 DEF Healed, Sound, Durable
  <2>3. CASE \E j \in 1..k : Raises(down'[j], d, held'[d].seq) \/ Drops(down'[j], d)
    BY <2>3 DEF Healed, Raises, Drops
  <2> QED BY <2>1, <2>2, <2>3 DEF Heals
<1>3. ASSUME NEW d \in Docs
      PROVE  /\ delivered'[d] = held'[d].seq => Sound(d)'
             /\ delivered'[d] <= held'[d].seq /\ held'[d].seq <= HeadSeq(d)'
  <2>1. /\ delivered'[d] <= held'[d].seq /\ held'[d].seq <= HeadSeq(d) /\ held'[d].seq \in Nat
        /\ delivered'[d] = held'[d].seq => held'[d].value = Durable(held'[d].seq)
    BY HeldBounds
  <2>2. held'[d].seq <= HeadSeq(d)'
    BY <1>1, <2>1
  <2>3. delivered'[d] = held'[d].seq => Sound(d)'
    <3>1. PICK s \in Nat : s = held'[d].seq /\ Durable(s)' = Durable(s)
      BY <1>1
    <3>2. delivered'[d] = held'[d].seq => held'[d].value = Durable(s)'
      BY <2>1, <3>1
    <3> QED BY <3>1, <3>2 DEF Sound, Durable
  <2> QED BY <2>1, <2>2, <2>3
<1>4. ASSUME NEW k \in DOMAIN down', NEW d \in Docs, Raises(down'[k], d, 0)
      PROVE  down'[k].ups[d] \in 1..HeadSeq(d)'
  <2>1. HeadSeq(d) \in Nat /\ HeadSeq(d) >= 1 /\ HeadSeq(d) <= HeadSeq(d)'
        /\ HeadSeq(d)' \in Nat
    BY <1>0, <1>1, HeadFacts
  <2>2. down'[k].ups[d] \in 1..HeadSeq(d)
    <3>1. CASE \E j \in DOMAIN down : down'[k] = down[j]
      BY <1>0, <1>4, <3>1 DEF ValueInv
    <3>2. CASE BringsHeads(down'[k])
      <4>1. down'[k].ups[d] = HeadSeq(d)
        BY <1>4, <3>2 DEF BringsHeads
      <4> QED BY <2>1, <4>1
    <3> QED BY <3>1, <3>2, MarksStep
  <2> QED BY <2>1, <2>2
<1>5. \A k \in DOMAIN down' : \A d \in Docs : Raises(down[k], d, 0)' =>
        down'[k].ups[d] \in 1..HeadSeq(d)'
  BY <1>4 DEF Raises
<1> QED BY <1>2, <1>3, <1>5 DEF ValueInv

(* Every step keeps the invariant.                                         *)
LEMMA DeliveryStep == ASSUME DeliveryInv, [Next]_vars PROVE DeliveryInv'
<1>1. CASE Next
  <2>1. Types' /\ LinkInv' /\ BatchInv' /\ CallInv' /\ WatchInv' /\ LogInv' /\ OrderInv'
        /\ RefusedInv' /\ AnswerInv'
    BY <1>1, TypesStep, LinkStep, BatchStep, CallStep, WatchStep, LogInvStep, OrderStep,
       RefusedStep, AnswerStep
  <2>2. MarkInv' /\ OriginInv' /\ CacheInv' /\ PendInv' /\ FloorInv' /\ DoneInv'
        /\ AddedInv' /\ ValueInv'
    BY <1>1, MarkStep, OriginStep, CacheStep, PendStep, FloorStep, DoneStep, AddedStep,
       ValueStep
  <2> QED BY <2>1, <2>2 DEF DeliveryInv
<1>2. CASE UNCHANGED vars
  <2>1. UNCHANGED <<log, due, dirty, origin, pass, session, skipped, link, up, down>>
        /\ UNCHANGED <<conn, wanted, call, held, delivered, marker, mine, refused>>
    BY <1>2 DEF vars, serverVars, dirtyVars, clientVars
  <2>2. Types' /\ LinkInv' /\ BatchInv' /\ CallInv'
    BY <2>1 DEF DeliveryInv, Types, LinkInv, BatchInv, CallInv, Live
  <2>3. WatchInv' /\ LogInv'
    BY <2>1 DEF DeliveryInv, WatchInv, LogInv, Live, End, Top
  <2>4. \A n, s : /\ RecordedAs(n, s)' <=> RecordedAs(n, s)
                  /\ FloorIs(n, s)' <=> FloorIs(n, s)
                  /\ Recorded(n)' <=> Recorded(n)
    BY <2>1 DEF RecordedAs, FloorIs, Recorded
  <2>5. \A d : HeadSeq(d)' = HeadSeq(d)
    BY <2>1 DEF HeadSeq, Writes
  <2>6. OrderInv'
    BY <2>1, <2>4, <2>5 DEF DeliveryInv, OrderInv, Top, Decided
  <2>18. RefusedInv'
    BY <2>1, <2>4, <2>5 DEF DeliveryInv, RefusedInv, Top
  <2>7. AnswerInv'
    BY <2>1, <2>4 DEF DeliveryInv, AnswerInv, Told, Top
  <2>8. MarkInv'
    BY <2>1 DEF DeliveryInv, MarkInv, MarkReached, Top, Live, Unserved
  <2>9. \A n, d, q : OwnSet(n, d, q)' <=> OwnSet(n, d, q)
    BY <2>1, <2>4 DEF OwnSet
  <2>10. OriginInv'
    BY <2>1, <2>9 DEF DeliveryInv, OriginInv
  <2>11. \A d, q : Elided(d, q)' <=> Elided(d, q)
    BY <2>1, <2>9 DEF Elided, MarkReached, Unserved
  <2>12. CacheInv'
    BY <2>1, <2>5, <2>11 DEF DeliveryInv, CacheInv, Live, End, Unserved
  <2>13. PendInv'
    BY <2>1, <2>4 DEF DeliveryInv, PendInv, Live, End, Top, Unsent, Unserved
  <2>14. \A d, k : Point(d, k)' <=> Point(d, k)
    BY <2>1 DEF Point, AddedIn, Live, End
  <2>15. FloorInv'
    BY <2>1, <2>4, <2>14 DEF DeliveryInv, FloorInv, End, MarkBy
  <2>16. DoneInv' /\ AddedInv'
    BY <2>1, <2>14 DEF DeliveryInv, DoneInv, AddedInv, End
  <2>17. ValueInv'
    BY <2>1, <2>5, <2>14 DEF DeliveryInv, ValueInv, Healed, Sound, Durable, End
  <2> QED BY <2>2, <2>3, <2>6, <2>7, <2>8, <2>10, <2>12, <2>13, <2>15, <2>16, <2>17, <2>18
             DEF DeliveryInv
<1> QED BY <1>1, <1>2

(* The invariant holds initially.                                          *)
LEMMA DeliveryInit == Init => DeliveryInv
<1> SUFFICES ASSUME Init PROVE DeliveryInv
  OBVIOUS
<1>1. /\ log = <<>> /\ due = FALSE /\ dirty = {} /\ origin = [d \in Docs |-> NoOrigin] /\ pass = NoPass
      /\ wanted \in SUBSET Docs /\ session.watches = wanted /\ session.force = FALSE
      /\ session.caught = 0 /\ session.owed = 0
      /\ \A d \in Docs : session.cached[d] = IF d \in wanted THEN 1 ELSE Nothing
      /\ skipped = FALSE /\ link = "live" /\ up = <<>> /\ down = <<>> /\ conn = "up"
         /\ call = NoCall
      /\ marker = 0 /\ mine = <<>>
  BY BoundsAssumption DEF Init
<1>2. /\ delivered \in [Docs -> Nat] /\ held \in [Docs -> Record]
      /\ \A d \in Docs : /\ held[d].seq = delivered[d] /\ held[d].value = {}
                         /\ delivered[d] = IF d \in wanted THEN 1 ELSE 0
  BY <1>1 DEF Init, Record
<1>3. session \in State
  BY <1>1 DEF Init, State, Nothing
<1>4. Types
  <2>1. NoPass \in Batch /\ NoOrigin \in Stamp
    BY NoPassTyped
  <2>2. log \in Seq(Entry) /\ up \in Seq(UpFrame) /\ down \in Seq(DownFrame)
        /\ mine \in Seq(Own)
    BY <1>1
  <2>3. origin \in [Docs -> Stamp] /\ call \in Calls
    BY <1>1, <2>1 DEF Calls
  <2> QED BY <1>1, <1>2, <1>3, <2>1, <2>2, <2>3 DEF Types
<1>5. /\ DOMAIN log = {} /\ DOMAIN up = {} /\ DOMAIN down = {} /\ DOMAIN mine = {}
      /\ End = 0 /\ Len(mine) = 0 /\ Len(up) = 0
  BY <1>1 DEF End
<1>6. Top = 0 /\ Live /\ ~Unserved
  BY <1>1 DEF Top, Larger, Live, Unserved, NoPass
<1>7. \A d \in Docs : HeadSeq(d) = 1 /\ held[d].value = Durable(held[d].seq)
  <2>1. \A d \in Docs : HeadSeq(d) = 1
    BY <1>5 DEF HeadSeq, Writes
  <2>2. \A d \in Docs : held[d].seq <= 1
    BY <1>2
  <2> QED BY <1>2, <2>1, <2>2 DEF Durable
<1>8. LinkInv /\ BatchInv /\ CallInv
  BY <1>1, <1>5, <1>6 DEF LinkInv, BatchInv, CallInv, NoCall
<1>9. WatchInv /\ LogInv
  BY <1>1, <1>5 DEF WatchInv, LogInv
<1>10. OrderInv
  <2>1. 1..Top = {} /\ (Top + 1)..Len(mine) = {} /\ Top <= Len(mine)
    BY <1>5, <1>6
  <2> QED BY <1>1, <1>5, <2>1 DEF OrderInv, NoCall
<1>17. RefusedInv
  <2>1. 1..Top = {} /\ MaxOwn \in Nat /\ refused = [n \in 1..MaxOwn |-> 0]
    BY <1>6, BoundsAssumption DEF Init
  <2> QED BY <1>5, <2>1 DEF RefusedInv
<1>11. AnswerInv /\ MarkInv
  BY <1>1, <1>5, <1>6 DEF AnswerInv, MarkInv, MarkReached
<1>12. OriginInv
  <2>1. \A d \in Docs : origin[d].op = "none" /\ pass.origin[d].op = "none"
    BY <1>1 DEF NoOrigin, NoPass
  <2> QED BY <2>1 DEF OriginInv
<1>13. CacheInv
  <2>1. ASSUME NEW d \in Docs, d \in wanted PROVE Reaches(held, down, d, End, 1)
    BY <1>2, <1>5, <2>1 DEF Reaches
  <2>2. \A d \in Docs : session.cached[d] \in Nothing..HeadSeq(d)
    BY <1>1, <1>7 DEF Nothing
  <2> QED BY <1>1, <1>7, <2>1, <2>2 DEF CacheInv
<1>14. PendInv
  <2>1. 1..Top = {}
    BY <1>6
  <2> QED BY <2>1 DEF PendInv
<1>15. FloorInv /\ DoneInv /\ AddedInv
  BY <1>5 DEF FloorInv, DoneInv, AddedInv
<1>16. ValueInv
  BY <1>2, <1>5, <1>7 DEF ValueInv, Healed, Sound
<1> QED BY <1>4, <1>8, <1>9, <1>10, <1>11, <1>12, <1>13, <1>14, <1>15, <1>16, <1>17
           DEF DeliveryInv

(* The invariant holds in every reachable state.                           *)
THEOREM DeliveryInvariant == Spec => []DeliveryInv
<1>1. Init => DeliveryInv
  BY DeliveryInit
<1>2. DeliveryInv /\ [Next]_vars => DeliveryInv'
  BY DeliveryStep
<1> QED BY <1>1, <1>2, PTL DEF Spec

(* The types are those of TypeOK.                                          *)
LEMMA TypeOKFollows == DeliveryInv => TypeOK
<1> SUFFICES ASSUME DeliveryInv PROVE TypeOK
  OBVIOUS
<1>0. Types /\ OrderInv /\ MarkInv /\ CacheInv /\ ValueInv
  BY DEF DeliveryInv
<1>1. ASSUME NEW d \in Docs
      PROVE  /\ session.cached[d] \in Nothing..SpaceSeq /\ held[d].seq \in 0..SpaceSeq
             /\ delivered[d] \in 0..held[d].seq
  <2>1. HeadSeq(d) \in Nat /\ HeadSeq(d) <= SpaceSeq /\ SpaceSeq \in Nat
    BY <1>0, HeadFacts, TypeFacts
  <2>2. held[d].seq \in Nat /\ delivered[d] \in Nat
    BY <1>0 DEF Types, Record
  <2>3. session.cached[d] \in Nothing..HeadSeq(d) /\ delivered[d] <= held[d].seq
        /\ held[d].seq <= HeadSeq(d)
    BY <1>0 DEF CacheInv, ValueInv
  <2> QED BY <2>1, <2>2, <2>3 DEF Nothing
<1>2. session.caught \in 0..Len(mine) /\ session.owed \in 0..Len(mine) /\ marker \in 0..Len(mine)
  <2>1. /\ Top \in Nat /\ session.owed \in Nat /\ session.caught \in Nat /\ marker \in Nat /\ Len(mine) \in Nat
        /\ session.owed <= Top /\ session.caught <= Top
    BY <1>0, TypeFacts
  <2>2. Top <= Len(mine) /\ marker <= Top
    BY <1>0 DEF OrderInv, MarkInv
  <2> QED BY <2>1, <2>2
<1>3. \A n \in DOMAIN mine : mine[n].at \in {"sent", "answered", "parked", "done"}
  <2>1. \A n \in DOMAIN mine : mine[n] \in Own
    BY <1>0, TypeFacts
  <2> QED BY <2>1 DEF Own
<1>4. session.watches \subseteq Docs /\ wanted \subseteq Docs /\ dirty \subseteq Docs
      /\ pass.docs \subseteq Docs
  BY <1>0 DEF Types, State, Batch
<1> QED BY <1>0, <1>1, <1>2, <1>3, <1>4 DEF TypeOK, Types

(* Every reachable state has its type (TypeOK).                            *)
THEOREM TypeCorrect == Spec => []TypeOK
BY DeliveryInvariant, TypeOKFollows, PTL

(* A watched document is sound before any frame in flight is absorbed.     *)
LEMMA DurableFollows == DeliveryInv => HeldIsDurable
<1> SUFFICES ASSUME DeliveryInv, NEW d \in wanted PROVE held[d].value = Durable(held[d].seq)
  BY DEF HeldIsDurable
<1>1. Types /\ ValueInv
  BY DEF DeliveryInv
<1>2. d \in Docs /\ 0 \in 0..End /\ Point(d, 0) /\ \A j \in 1..0 : FALSE
  BY <1>1, TypeFacts DEF Types, Point
<1>3. Healed(d, 0)
  BY <1>1, <1>2 DEF ValueInv
<1> QED BY <1>2, <1>3 DEF Healed, Sound

(* The value a replica holds of a document it watches is the one the space *)
(* recorded at that seq, whether a frame brought it or an own write was    *)
(* promoted over it (HeldIsDurable).                                       *)
THEOREM ReplicaValuesAreDurable == Spec => []HeldIsDurable
BY DeliveryInvariant, DurableFollows, PTL

(* When nothing is under way the cache of the session is right.            *)
LEMMA AgreesFollows == DeliveryInv => QuietReplicaAgrees
<1> SUFFICES ASSUME DeliveryInv, Quiet, ~session.force, NEW d \in wanted PROVE Agrees(d)
  BY DEF QuietReplicaAgrees
<1>0. /\ Types /\ LinkInv /\ BatchInv /\ WatchInv /\ LogInv /\ AnswerInv /\ CacheInv
         /\ DoneInv /\ ValueInv
  BY DEF DeliveryInv
<1>1. /\ conn = "up" /\ down = <<>> /\ ~due /\ ~pass.on
      /\ \A n \in DOMAIN mine : mine[n].at \notin {"sent", "answered"}
  BY DEF Quiet
<1>2. /\ d \in Docs /\ d \in session.watches /\ Live /\ dirty = {} /\ ~Unserved /\ End = 0
      /\ Point(d, 0)
  BY <1>0, <1>1 DEF Types, LinkInv, BatchInv, WatchInv, Unserved, End, Point
<1>3. PICK q \in Nat : q = HeadSeq(d) /\ q >= 1
  BY <1>0, <1>2, HeadFacts
<1>4. session.cached[d] = q
  BY <1>0, <1>2, <1>3 DEF CacheInv
<1>5. \A s : Reaches(held, down, d, 0, s) => held[d].seq >= s
  <2>1. \A j \in 1..0 : FALSE
    OBVIOUS
  <2> QED BY <2>1 DEF Reaches
<1>6. held[d].seq >= q
  <2>1. Reaches(held, down, d, End, q) \/ Elided(d, q)
    BY <1>0, <1>2, <1>3, <1>4 DEF CacheInv
  <2>2. CASE Elided(d, q)
    <3>1. PICK n : OwnSet(n, d, q) /\ MarkReached(n)
      BY <1>1, <1>2, <2>2 DEF Elided
    <3>2. n \in DOMAIN mine /\ mine[n].doc = d /\ RecordedAs(n, q)
      BY <3>1 DEF OwnSet
    <3>3. n \in Nat \ {0} /\ mine[n] \in Own /\ marker \in Nat
      BY <1>0, <3>2, TypeFacts
    <3>4. marker >= n
      <4>1. DOMAIN down = {}
        BY <1>1
      <4> QED BY <3>1, <4>1 DEF MarkReached
    <3>5. mine[n].at = "done"
      <4>1. mine[n].at # "parked"
        BY <1>0, <3>2, <3>3, <3>4 DEF AnswerInv
      <4> QED BY <1>1, <3>2, <3>3, <4>1 DEF Own
    <3>6. Recorded(n)
      BY <1>0, <1>3, <3>2, <3>3, RecordFacts
    <3>7. mine[n].ok /\ RecordedAs(n, mine[n].seq)
      BY <1>0, <3>2, <3>5, <3>6 DEF AnswerInv, Told
    <3>8. mine[n].seq = q
      <4>1. mine[n].seq \in Nat
        BY <3>3 DEF Own
      <4> QED BY <1>0, <1>3, <3>2, <3>3, <3>7, <4>1, RecordFacts
    <3>9. Reaches(held, down, d, 0, q)
      BY <1>0, <1>2, <3>2, <3>5, <3>7, <3>8 DEF DoneInv
    <3> QED BY <1>5, <3>9
  <2> QED BY <1>2, <1>5, <2>1, <2>2
<1>7. held[d].seq = q
  <2>1. held[d].seq \in Nat /\ held[d].seq <= q
    BY <1>0, <1>2, <1>3 DEF Types, Record, ValueInv
  <2> QED BY <1>6, <2>1
<1>8. held[d].value = Durable(held[d].seq)
  BY DurableFollows DEF HeldIsDurable
<1> QED BY <1>3, <1>7, <1>8 DEF Agrees

(* When nothing is under way the replica holds the head of every watched   *)
(* document, with its value, whatever was elided, lost, failed or sent     *)
(* again before (QuietReplicaAgrees).                                      *)
THEOREM QuietReplicasAgree == Spec => []QuietReplicaAgrees
BY DeliveryInvariant, AgreesFollows, PTL

(* At rest every marker has come, so nothing is parked.                    *)
LEMMA SettledFollows == DeliveryInv => QuietCommitsSettled
<1> SUFFICES ASSUME DeliveryInv, Quiet, ~skipped, NEW n \in DOMAIN mine PROVE mine[n].at = "done"
  BY DEF QuietCommitsSettled
<1>0. Types /\ LinkInv /\ AnswerInv /\ MarkInv
  BY DEF DeliveryInv
<1>1. /\ conn = "up" /\ down = <<>> /\ ~due /\ ~pass.on
         /\ mine[n].at \notin {"sent", "answered"}
  BY DEF Quiet
<1>2. Live /\ ~Unserved /\ DOMAIN down = {}
  BY <1>0, <1>1 DEF LinkInv, Unserved
<1>3. session.owed <= session.caught /\ marker >= session.caught
  BY <1>0, <1>1, <1>2 DEF MarkInv, MarkReached
<1>4. /\ session.owed \in Nat /\ session.caught \in Nat /\ marker \in Nat /\ n \in Nat
      /\ mine[n] \in Own
  BY <1>0, TypeFacts
<1>5. Top = session.caught
  BY <1>3, <1>4, LargerFacts DEF Top
<1>6. n \in 1..Top
  BY <1>0, <1>1 DEF AnswerInv, Told
<1>7. mine[n].at # "parked"
  BY <1>0, <1>3, <1>4, <1>5, <1>6 DEF AnswerInv
<1> QED BY <1>1, <1>4, <1>7 DEF Own

(* Nor is a commit of the session left unsettled then, unless the last     *)
(* evaluation failed (QuietCommitsSettled).                                *)
THEOREM QuietCommitsAreSettled == Spec => []QuietCommitsSettled
BY DeliveryInvariant, SettledFollows, PTL

(* A refused set that is freed by a marker finds its floor held.           *)
LEMMA RetryStep ==
  ASSUME DeliveryInv, Next, NEW n \in DOMAIN mine, FreedOver(n)
  PROVE  RepairTimesOut(n) \/ held'[mine[n].doc].seq >= refused[n]
<1>0. Types /\ OrderInv /\ RefusedInv /\ AnswerInv /\ ValueInv /\ FloorInv
  BY DEF DeliveryInv
<1>1. mine[n].at # "done" /\ mine'[n].at = "done" /\ ~mine[n].ok /\ mine[n].doc \in wanted
  BY DEF FreedOver
<1>2. n \in DOMAIN mine'
  BY <1>0, CoreStep DEF CoreKept
<1>3. /\ mine[n].at \in {"answered", "parked"}
      /\ \/ Settle(n) /\ n <= marker
         \/ RepairTimesOut(n)
         \/ /\ Effect \/ CallAnswered \/ Restored
            /\ Absorb(Head(down)) /\ n <= marker'
  BY <1>1, <1>2, NewlyDone
<1>4. n \in 1..Top /\ ~Recorded(n)
  BY <1>0, <1>1, <1>3 DEF AnswerInv, Told
<1>5. PICK d \in Docs, b \in Nat : d = mine[n].doc /\ b = refused[n] /\ d \in wanted
  <2>1. mine[n] \in Own /\ n \in Nat \ {0} /\ n <= Len(mine) /\ Len(mine) \in Nat
    BY <1>0, TypeFacts
  <2>2. n \in 1..MaxOwn
    BY <1>0, <2>1, BoundsAssumption DEF RefusedInv
  <2> QED BY <1>0, <1>1, <2>1, <2>2 DEF Own, RefusedInv
<1>6. FloorIs(n, b)
  BY <1>0, <1>4, <1>5 DEF OrderInv, Decided, FloorIs
<1>7. ASSUME NEW k \in 0..End, MarkBy(k, n) PROVE Reaches(held, down, d, k, b)
  <2>1. Point(d, k)
    BY <1>5 DEF Point
  <2> QED BY <1>0, <1>1, <1>5, <1>6, <1>7, <2>1 DEF FloorInv
<1>8. \A j \in 1..0 : FALSE
  OBVIOUS
<1>9. held'[d].seq \in Nat
  BY <1>5, HeldBounds
<1>10. CASE Settle(n) /\ n <= marker
  <2>1. held' = held
    BY <1>0, <1>1, <1>10, SettleEffect
  <2>2. MarkBy(0, n) /\ 0 \in 0..End
    <3>1. n \in Nat /\ marker \in Nat /\ End \in Nat
      BY <1>0, TypeFacts
    <3> QED BY <1>10, <3>1 DEF MarkBy
  <2>3. Reaches(held, down, d, 0, b)
    BY <1>7, <2>2
  <2>4. held[d].seq >= b
    BY <1>8, <2>3 DEF Reaches
  <2> QED BY <1>5, <1>9, <2>1, <2>4
<1>11. CASE /\ Effect \/ CallAnswered \/ Restored
            /\ Absorb(Head(down)) /\ n <= marker'
  <2>1. Head(down).type # "verdict" /\ down # <<>> /\ down' = Tail(down)
    BY <1>11 DEF Effect, CallAnswered, Restored, Received
  <2>2. PICK f \in Syncs : f = down[1] /\ 1 \in DOMAIN down /\ Absorb(f)
    BY <1>0, <1>11, <2>1, DownHead
  <2>3. marker' \in {marker, MarkIn(f)} /\ marker' \in Nat
    BY <1>0, <2>2, AbsorbEffect
  <2>4. 1 \in 0..End /\ End' = End - 1 /\ 0 \in 0..End' /\ n \in Nat /\ 1 \in 1..1
    <3>1. End' = End - 1 /\ End \in Nat \ {0}
      BY <1>0, <2>1, ReceivedFrames
    <3>2. n \in Nat
      BY <1>0, TypeFacts
    <3> QED BY <3>1, <3>2
  <2>5. MarkBy(1, n)
    <3>1. marker' >= n
      BY <1>11, <2>3, <2>4
    <3> QED BY <2>2, <2>3, <2>4, <3>1 DEF MarkBy
  <2>6. Reaches(held, down, d, 1, b)
    BY <1>7, <2>4, <2>5
  <2>7. Reaches(held', down', d, 0, b)
    <3>1. PICK k \in 0..End' : k = 0 /\ k + 1 = 1
      BY <2>4
    <3> QED BY <1>5, <1>11, <2>6, <3>1, ReachReceived
  <2>8. held'[d].seq >= b
    BY <1>8, <2>7 DEF Reaches
  <2> QED BY <1>5, <1>9, <2>8
<1> QED BY <1>3, <1>10, <1>11

(* A refused commit is handed back over a replica that has reached the head*)
(* that refused it, unless the wait for its repair timed out               *)
(* (RetryMovesOn).                                                         *)
THEOREM RetriesMoveOn == Spec => RetryMovesOn
<1>1. DeliveryInv /\ [Next]_vars =>
        [\A n \in DOMAIN mine : FreedOver(n) =>
           RepairTimesOut(n) \/ held'[mine[n].doc].seq >= refused[n]]_vars
  BY RetryStep
<1> QED BY <1>1, DeliveryInvariant, PTL DEF Spec, RetryMovesOn
=============================================================================
