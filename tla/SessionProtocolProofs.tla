------------------------ MODULE SessionProtocolProofs ------------------------
(***************************************************************************)
(* SessionProtocol has the types it claims and implements OnceSession, for *)
(* any number of commits, connections and restarts.                        *)
(*                                                                         *)
(* OnceSession asks that an accepted answer be given while the commit is   *)
(* recorded and a conflict while it is not and never will be. The answer   *)
(* is given by the server and told to the caller later, when any number of *)
(* connections may be carrying the same commit. FramesTrue says that an    *)
(* answer in flight stays true, which needs that a commit once refused is  *)
(* refused for good: its reads stay overwritten.                           *)
(***************************************************************************)
EXTENDS SessionProtocol, FiniteSetTheorems, SequenceTheorems, TLAPS

UpFrames ==
  {f \in [type : {"open", "transact"}, token : 0..MaxConns, commit : 0..MaxCommits] :
     f.type = "transact" => f.commit \in Commits}

DownFrames ==
  {f \in [type : {"opened", "verdict", "effect", "revoked"}, token : 0..MaxConns,
          resumed : BOOLEAN, marker : 0..MaxCommits, commit : 0..MaxCommits,
          verdict : {"none", "accepted", "conflict", "error"}] :
     /\ f.type = "verdict" => f.commit \in Commits /\ f.verdict # "none"
     /\ f.type = "opened" => f.token \in Conns}

Works ==
  {w \in [at : {"idle", "opening", "queued", "deciding"}, commit : 0..MaxCommits,
          token : 0..MaxConns, resumed : BOOLEAN, marker : 0..MaxCommits] :
     w.at \in {"queued", "deciding"} => w.commit \in Commits}

Sessions ==
  [token : 0..MaxConns, owner : 0..MaxConns, expiring : BOOLEAN,
   marker : 0..MaxCommits, owed : 0..MaxCommits]

Frames ==
  /\ up \in [Conns -> Seq(UpFrames)]
  /\ down \in [Conns -> Seq(DownFrames)]
  /\ work \in [Conns -> Works]
  /\ session \in Sessions

Typed ==
  /\ ClientTypes /\ ServerTypes /\ Frames
  /\ phase # "restoring" => replaying = {}

-----------------------------------------------------------------------------
(* The commits of a set, put in order, are sent as frames.                  *)
LEMMA TransactAllType ==
  ASSUME NEW S \in SUBSET Commits, NEW s \in Ascending(S)
  PROVE  TransactAll(s) \in Seq(UpFrames)
<1>1. IsFiniteSet(Commits)
  BY FS_Interval, BoundsAssumption DEF Commits
<1>2. IsFiniteSet(S) /\ Cardinality(S) \in Nat
  BY <1>1, FS_Subset, FS_CardinalityType
<1>3. s \in [1..Cardinality(S) -> Commits]
  BY DEF Ascending
<1>4. \A l \in Commits : TransactFrame(l) \in UpFrames
  BY BoundsAssumption DEF TransactFrame, UpFrames, Commits
<1>5. TransactAll(s) \in [1..Cardinality(S) -> UpFrames]
  BY <1>3, <1>4 DEF TransactAll
<1>6. QED
  BY <1>2, <1>5, SeqDef

(* What a connection is sent are frames.                                    *)
LEMMA SentType ==
  ASSUME Typed, NEW c \in Conns, NEW f \in DownFrames
  PROVE  Sent(c, <<f>>) \in [Conns -> Seq(DownFrames)]
<1>1. down[c] \o <<f>> \in Seq(DownFrames)
  <2>1. down[c] \in Seq(DownFrames) /\ <<f>> \in Seq(DownFrames)
    BY DEF Typed, Frames
  <2>2. QED
    BY <2>1
<1>2. QED
  BY <1>1 DEF Sent, Typed, Frames

(* The frames the server composes.                                          *)
LEMMA FrameTypes ==
  /\ Revoked \in DownFrames
  /\ \A m \in 0..MaxCommits : Effect(m) \in DownFrames
  /\ \A l \in Commits, v \in {"accepted", "conflict", "error"} :
       Verdict(l, v) \in DownFrames
  /\ \A c \in Conns, r \in BOOLEAN, m \in 0..MaxCommits : Opened(c, r, m) \in DownFrames
  /\ \A t \in 0..MaxConns : OpenFrame(t) \in UpFrames
  /\ \A l \in Commits : TransactFrame(l) \in UpFrames
BY BoundsAssumption DEF Revoked, Effect, Verdict, Opened, OpenFrame, TransactFrame,
   DownFrames, UpFrames, Commits, Conns

(* A received frame is one, and the rest of the queue is still a queue.     *)
LEMMA ReceivedType ==
  ASSUME Typed, NEW type, Received(type)
  PROVE  /\ conn \in Conns /\ Head(down[conn]) \in DownFrames
         /\ Head(down[conn]).type = type
         /\ down' \in [Conns -> Seq(DownFrames)]
<1>1. conn \in Conns /\ down[conn] \in Seq(DownFrames) /\ down[conn] # <<>>
  BY BoundsAssumption DEF Typed, ClientTypes, Frames, Received, Conns
<1>2. Head(down[conn]) \in DownFrames /\ Tail(down[conn]) \in Seq(DownFrames)
  BY <1>1
<1>3. QED
  BY <1>1, <1>2 DEF Received, Typed, Frames

LEMMA NextFrameType ==
  ASSUME Typed, NEW type, NEW c \in Conns, NextFrame(c, type)
  PROVE  /\ Head(up[c]) \in UpFrames /\ Head(up[c]).type = type
         /\ up' \in [Conns -> Seq(UpFrames)]
<1>1. up[c] \in Seq(UpFrames) /\ up[c] # <<>>
  BY DEF Typed, Frames, NextFrame
<1>2. Head(up[c]) \in UpFrames /\ Tail(up[c]) \in Seq(UpFrames)
  BY <1>1
<1>3. QED
  BY <1>1, <1>2 DEF NextFrame, Typed, Frames

LEMMA OutcomeType == \A l \in Commits : Outcome(l) \in {"accepted", "conflict"}
BY DEF Outcome

-----------------------------------------------------------------------------
(* Types, one step at a time.                                               *)
LEMMA InitTyped == Init => Typed
<1> SUFFICES ASSUME Init PROVE Typed
  OBVIOUS
<1>1. Idle \in Works /\ <<>> \in Seq(UpFrames) /\ <<>> \in Seq(DownFrames)
  BY BoundsAssumption DEF Idle, Works
<1>2. session = [token |-> 1, owner |-> 1, expiring |-> FALSE, marker |-> 0, owed |-> 0]
  BY DEF Init, Absent
<1>3. Frames
  <2>1. session \in Sessions
    BY <1>2, BoundsAssumption DEF Sessions
  <2>2. QED
    BY <1>1, <2>1 DEF Init, Frames
<1>4. ClientTypes /\ phase # "restoring"
  BY BoundsAssumption DEF Init, ClientTypes, Conns, Commits, Answers
<1>5. ServerTypes
  <2>1. applied \in Seq(Commits) /\ overwritten \subseteq Commits
    BY DEF Init
  <2>2. /\ alive \in [Conns -> BOOLEAN] /\ handle \in [Conns -> BOOLEAN]
        /\ DOMAIN work = Conns /\ DOMAIN up = Conns /\ DOMAIN down = Conns
    BY DEF Init
  <2>3. made = 1 /\ \A c \in Conns : alive[c] => c = 1
    BY DEF Init
  <2>4. QED
    BY <1>2, <2>1, <2>2, <2>3, BoundsAssumption DEF ServerTypes
<1>6. QED
  BY <1>3, <1>4, <1>5 DEF Typed, Init

LEMMA TransactTyped == Typed /\ Transact => Typed'
<1> SUFFICES ASSUME Typed, Transact PROVE Typed'
  OBVIOUS
<1>1. submitted + 1 \in Commits
  BY BoundsAssumption DEF Transact, Typed, ClientTypes, Commits
<1>2. Frames'
  <2>1. up' \in [Conns -> Seq(UpFrames)]
    <3>1. CASE phase = "ready" /\ conn \in Conns
      <4>1. up[conn] \in Seq(UpFrames) /\ TransactFrame(submitted + 1) \in UpFrames
        BY <1>1, <3>1, FrameTypes DEF Typed, Frames
      <4>2. Append(up[conn], TransactFrame(submitted + 1)) \in Seq(UpFrames)
        BY <4>1, AppendProperties
      <4>3. QED
        BY <3>1, <4>2 DEF Transact, Typed, Frames
    <3>2. CASE ~(phase = "ready" /\ conn \in Conns)
      <4>1. up' = up
        BY <3>2 DEF Transact, Typed, Frames
      <4>2. QED
        BY <4>1 DEF Typed, Frames
    <3>3. QED
      BY <3>1, <3>2
  <2>2. QED
    BY <2>1 DEF Transact, Typed, Frames, serverVars
<1>3. ClientTypes'
  BY <1>1, BoundsAssumption DEF Transact, Typed, ClientTypes, Commits
<1>4. ServerTypes'
  BY <1>2 DEF Transact, Typed, ServerTypes, Frames, serverVars, engineVars
<1>5. QED
  BY <1>2, <1>3, <1>4 DEF Transact, Typed

LEMMA ConnectTyped == Typed /\ Connect => Typed'
<1> SUFFICES ASSUME Typed, Connect PROVE Typed'
  OBVIOUS
<1>1. <<OpenFrame(token)>> \in Seq(UpFrames)
  BY FrameTypes DEF Typed, ClientTypes, Conns
<1>2. Frames'
  BY <1>1 DEF Connect, Typed, Frames
<1>3. ClientTypes' /\ made + 1 \in Conns
  BY BoundsAssumption DEF Connect, Typed, ClientTypes, Conns
<1>4. ServerTypes'
  BY <1>2, <1>3 DEF Connect, Typed, ClientTypes, ServerTypes, Frames, engineVars, Conns
<1>5. QED
  BY <1>2, <1>3, <1>4 DEF Connect, Typed

LEMMA RivalTyped == Typed /\ RivalConnects => Typed'
<1> SUFFICES ASSUME Typed, RivalConnects PROVE Typed'
  OBVIOUS
<1>1. <<OpenFrame(session.token)>> \in Seq(UpFrames)
  BY FrameTypes DEF Typed, Frames, Sessions
<1>2. Frames'
  BY <1>1 DEF RivalConnects, Typed, Frames
<1>3. ClientTypes' /\ made + 1 \in Conns
  BY BoundsAssumption DEF RivalConnects, Typed, ClientTypes, Conns, clientVars
<1>4. ServerTypes'
  BY <1>2, <1>3, SMTT(30) DEF RivalConnects, Typed, ClientTypes, ServerTypes, Frames, engineVars, clientVars, Conns
<1>5. QED
  BY <1>2, <1>3, <1>4 DEF RivalConnects, Typed, clientVars

LEMMA LoseTyped == Typed /\ Lose => Typed'
<1> SUFFICES ASSUME Typed, Lose PROVE Typed'
  OBVIOUS
<1>1. conn \in Conns
  BY BoundsAssumption DEF Typed, ClientTypes, Lose, Conns
<1>2. up[conn] \in Seq(UpFrames)
  BY <1>1 DEF Typed, Frames
<1>3. PICK n \in 0..Len(up[conn]) : up' = [up EXCEPT ![conn] = SubSeq(@, 1, n)]
  BY DEF Lose
<1>4. SubSeq(up[conn], 1, n) \in Seq(UpFrames)
  <2>1. \A i \in 1..n : up[conn][i] \in UpFrames
    BY <1>2, <1>3, LenProperties
  <2>2. QED
    BY <1>2, <1>3, <2>1, SubSeqProperties
<1>5. Frames'
  <2>1. up' \in [Conns -> Seq(UpFrames)]
    BY <1>3, <1>4 DEF Typed, Frames
  <2>2. <<>> \in Seq(DownFrames)
    OBVIOUS
  <2>3. down' \in [Conns -> Seq(DownFrames)]
    BY <2>2 DEF Lose, Typed, Frames
  <2>4. QED
    BY <2>1, <2>3 DEF Lose, Typed, Frames, serverVars
<1>6. ClientTypes' /\ replaying' = {}
  BY DEF Lose, Typed, ClientTypes, Conns
<1>7. ServerTypes'
  BY <1>5 DEF Lose, Typed, ServerTypes, Frames, serverVars, engineVars
<1>8. QED
  BY <1>5, <1>6, <1>7 DEF Typed

(* What restore leaves behind.                                              *)
LEMMA SettleType ==
  ASSUME Typed, conn \in Conns, NEW awaited \in SUBSET Commits,
         NEW kept \in SUBSET Commits,
         NEW last, NEW frames \in Seq(UpFrames), Settle(awaited, kept, last, frames)
  PROVE  /\ up' \in [Conns -> Seq(UpFrames)]
         /\ replaying' = awaited /\ phase' \in {"restoring", "ready"}
         /\ phase' # "restoring" => replaying' = {}
<1>1. PICK s \in Ascending(IF awaited = {} THEN {l \in kept : l > last} ELSE {}) :
        up' = [up EXCEPT ![conn] = @ \o frames \o TransactAll(s)]
  BY DEF Settle
<1>2. (IF awaited = {} THEN {l \in kept : l > last} ELSE {}) \in SUBSET Commits
  OBVIOUS
<1>3. TransactAll(s) \in Seq(UpFrames)
  BY <1>1, <1>2, TransactAllType
<1>4. up[conn] \o frames \o TransactAll(s) \in Seq(UpFrames)
  <2>1. up[conn] \in Seq(UpFrames)
    BY DEF Typed, Frames
  <2>2. up[conn] \o frames \in Seq(UpFrames)
    BY <2>1
  <2>3. QED
    BY <2>2, <1>3
<1>5. up' \in [Conns -> Seq(UpFrames)]
  BY <1>1, <1>4 DEF Typed, Frames
<1>6. QED
  BY <1>5 DEF Settle

LEMMA OpenedTyped == Typed /\ ReceiveOpened => Typed'
<1> SUFFICES ASSUME Typed, ReceiveOpened PROVE Typed'
  OBVIOUS
<1>1. /\ conn \in Conns /\ Head(down[conn]) \in DownFrames
      /\ Head(down[conn]).type = "opened" /\ down' \in [Conns -> Seq(DownFrames)]
  BY ReceivedType DEF ReceiveOpened
<1>2. outstanding \in SUBSET Commits
  BY BoundsAssumption DEF Typed, ClientTypes, Commits
<1>3. PICK s \in Ascending(outstanding) :
        Settle(outstanding, outstanding, submitted, TransactAll(s))
  BY DEF ReceiveOpened
<1>4. TransactAll(s) \in Seq(UpFrames)
  BY <1>2, <1>3, TransactAllType
<1>5. /\ up' \in [Conns -> Seq(UpFrames)]
      /\ replaying' = outstanding /\ phase' \in {"restoring", "ready"}
      /\ phase' # "restoring" => replaying' = {}
  BY <1>1, <1>2, <1>3, <1>4, SettleType
<1>6. token' \in Conns /\ caughtUp' \in 0..MaxCommits /\ waiters' \subseteq Commits
  BY <1>1, BoundsAssumption DEF ReceiveOpened, DownFrames, Typed, ClientTypes, Higher
<1>7. Frames'
  BY <1>1, <1>5 DEF ReceiveOpened, Typed, Frames, serverVars
<1>8. ClientTypes'
  BY <1>5, <1>6 DEF ReceiveOpened, Typed, ClientTypes
<1>9. ServerTypes'
  BY <1>7 DEF ReceiveOpened, Typed, ServerTypes, Frames, serverVars, engineVars
<1>10. QED
  BY <1>5, <1>7, <1>8, <1>9 DEF Typed

LEMMA RevokedTyped == Typed /\ ReceiveRevoked => Typed'
<1> SUFFICES ASSUME Typed, ReceiveRevoked PROVE Typed'
  OBVIOUS
<1>1. down' \in [Conns -> Seq(DownFrames)]
  BY ReceivedType DEF ReceiveRevoked
<1>2. Frames'
  BY <1>1 DEF ReceiveRevoked, Typed, Frames, serverVars
<1>3. ClientTypes' /\ replaying' = {}
  BY DEF ReceiveRevoked, Typed, ClientTypes, Answers
<1>4. ServerTypes'
  BY <1>2 DEF ReceiveRevoked, Typed, ServerTypes, Frames, serverVars, engineVars
<1>5. QED
  BY <1>2, <1>3, <1>4 DEF Typed

LEMMA VerdictTyped == Typed /\ ReceiveVerdict => Typed'
<1> SUFFICES ASSUME Typed, ReceiveVerdict PROVE Typed'
  OBVIOUS
<1> DEFINE l == Head(down[conn]).commit
           v == Head(down[conn]).verdict
<1>1. /\ conn \in Conns /\ Head(down[conn]) \in DownFrames
      /\ Head(down[conn]).type = "verdict" /\ down' \in [Conns -> Seq(DownFrames)]
  BY ReceivedType DEF ReceiveVerdict
<1>2. l \in Commits /\ v \in Answers
  BY <1>1 DEF DownFrames, Answers
<1>3. outstanding \in SUBSET Commits /\ replaying \in SUBSET Commits
  BY BoundsAssumption DEF Typed, ClientTypes, Commits
<1>4. /\ up' \in [Conns -> Seq(UpFrames)]
      /\ replaying' \subseteq outstanding \ {l}
      /\ phase' \in {"offline", "opening", "restoring", "ready", "closed"}
      /\ phase' # "restoring" => replaying' = {}
  <2>1. CASE phase = "restoring"
    <3>1. Settle(replaying \ {l}, outstanding \ {l}, through, <<>>)
      BY <2>1 DEF ReceiveVerdict
    <3>2. replaying \ {l} \in SUBSET Commits /\ outstanding \ {l} \in SUBSET Commits
          /\ <<>> \in Seq(UpFrames)
      BY <1>3
    <3>3. /\ up' \in [Conns -> Seq(UpFrames)]
          /\ replaying' = replaying \ {l} /\ phase' \in {"restoring", "ready"}
          /\ phase' # "restoring" => replaying' = {}
      BY <1>1, <3>1, <3>2, SettleType
    <3>4. QED
      BY <3>3 DEF Typed, ClientTypes
  <2>2. CASE phase # "restoring"
    BY <2>2 DEF ReceiveVerdict, Typed, ClientTypes, Frames
  <2>3. QED
    BY <2>1, <2>2
<1>5. /\ outstanding' = outstanding \ {l}
      /\ told' \in [Commits -> Answers] /\ waiters' \subseteq Commits
  BY <1>2 DEF ReceiveVerdict, Typed, ClientTypes
<1> HIDE DEF l, v
<1>6. Frames'
  BY <1>1, <1>4 DEF ReceiveVerdict, Typed, Frames, serverVars
<1>7. ClientTypes'
  BY <1>4, <1>5 DEF ReceiveVerdict, Typed, ClientTypes
<1>8. ServerTypes'
  BY <1>6 DEF ReceiveVerdict, Typed, ServerTypes, Frames, serverVars, engineVars
<1>9. QED
  BY <1>4, <1>6, <1>7, <1>8 DEF Typed

LEMMA EffectTyped == Typed /\ ReceiveEffect => Typed'
<1> SUFFICES ASSUME Typed, ReceiveEffect PROVE Typed'
  OBVIOUS
<1>1. /\ Head(down[conn]) \in DownFrames /\ down' \in [Conns -> Seq(DownFrames)]
  BY ReceivedType DEF ReceiveEffect
<1>2. caughtUp' \in 0..MaxCommits
  BY <1>1, BoundsAssumption DEF ReceiveEffect, DownFrames, Typed, ClientTypes, Higher
<1>3. Frames'
  BY <1>1 DEF ReceiveEffect, Typed, Frames, serverVars
<1>4. ClientTypes'
  BY <1>2 DEF ReceiveEffect, Typed, ClientTypes
<1>5. ServerTypes'
  BY <1>3 DEF ReceiveEffect, Typed, ServerTypes, Frames, serverVars, engineVars
<1>6. QED
  BY <1>3, <1>4, <1>5 DEF ReceiveEffect, Typed

LEMMA OpenSessionTyped == ASSUME Typed, NEW c \in Conns, OpenSession(c) PROVE Typed'
<1>1. /\ Head(up[c]) \in UpFrames /\ up' \in [Conns -> Seq(UpFrames)] /\ alive[c]
  BY NextFrameType DEF OpenSession, NextFrame
<1>2. CASE Exists /\ Head(up[c]).token # session.token
  <2>1. down' \in [Conns -> Seq(DownFrames)]
    BY <1>2, FrameTypes, SentType DEF OpenSession
  <2>2. Frames'
    BY <1>1, <1>2, <2>1 DEF OpenSession, Typed, Frames
  <2>3. ServerTypes'
    BY <1>2, <2>2 DEF OpenSession, Typed, ServerTypes, Frames, engineVars
  <2>4. ClientTypes' /\ (phase # "restoring" => replaying = {})'
    BY DEF OpenSession, Typed, ClientTypes, clientVars
  <2>5. QED
    BY <2>2, <2>3, <2>4 DEF Typed
<1>3. CASE ~(Exists /\ Head(up[c]).token # session.token)
  <2> DEFINE old == session.owner
             taken == old \notin {0, c}
             open == [at |-> "opening", commit |-> 0, token |-> c,
                      resumed |-> Exists, marker |-> session.marker]
  <2>1. /\ session' = [session EXCEPT !.token = c, !.owner = c, !.expiring = FALSE]
        /\ work' = [work EXCEPT ![c] = open]
        /\ handle' = IF taken THEN [handle EXCEPT ![old] = FALSE] ELSE handle
        /\ down' = IF taken /\ handle[old] THEN Sent(old, <<Revoked>>) ELSE down
    BY <1>3 DEF OpenSession
  <2>2. down' \in [Conns -> Seq(DownFrames)]
    <3>1. old \in 0..MaxConns
      BY DEF Typed, Frames, Sessions
    <3>2. taken => old \in Conns
      BY <3>1, BoundsAssumption DEF Conns
    <3>3. QED
      BY <2>1, <3>2, FrameTypes, SentType DEF Typed, Frames
  <2>3. open \in Works
    <3>1. c \in 0..MaxConns
      BY BoundsAssumption DEF Conns
    <3>2. Exists \in BOOLEAN
      BY DEF Exists
    <3>3. QED
      BY <3>1, <3>2, BoundsAssumption DEF Works, Typed, ServerTypes
  <2>4. /\ session' \in Sessions /\ session'.token = c /\ session'.owner = c
        /\ session'.marker = session.marker /\ session'.owed = session.owed
    <3>1. /\ session' = [session EXCEPT !.token = c, !.owner = c, !.expiring = FALSE]
          /\ session \in Sessions /\ c \in 0..MaxConns
      BY <2>1, BoundsAssumption DEF Typed, Frames, Conns
    <3>2. QED
      BY <3>1 DEF Sessions
  <2>5. Frames'
    BY <1>1, <2>1, <2>2, <2>3, <2>4 DEF Typed, Frames
  <2>6. c <= made
    BY <1>1 DEF Typed, ServerTypes
  <2>7. handle' \in [Conns -> BOOLEAN]
    BY <2>1 DEF Typed, ServerTypes
  <2> HIDE DEF open, taken, old
  <2>8. ServerTypes'
    <3>1. UNCHANGED <<made, alive, applied, overwritten>>
      BY DEF OpenSession, engineVars
    <3>2. session'.owner \in 0..made /\ session'.token \in 0..made
      BY <2>4, <2>6, BoundsAssumption DEF Conns, Typed, ClientTypes
    <3>3. QED
      BY <2>4, <2>5, <2>7, <3>1, <3>2 DEF Typed, ServerTypes, Frames
  <2>9. ClientTypes' /\ (phase # "restoring" => replaying = {})'
    BY DEF OpenSession, Typed, ClientTypes, clientVars
  <2>10. QED
    BY <2>5, <2>8, <2>9 DEF Typed
<1>4. QED
  BY <1>2, <1>3

LEMMA FinishOpenTyped == ASSUME Typed, NEW c \in Conns, FinishOpen(c) PROVE Typed'
<1> DEFINE own == session.token = c
           covered == IF work[c].resumed /\ own THEN Higher(session.marker, session.owed)
                      ELSE work[c].marker
<1>1. Idle \in Works
  BY BoundsAssumption DEF Idle, Works
<1>2. /\ work[c].marker \in 0..MaxCommits /\ work[c].resumed \in BOOLEAN
  BY DEF Typed, Frames, Works
<1>3. covered \in 0..MaxCommits
  BY <1>2 DEF Higher, Typed, ServerTypes
<1> HIDE DEF covered
<1>4. session' = IF work[c].resumed /\ own
                 THEN [session EXCEPT !.marker = covered, !.owed = 0] ELSE session
  BY DEF FinishOpen, covered
<1>5. /\ session' \in Sessions /\ session'.token = session.token
      /\ session'.owner = session.owner
      /\ session'.marker \in 0..MaxCommits /\ session'.owed \in 0..MaxCommits
  <2>1. session \in Sessions /\ 0 \in 0..MaxCommits
    BY BoundsAssumption DEF Typed, Frames
  <2>2. QED
    BY <1>3, <1>4, <2>1 DEF Sessions
<1>6. Opened(c, work[c].resumed, covered) \in DownFrames /\ Revoked \in DownFrames
  BY <1>2, <1>3, FrameTypes
<1>7. /\ \/ down' = Sent(c, <<Revoked>>) /\ handle' = handle
         \/ /\ down' = Sent(c, <<Opened(c, work[c].resumed, covered)>>)
            /\ handle' = [handle EXCEPT ![c] = TRUE]
  BY DEF FinishOpen, covered
<1>8. down' \in [Conns -> Seq(DownFrames)]
  BY <1>6, <1>7, SentType
<1>9. handle' \in [Conns -> BOOLEAN]
  BY <1>7 DEF Typed, ServerTypes
<1>10. Frames'
  BY <1>1, <1>5, <1>8 DEF FinishOpen, Typed, Frames
<1>11. ServerTypes'
  BY <1>5, <1>9, <1>10 DEF FinishOpen, Typed, ServerTypes, Frames, engineVars
<1>12. ClientTypes' /\ (phase # "restoring" => replaying = {})'
  BY DEF FinishOpen, Typed, ClientTypes, clientVars
<1>13. QED
  BY <1>10, <1>11, <1>12 DEF Typed

LEMMA TakeTransactTyped == ASSUME Typed, NEW c \in Conns, TakeTransact(c) PROVE Typed'
<1> DEFINE l == Head(up[c]).commit
<1>1. /\ Head(up[c]) \in UpFrames /\ up' \in [Conns -> Seq(UpFrames)]
      /\ Head(up[c]).type = "transact"
  BY NextFrameType DEF TakeTransact
<1>2. l \in Commits
  BY <1>1 DEF UpFrames
<1> HIDE DEF l
<1>3. down' \in [Conns -> Seq(DownFrames)]
  BY <1>2, FrameTypes, SentType DEF TakeTransact, Typed, Frames, l
<1>4. Queued(l) \in Works
  BY <1>2, BoundsAssumption DEF Queued, Works, Commits
<1>5. work' \in [Conns -> Works]
  BY <1>4 DEF TakeTransact, Typed, Frames, l
<1>6. Frames'
  BY <1>1, <1>3, <1>5 DEF TakeTransact, Typed, Frames
<1>7. ServerTypes'
  BY <1>6 DEF TakeTransact, Typed, ServerTypes, Frames, engineVars
<1>8. ClientTypes' /\ (phase # "restoring" => replaying = {})'
  BY DEF TakeTransact, Typed, ClientTypes, clientVars
<1>9. QED
  BY <1>6, <1>7, <1>8 DEF Typed

LEMMA BeginDecideTyped == ASSUME Typed, NEW c \in Conns, BeginDecide(c) PROVE Typed'
<1>1. work[c].at = "queued" /\ work[c] \in Works /\ work[c].commit \in Commits
  BY DEF BeginDecide, Typed, Frames, Works
<1>2. down' \in [Conns -> Seq(DownFrames)]
  BY <1>1, FrameTypes, SentType DEF BeginDecide, Typed, Frames
<1>3. work' \in [Conns -> Works]
  <2>1. [work[c] EXCEPT !.at = "deciding", !.token = session.token] \in Works
    BY <1>1 DEF Works, Typed, Frames, Sessions
  <2>2. Idle \in Works
    BY BoundsAssumption DEF Idle, Works
  <2>3. CASE Exists
    <3>1. work' = [work EXCEPT ![c] = [work[c] EXCEPT !.at = "deciding", !.token = session.token]]
      BY <2>3 DEF BeginDecide, Typed, Frames
    <3>2. QED
      BY <2>1, <3>1 DEF Typed, Frames
  <2>4. CASE ~Exists
    BY <2>2, <2>4 DEF BeginDecide, Typed, Frames
  <2>5. QED
    BY <2>3, <2>4
<1>4. Frames'
  BY <1>2, <1>3 DEF BeginDecide, Typed, Frames
<1>5. ServerTypes'
  BY <1>4 DEF BeginDecide, Typed, ServerTypes, Frames, engineVars
<1>6. ClientTypes' /\ (phase # "restoring" => replaying = {})'
  BY DEF BeginDecide, Typed, ClientTypes, clientVars
<1>7. QED
  BY <1>4, <1>5, <1>6 DEF Typed

LEMMA DecideTyped == ASSUME Typed, NEW c \in Conns, Decide(c) PROVE Typed'
<1> DEFINE l == work[c].commit
<1>1. l \in Commits
  BY DEF Decide, Typed, Frames, Works
<1>2. Outcome(l) \in {"accepted", "conflict"}
  BY <1>1, OutcomeType
<1> HIDE DEF l
<1>3. down' \in [Conns -> Seq(DownFrames)]
  <2>1. Verdict(l, "error") \in DownFrames /\ Verdict(l, Outcome(l)) \in DownFrames
    BY <1>1, <1>2, FrameTypes
  <2>2. down' = Sent(c, <<Verdict(l, "error")>>) \/ down' = Sent(c, <<Verdict(l, Outcome(l))>>)
    BY DEF Decide, l
  <2>3. QED
    BY <2>1, <2>2, SentType
<1>4. session' = session \/ session' = [session EXCEPT !.owed = Higher(@, l)]
  BY DEF Decide, l
<1>5. Higher(session.owed, l) \in 0..MaxCommits
  BY <1>1, BoundsAssumption DEF Higher, Commits, Typed, ServerTypes
<1>6. /\ session' \in Sessions /\ session'.owed \in 0..MaxCommits
      /\ session'.token = session.token /\ session'.owner = session.owner
      /\ session'.marker = session.marker
  BY <1>4, <1>5, BoundsAssumption DEF Typed, ServerTypes, Frames, Sessions
<1>7. Idle \in Works
  BY BoundsAssumption DEF Idle, Works
<1>8. Frames'
  BY <1>3, <1>6, <1>7 DEF Decide, Typed, Frames
<1>9. applied' \in Seq(Commits) /\ overwritten' \subseteq Commits
  <2>1. applied \in Seq(Commits) /\ overwritten \subseteq Commits
    BY DEF Typed, ServerTypes
  <2>2. applied' = applied \/ applied' = Append(applied, l)
    BY DEF Decide, l, engineVars
  <2>3. overwritten' = overwritten \/ overwritten' = overwritten \union {l}
    BY DEF Decide, l, engineVars
  <2>4. QED
    BY <1>1, <2>1, <2>2, <2>3, AppendProperties
<1>10. ServerTypes'
  BY <1>6, <1>8, <1>9 DEF Decide, Typed, ServerTypes, Frames
<1>11. ClientTypes' /\ (phase # "restoring" => replaying = {})'
  BY DEF Decide, Typed, ClientTypes, clientVars
<1>12. QED
  BY <1>8, <1>10, <1>11 DEF Typed

LEMMA RefreshTyped == ASSUME Typed, NEW c \in Conns, Refresh(c) PROVE Typed'
<1>1. session.owed \in 0..MaxCommits
  BY DEF Typed, ServerTypes
<1>2. down' \in [Conns -> Seq(DownFrames)]
  BY <1>1, FrameTypes, SentType DEF Refresh
<1>3. /\ session' \in Sessions /\ session'.owed = 0 /\ session'.marker = session.owed
      /\ session'.token = session.token /\ session'.owner = session.owner
  <2>1. /\ session \in Sessions /\ 0 \in 0..MaxCommits
        /\ session' = [session EXCEPT !.marker = session.owed, !.owed = 0]
    BY BoundsAssumption DEF Refresh, Typed, Frames
  <2>2. QED
    BY <2>1 DEF Sessions
<1>4. Frames'
  BY <1>2, <1>3 DEF Refresh, Typed, Frames
<1>5. ServerTypes'
  BY <1>1, <1>3, <1>4, BoundsAssumption DEF Refresh, Typed, ServerTypes, Frames, engineVars
<1>6. ClientTypes' /\ (phase # "restoring" => replaying = {})'
  BY DEF Refresh, Typed, ClientTypes, clientVars
<1>7. QED
  BY <1>4, <1>5, <1>6 DEF Typed

LEMMA DisconnectTyped == ASSUME Typed, NEW c \in Conns, Disconnect(c) PROVE Typed'
<1>1. /\ session' \in Sessions /\ session'.owed = session.owed
      /\ session'.marker = session.marker /\ session'.token = session.token
      /\ session'.owner \in {0, session.owner}
  <2>1. /\ session \in Sessions /\ 0 \in 0..MaxConns
        /\ \/ session' = [session EXCEPT !.owner = 0, !.expiring = TRUE]
           \/ session' = session
    BY BoundsAssumption DEF Disconnect, Typed, Frames
  <2>2. QED
    BY <2>1 DEF Sessions
<1>2. <<>> \in Seq(UpFrames)
  OBVIOUS
<1>3. Frames'
  BY <1>1, <1>2 DEF Disconnect, Typed, Frames
<1>4. ServerTypes'
  <2>1. alive' \in [Conns -> BOOLEAN] /\ \A k \in Conns : alive'[k] => k <= made'
    BY DEF Disconnect, Typed, ServerTypes
  <2>2. session'.owner \in 0..made
    BY <1>1, BoundsAssumption DEF Typed, ServerTypes, ClientTypes, Conns
  <2>3. QED
    BY <1>1, <1>3, <2>1, <2>2 DEF Disconnect, Typed, ServerTypes, Frames, engineVars
<1>5. ClientTypes' /\ (phase # "restoring" => replaying = {})'
  BY DEF Disconnect, Typed, ClientTypes, clientVars
<1>6. QED
  BY <1>3, <1>4, <1>5 DEF Typed

(* An absent session has a type too.                                        *)
LEMMA AbsentType ==
  ASSUME Typed
  PROVE  /\ Absent \in Sessions /\ Absent.owner \in 0..made /\ Absent.token \in 0..made
         /\ Absent.marker \in 0..MaxCommits /\ Absent.owed \in 0..MaxCommits
BY BoundsAssumption DEF Absent, Sessions, Typed, ClientTypes, Conns

LEMMA ExpireTyped == Typed /\ Expire => Typed'
<1> SUFFICES ASSUME Typed, Expire PROVE Typed'
  OBVIOUS
<1>1. session' = Absent
  BY DEF Expire
<1>2. Frames'
  BY <1>1, AbsentType DEF Expire, Typed, Frames
<1>3. ServerTypes'
  BY <1>1, AbsentType DEF Expire, Typed, ServerTypes, engineVars
<1>4. ClientTypes' /\ (phase # "restoring" => replaying = {})'
  BY DEF Expire, Typed, ClientTypes, clientVars
<1>5. QED
  BY <1>2, <1>3, <1>4 DEF Typed

LEMMA CrashTyped == Typed /\ Crash => Typed'
<1> SUFFICES ASSUME Typed, Crash PROVE Typed'
  OBVIOUS
<1>1. session' = Absent
  BY DEF Crash
<1>2. Idle \in Works /\ <<>> \in Seq(UpFrames)
  BY BoundsAssumption DEF Idle, Works
<1>3. Frames'
  BY <1>1, <1>2, AbsentType DEF Crash, Typed, Frames
<1>4. ServerTypes'
  BY <1>1, AbsentType DEF Crash, Typed, ServerTypes, engineVars
<1>5. ClientTypes' /\ (phase # "restoring" => replaying = {})'
  BY DEF Crash, Typed, ClientTypes, clientVars
<1>6. QED
  BY <1>3, <1>4, <1>5 DEF Typed

LEMMA OverwriteTyped == ASSUME Typed, NEW l \in Commits, Overwrite(l) PROVE Typed'
<1>1. Frames' /\ ServerTypes'
  BY DEF Overwrite, Typed, Frames, ServerTypes, serverVars
<1>2. ClientTypes' /\ (phase # "restoring" => replaying = {})'
  BY DEF Overwrite, Typed, ClientTypes, clientVars
<1>3. QED
  BY <1>1, <1>2 DEF Typed

LEMMA NextTyped == Typed /\ [Next]_vars => Typed'
<1> SUFFICES ASSUME Typed, [Next]_vars PROVE Typed'
  OBVIOUS
<1>1. CASE Client
  BY <1>1, TransactTyped, ConnectTyped, LoseTyped, OpenedTyped, RevokedTyped,
     VerdictTyped, EffectTyped, RivalTyped DEF Client
<1>2. CASE Server
  BY <1>2, OpenSessionTyped, FinishOpenTyped, TakeTransactTyped, BeginDecideTyped,
     DecideTyped, RefreshTyped, DisconnectTyped DEF Server
<1>3. CASE Expire \/ Crash \/ \E l \in Commits : Overwrite(l)
  BY <1>3, ExpireTyped, CrashTyped, OverwriteTyped
<1>4. CASE UNCHANGED vars
  BY <1>4 DEF vars, clientVars, serverVars, engineVars, Typed, ClientTypes, ServerTypes, Frames
<1>5. QED
  BY <1>1, <1>2, <1>3, <1>4 DEF Next

(* Every name and frame has its type: for all bounds.                       *)
THEOREM TypeCorrect == Spec => []TypeOK
<1>1. Typed => TypeOK
  BY DEF Typed, TypeOK
<1>2. QED
  BY <1>1, InitTyped, NextTyped, PTL DEF Spec

-----------------------------------------------------------------------------
(* What an answer says is so, and stays so.                                 *)
Holds(l, v) ==
  /\ v = "accepted" => l \in Applied
  /\ v = "conflict" => l \notin Applied /\ l \in overwritten

TrueFrames == {f \in DownFrames : f.type = "verdict" => Holds(f.commit, f.verdict)}

FramesTrue == down \in [Conns -> Seq(TrueFrames)]
ToldTrue == \A l \in Commits : Holds(l, told[l])
ToldOnce == \A l \in Commits : l \in outstanding \/ l > submitted => told[l] = "none"

TruthInv == Typed /\ FramesTrue /\ ToldTrue /\ ToldOnce

(* The engine records no commit whose reads are overwritten, and forgets    *)
(* nothing.                                                                 *)
EngineGrows ==
  /\ Applied \subseteq Applied' /\ overwritten \subseteq overwritten'
  /\ \A l \in Applied' \ Applied : l \notin overwritten

LEMMA GrowthKeeps ==
  ASSUME EngineGrows, NEW l, NEW v, Holds(l, v) PROVE Holds(l, v)'
BY DEF EngineGrows, Holds

LEMMA GrowthKeepsFrames ==
  ASSUME EngineGrows PROVE TrueFrames \subseteq TrueFrames'
BY GrowthKeeps DEF TrueFrames

(* What Append adds to the elements of a sequence.                          *)
LEMMA AppendedSet ==
  ASSUME NEW S, NEW s \in Seq(S), NEW e \in S
  PROVE  ToSet(Append(s, e)) = ToSet(s) \union {e}
<1>1. /\ Append(s, e) \in Seq(S) /\ Len(Append(s, e)) = Len(s) + 1
      /\ \A i \in 1..Len(s) : Append(s, e)[i] = s[i]
      /\ Append(s, e)[Len(s) + 1] = e
  BY AppendProperties
<1>2. DOMAIN s = 1..Len(s) /\ DOMAIN Append(s, e) = 1..(Len(s) + 1) /\ Len(s) \in Nat
  BY <1>1, LenProperties
<1>3. QED
  BY <1>1, <1>2 DEF ToSet

LEMMA DecideRecords ==
  ASSUME Typed, NEW c \in Conns, Decide(c)
  PROVE  /\ EngineGrows
         /\ applied' = applied \/ \E l \in Commits : /\ applied' = Append(applied, l)
                                                    /\ l \notin Applied
                                                    /\ l \notin overwritten
         /\ \E f \in TrueFrames' : down' = Sent(c, <<f>>)
<1>0. PICK l \in Commits : l = work[c].commit
  BY DEF Decide, Typed, Frames, Works
<1>1. l \in Commits /\ applied \in Seq(Commits)
  BY <1>0 DEF Typed, ServerTypes
<1>2. PICK v \in {"accepted", "conflict"} : v = Outcome(l)
  BY <1>1, OutcomeType
<1>3. CASE session.token # work[c].token
  <2>1. UNCHANGED engineVars /\ down' = Sent(c, <<Verdict(l, "error")>>)
    BY <1>0, <1>3 DEF Decide
  <2>2. Verdict(l, "error") \in TrueFrames'
    <3>1. Verdict(l, "error") \in DownFrames
      BY <1>1, FrameTypes
    <3>2. Verdict(l, "error").verdict = "error"
      BY DEF Verdict
    <3>3. QED
      BY <3>1, <3>2 DEF TrueFrames, Holds
  <2>3. QED
    BY <2>1, <2>2 DEF engineVars, EngineGrows, Applied
<1>4. CASE session.token = work[c].token
  <2>1. /\ down' = Sent(c, <<Verdict(l, v)>>)
        /\ applied' = IF v = "accepted" /\ l \notin Applied
                      THEN Append(applied, l) ELSE applied
        /\ overwritten' = IF v = "accepted" THEN overwritten \union {l}
                          ELSE overwritten
    BY <1>0, <1>2, <1>4 DEF Decide
  <2>2. v = "accepted" /\ l \notin Applied => l \notin overwritten
    BY <1>2 DEF Outcome
  <2>3. v = "conflict" => l \notin Applied /\ l \in overwritten
    BY <1>2 DEF Outcome
  <2>4. Applied' = IF v = "accepted" THEN Applied \union {l} ELSE Applied
    <3>1. CASE v = "accepted" /\ l \notin Applied
      BY <1>1, <2>1, <3>1, AppendedSet DEF Applied
    <3>2. CASE ~(v = "accepted" /\ l \notin Applied)
      BY <2>1, <3>2 DEF Applied
    <3>3. QED
      BY <3>1, <3>2
  <2>5. EngineGrows
    BY <2>1, <2>2, <2>4 DEF EngineGrows
  <2>6. Verdict(l, v) \in TrueFrames'
    <3>1. Verdict(l, v) \in DownFrames
      BY <1>1, <1>2, FrameTypes
    <3>2. Holds(l, v)'
      <4>1. CASE v = "accepted"
        BY <2>4, <4>1 DEF Holds
      <4>2. CASE v = "conflict"
        BY <2>1, <2>3, <2>4, <4>2 DEF Holds
      <4>3. QED
        BY <1>2, <4>1, <4>2
    <3>3. QED
      BY <3>1, <3>2 DEF TrueFrames, Verdict
  <2>7. applied' = applied \/ (applied' = Append(applied, l) /\ l \notin Applied /\ l \notin overwritten)
    BY <2>1, <2>2
  <2>8. QED
    BY <1>1, <2>1, <2>5, <2>6, <2>7
<1>5. QED
  BY <1>3, <1>4

(* The steps that leave the engine and the callers' answers alone.          *)
ServerQuiet(c) ==
  \/ OpenSession(c) \/ FinishOpen(c) \/ TakeTransact(c) \/ BeginDecide(c)
  \/ Refresh(c) \/ Disconnect(c)

LEMMA ServerQuietEngine ==
  ASSUME NEW c \in Conns, ServerQuiet(c) PROVE UNCHANGED engineVars
BY DEF ServerQuiet, OpenSession, FinishOpen, TakeTransact, BeginDecide, Refresh, Disconnect

LEMMA ClientEngine == Client => UNCHANGED engineVars
BY DEF Client, Transact, Connect, Lose, ReceiveOpened, ReceiveRevoked, ReceiveVerdict,
   ReceiveEffect, RivalConnects

LEMMA EngineStep == Typed /\ [Next]_vars => EngineGrows
<1> SUFFICES ASSUME Typed, [Next]_vars PROVE EngineGrows
  OBVIOUS
<1>1. UNCHANGED engineVars => EngineGrows
  BY DEF engineVars, EngineGrows, Applied
<1>2. CASE Client
  BY <1>1, <1>2, ClientEngine
<1>3. ASSUME NEW c \in Conns, ServerQuiet(c) PROVE EngineGrows
  BY <1>1, <1>3, ServerQuietEngine
<1>4. ASSUME NEW c \in Conns, Decide(c) PROVE EngineGrows
  BY <1>4, DecideRecords
<1>5. CASE Expire \/ Crash
  BY <1>1, <1>5 DEF Expire, Crash
<1>6. ASSUME NEW l \in Commits, Overwrite(l) PROVE EngineGrows
  BY <1>6 DEF Overwrite, EngineGrows, Applied
<1>7. CASE UNCHANGED vars
  BY <1>1, <1>7 DEF vars
<1>8. QED
  BY <1>2, <1>3, <1>4, <1>5, <1>6, <1>7 DEF Next, Server, ServerQuiet

(* A sequence over a set is one over any larger set.                        *)
LEMMA SeqGrows ==
  ASSUME NEW A, NEW B, A \subseteq B, NEW s \in Seq(A) PROVE s \in Seq(B)
<1>1. s \in [1..Len(s) -> A] /\ Len(s) \in Nat
  BY LenProperties
<1>2. s \in [1..Len(s) -> B]
  BY <1>1
<1>3. QED
  BY <1>1, <1>2, SeqDef

LEMMA QueuesGrow ==
  ASSUME NEW A, NEW B, A \subseteq B, NEW q, q \in [Conns -> Seq(A)]
  PROVE  q \in [Conns -> Seq(B)]
<1>1. \A c \in Conns : q[c] \in Seq(B)
  BY SeqGrows
<1>2. QED
  BY <1>1

LEMMA SentTrue ==
  ASSUME NEW A, down \in [Conns -> Seq(A)], NEW c \in Conns, NEW f \in A
  PROVE  Sent(c, <<f>>) \in [Conns -> Seq(A)]
<1>1. down[c] \o <<f>> \in Seq(A)
  <2>1. down[c] \in Seq(A) /\ <<f>> \in Seq(A)
    OBVIOUS
  <2>2. QED
    BY <2>1
<1>2. QED
  BY <1>1 DEF Sent

LEMMA ReceivedTrue ==
  ASSUME Typed, FramesTrue, NEW type, Received(type)
  PROVE  /\ Head(down[conn]) \in TrueFrames /\ Head(down[conn]).type = type
         /\ down' \in [Conns -> Seq(TrueFrames)]
<1>1. conn \in Conns
  BY ReceivedType
<1>2. down[conn] \in Seq(TrueFrames) /\ down[conn] # <<>>
  BY <1>1 DEF FramesTrue, Received
<1>3. Head(down[conn]) \in TrueFrames /\ Tail(down[conn]) \in Seq(TrueFrames)
  BY <1>2
<1>4. QED
  BY <1>3 DEF Received, FramesTrue

(* What the server sends besides decisions is true.                         *)
LEMMA PlainFramesTrue ==
  /\ Revoked \in TrueFrames
  /\ \A m \in 0..MaxCommits : Effect(m) \in TrueFrames
  /\ \A l \in Commits : Verdict(l, "error") \in TrueFrames
  /\ \A c \in Conns, r \in BOOLEAN, m \in 0..MaxCommits : Opened(c, r, m) \in TrueFrames
<1>1. Revoked \in TrueFrames
  BY FrameTypes DEF TrueFrames, Revoked
<1>2. \A m \in 0..MaxCommits : Effect(m) \in TrueFrames
  BY FrameTypes DEF TrueFrames, Effect
<1>3. ASSUME NEW l \in Commits PROVE Verdict(l, "error") \in TrueFrames
  <2>1. Verdict(l, "error") \in DownFrames
    BY FrameTypes
  <2>2. Verdict(l, "error").verdict = "error"
    BY DEF Verdict
  <2>3. QED
    BY <2>1, <2>2 DEF TrueFrames, Holds
<1>4. \A c \in Conns, r \in BOOLEAN, m \in 0..MaxCommits : Opened(c, r, m) \in TrueFrames
  BY FrameTypes DEF TrueFrames, Opened
<1>5. QED
  BY <1>1, <1>2, <1>3, <1>4

LEMMA ServerQuietFrames ==
  ASSUME Typed, FramesTrue, NEW c \in Conns, ServerQuiet(c)
  PROVE  down' \in [Conns -> Seq(TrueFrames)]
<1>1. \A f \in TrueFrames, k \in Conns : Sent(k, <<f>>) \in [Conns -> Seq(TrueFrames)]
  BY SentTrue DEF FramesTrue
<1>2. CASE OpenSession(c)
  <2>1. session.owner \notin {0, c} => session.owner \in Conns
    <3>1. session.owner \in 0..MaxConns
      BY DEF Typed, Frames, Sessions
    <3>2. QED
      BY <3>1, BoundsAssumption DEF Conns
  <2>2. \/ down' = down \/ \E k \in Conns : down' = Sent(k, <<Revoked>>)
    BY <1>2, <2>1 DEF OpenSession
  <2>3. QED
    BY <1>1, <2>2, PlainFramesTrue DEF FramesTrue
<1>3. CASE FinishOpen(c)
  <2>1. PICK m \in 0..MaxCommits, r \in BOOLEAN :
          down' = Sent(c, <<Revoked>>) \/ down' = Sent(c, <<Opened(c, r, m)>>)
    <3> DEFINE own == session.token = c
               covered == IF work[c].resumed /\ own THEN Higher(session.marker, session.owed)
                          ELSE work[c].marker
    <3>1. work[c].marker \in 0..MaxCommits /\ work[c].resumed \in BOOLEAN
      BY DEF Typed, Frames, Works
    <3>2. covered \in 0..MaxCommits
      BY <3>1 DEF Higher, Typed, ServerTypes
    <3>3. down' = Sent(c, <<Revoked>>) \/ down' = Sent(c, <<Opened(c, work[c].resumed, covered)>>)
      BY <1>3 DEF FinishOpen
    <3> HIDE DEF covered
    <3>4. QED
      BY <3>1, <3>2, <3>3
  <2>2. QED
    BY <1>1, <2>1, PlainFramesTrue
<1>4. CASE TakeTransact(c)
  <2>1. Head(up[c]).commit \in Commits
    <3>1. Head(up[c]) \in UpFrames /\ Head(up[c]).type = "transact"
      BY <1>4, NextFrameType DEF TakeTransact
    <3>2. QED
      BY <3>1 DEF UpFrames
  <2>2. down' = down \/ down' = Sent(c, <<Verdict(Head(up[c]).commit, "error")>>)
    BY <1>4 DEF TakeTransact
  <2>3. QED
    BY <1>1, <2>1, <2>2, PlainFramesTrue DEF FramesTrue
<1>5. CASE BeginDecide(c)
  <2>1. work[c].commit \in Commits
    BY <1>5 DEF BeginDecide, Typed, Frames, Works
  <2>2. down' = down \/ down' = Sent(c, <<Verdict(work[c].commit, "error")>>)
    BY <1>5 DEF BeginDecide
  <2>3. QED
    BY <1>1, <2>1, <2>2, PlainFramesTrue DEF FramesTrue
<1>6. CASE Refresh(c)
  <2>1. session.owed \in 0..MaxCommits /\ down' = Sent(c, <<Effect(session.owed)>>)
    BY <1>6 DEF Refresh, Typed, ServerTypes
  <2>2. QED
    BY <1>1, <2>1, PlainFramesTrue
<1>7. CASE Disconnect(c)
  BY <1>7 DEF Disconnect, FramesTrue
<1>8. QED
  BY <1>2, <1>3, <1>4, <1>5, <1>6, <1>7 DEF ServerQuiet

LEMMA ClientFrames ==
  ASSUME Typed, FramesTrue, Client PROVE down' \in [Conns -> Seq(TrueFrames)]
<1>1. CASE Transact \/ Connect \/ RivalConnects
  BY <1>1 DEF Transact, Connect, RivalConnects, FramesTrue
<1>2. CASE Lose
  <2>1. <<>> \in Seq(TrueFrames)
    OBVIOUS
  <2>2. QED
    BY <1>2, <2>1 DEF Lose, FramesTrue
<1>3. CASE ReceiveOpened
  BY <1>3, ReceivedTrue DEF ReceiveOpened
<1>4. CASE ReceiveRevoked
  BY <1>4, ReceivedTrue DEF ReceiveRevoked
<1>5. CASE ReceiveVerdict
  BY <1>5, ReceivedTrue DEF ReceiveVerdict
<1>6. CASE ReceiveEffect
  BY <1>6, ReceivedTrue DEF ReceiveEffect
<1>7. QED
  BY <1>1, <1>2, <1>3, <1>4, <1>5, <1>6 DEF Client

(* Frames in flight stay true.                                              *)
LEMMA NextFramesTrue == Typed /\ FramesTrue /\ [Next]_vars => FramesTrue'
<1> SUFFICES ASSUME Typed, FramesTrue, [Next]_vars PROVE FramesTrue'
  OBVIOUS
<1>1. TrueFrames \subseteq TrueFrames'
  BY EngineStep, GrowthKeepsFrames
<1>2. ASSUME down' \in [Conns -> Seq(TrueFrames)] PROVE FramesTrue'
  BY <1>1, <1>2, QueuesGrow DEF FramesTrue
<1>3. CASE Client
  BY <1>2, <1>3, ClientFrames
<1>4. ASSUME NEW c \in Conns, ServerQuiet(c) PROVE FramesTrue'
  BY <1>2, <1>4, ServerQuietFrames
<1>5. ASSUME NEW c \in Conns, Decide(c) PROVE FramesTrue'
  <2>1. PICK f \in TrueFrames' : down' = Sent(c, <<f>>)
    BY <1>5, DecideRecords
  <2>2. down \in [Conns -> Seq(TrueFrames')]
    BY <1>1, QueuesGrow DEF FramesTrue
  <2>3. QED
    BY <2>1, <2>2, SentTrue DEF FramesTrue
<1>6. CASE Expire \/ Crash \/ \E l \in Commits : Overwrite(l)
  BY <1>2, <1>6 DEF Expire, Crash, Overwrite, FramesTrue
<1>7. CASE UNCHANGED vars
  BY <1>2, <1>7 DEF vars, FramesTrue
<1>8. QED
  BY <1>3, <1>4, <1>5, <1>6, <1>7 DEF Next, Server, ServerQuiet

(* What a step may tell the callers.                                        *)
Tells ==
  \/ UNCHANGED told
  \/ UNCHANGED engineVars /\ Once!End
  \/ UNCHANGED engineVars
     /\ \E l \in Commits, v \in {"accepted", "conflict", "error"} :
          told[l] = "none" /\ Holds(l, v) /\ told' = [told EXCEPT ![l] = v]

LEMMA ServerSilent ==
  ASSUME [Next]_vars, ~Client PROVE UNCHANGED <<told, submitted, outstanding>>
<1>1. ASSUME NEW c \in Conns, ServerQuiet(c) \/ Decide(c) PROVE UNCHANGED clientVars
  BY <1>1 DEF ServerQuiet, OpenSession, FinishOpen, TakeTransact, BeginDecide, Refresh,
              Disconnect, Decide
<1>2. ASSUME Expire \/ Crash \/ \E l \in Commits : Overwrite(l) PROVE UNCHANGED clientVars
  BY <1>2 DEF Expire, Crash, Overwrite
<1>3. UNCHANGED clientVars
  BY <1>1, <1>2 DEF Next, Server, ServerQuiet, vars
<1>4. QED
  BY <1>3 DEF clientVars

LEMMA NextTells ==
  ASSUME Typed, FramesTrue, ToldOnce, [Next]_vars
  PROVE  Tells /\ ToldOnce'
<1>1. CASE ~Client
  BY <1>1, ServerSilent DEF Tells, ToldOnce
<1>2. CASE Transact
  <2>1. submitted \in Nat /\ submitted + 1 \in Commits
    BY <1>2, BoundsAssumption DEF Transact, Typed, ClientTypes, Commits
  <2>2. UNCHANGED told /\ submitted' = submitted + 1
        /\ outstanding' = outstanding \union {submitted + 1}
    BY <1>2 DEF Transact
  <2>3. QED
    BY <2>1, <2>2 DEF Tells, ToldOnce, Commits
<1>3. CASE Connect \/ Lose \/ ReceiveOpened \/ ReceiveEffect \/ RivalConnects
  <2>1. UNCHANGED <<told, submitted, outstanding>>
    BY <1>3 DEF Connect, Lose, ReceiveOpened, ReceiveEffect, RivalConnects, clientVars
  <2>2. QED
    BY <2>1 DEF Tells, ToldOnce
<1>4. CASE ReceiveRevoked
  <2>1. /\ told' = [l \in Commits |-> IF l \in outstanding THEN "revoked" ELSE told[l]]
        /\ outstanding' = {} /\ UNCHANGED <<submitted, applied, overwritten>>
    BY <1>4 DEF ReceiveRevoked, engineVars
  <2>2. outstanding \subseteq 1..submitted /\ told \in [Commits -> Answers]
    BY DEF Typed, ClientTypes
  <2>3. Once!End
    BY <2>1, <2>2 DEF Once!End, Answers, ToldOnce
  <2>4. ToldOnce'
    <3>1. \A l \in Commits : l > submitted => l \notin outstanding
      BY <2>2, BoundsAssumption DEF Typed, ClientTypes, Commits
    <3>2. QED
      BY <2>1, <3>1 DEF ToldOnce
  <2>5. QED
    BY <2>1, <2>3, <2>4 DEF Tells, engineVars
<1>5. CASE ReceiveVerdict
  <2>1. PICK f \in TrueFrames : f = Head(down[conn]) /\ f.type = "verdict"
    BY <1>5, ReceivedTrue DEF ReceiveVerdict
  <2>2. /\ f.commit \in Commits /\ f.verdict \in {"accepted", "conflict", "error"}
        /\ Holds(f.commit, f.verdict)
    BY <2>1 DEF TrueFrames, DownFrames
  <2>3. /\ outstanding' = outstanding \ {f.commit}
        /\ told' = IF f.commit \in outstanding THEN [told EXCEPT ![f.commit] = f.verdict]
                   ELSE told
        /\ UNCHANGED <<submitted, applied, overwritten>>
    BY <1>5, <2>1 DEF ReceiveVerdict, engineVars
  <2>4. \A l \in outstanding : ~(l > submitted)
    BY BoundsAssumption DEF Typed, ClientTypes, Commits
  <2>5. ToldOnce'
    BY <2>2, <2>3, <2>4 DEF ToldOnce, Typed, ClientTypes
  <2>6. Tells
    BY <2>2, <2>3 DEF Tells, ToldOnce, engineVars
  <2>7. QED
    BY <2>5, <2>6
<1>6. QED
  BY <1>1, <1>2, <1>3, <1>4, <1>5 DEF Client

LEMMA InitTruth == Init => TruthInv
<1> SUFFICES ASSUME Init PROVE TruthInv
  OBVIOUS
<1>1. <<>> \in Seq(TrueFrames)
  OBVIOUS
<1>2. FramesTrue
  BY <1>1 DEF Init, FramesTrue
<1>3. ToldTrue /\ ToldOnce
  BY DEF Init, ToldTrue, ToldOnce, Holds
<1>4. QED
  BY <1>2, <1>3, InitTyped DEF TruthInv

LEMMA NextTruth == TruthInv /\ [Next]_vars => TruthInv'
<1> SUFFICES ASSUME TruthInv, [Next]_vars PROVE TruthInv'
  OBVIOUS
<1>1. Typed' /\ FramesTrue' /\ Tells /\ ToldOnce' /\ EngineGrows
  BY NextTyped, NextFramesTrue, NextTells, EngineStep DEF TruthInv
<1>2. ToldTrue'
  <2>1. \A l \in Commits : Holds(l, told[l]) /\ told \in [Commits -> Answers]
    BY DEF TruthInv, ToldTrue, Typed, ClientTypes
  <2>2. ASSUME NEW l \in Commits, NEW v, Holds(l, v) PROVE Holds(l, v)'
    BY <1>1, <2>2, GrowthKeeps
  <2>3. CASE UNCHANGED told
    <3>1. SUFFICES ASSUME NEW l \in Commits PROVE Holds(l, told[l])'
      BY DEF ToldTrue
    <3>2. PICK v : v = told[l]
      OBVIOUS
    <3>3. Holds(l, v)'
      BY <2>1, <2>2, <3>2
    <3>4. QED
      BY <2>3, <3>2, <3>3
  <2>4. CASE UNCHANGED engineVars /\ told' # told
    BY <2>1, <1>1, <2>4 DEF Tells, ToldTrue, Holds, Once!End, engineVars, Applied
  <2>5. QED
    BY <1>1, <2>3, <2>4 DEF Tells
<1>3. QED
  BY <1>1, <1>2 DEF TruthInv

(* A session keeps what OnceSession promises, however often its connection  *)
(* is lost, whoever takes it over and whenever the server restarts: a       *)
(* commit is recorded at most once, one reported accepted is recorded, and  *)
(* one reported in conflict never will be.                                  *)
THEOREM SessionKeepsPromise == Spec => ImplementsOnceSession
<1>1. Init => Once!Init
  BY DEF Init, Once!Init
<1>2. TruthInv /\ [Next]_vars => [Once!Next]_<<applied, told>>
  <2> SUFFICES ASSUME TruthInv, [Next]_vars PROVE [Once!Next]_<<applied, told>>
    OBVIOUS
  <2>1. Tells /\ Typed
    BY NextTells DEF TruthInv
  <2>2. CASE told' # told
    <3>1. CASE UNCHANGED engineVars /\ Once!End
      BY <3>1 DEF Once!Next
    <3>2. ASSUME NEW l \in Commits, NEW v \in {"accepted", "conflict", "error"},
                 UNCHANGED engineVars, told[l] = "none", Holds(l, v),
                 told' = [told EXCEPT ![l] = v]
          PROVE  Once!Next
      BY <3>2 DEF Holds, Applied, engineVars, ToSet, Once!Next, Once!Answer, Once!ToSet
    <3>3. QED
      BY <2>1, <2>2, <3>1, <3>2 DEF Tells
  <2>3. CASE told' = told /\ applied' # applied
    <3>1. PICK c \in Conns : Decide(c)
      BY <2>3, ClientEngine, ServerQuietEngine
      DEF Next, Server, ServerQuiet, Expire, Crash, Overwrite, vars, engineVars
    <3>2. PICK l \in Commits : /\ applied' = Append(applied, l)
                              /\ l \notin Applied /\ l \notin overwritten
      BY <2>1, <2>3, <3>1, DecideRecords
    <3>3. told[l] # "conflict"
      BY <3>2 DEF TruthInv, ToldTrue, Holds
    <3>4. Once!Record(l)
      BY <2>3, <3>2, <3>3 DEF Once!Record, Applied, ToSet, Once!ToSet
    <3>5. QED
      BY <3>4 DEF Once!Next
  <2>4. QED
    BY <2>2, <2>3
<1>3. QED
  BY <1>1, <1>2, InitTruth, NextTruth, PTL DEF Spec, ImplementsOnceSession, Once!Spec

-----------------------------------------------------------------------------

(***************************************************************************)
(* With ACLs active, for any number of commits, connections, restarts and  *)
(* takeovers: the commits of a session are recorded in their local order,  *)
(* and none is refused for want of a session.                              *)
(*                                                                         *)
(* A commit is recorded once those before it are Settled: their reads are  *)
(* stale, because they were overwritten or because the commit is recorded. *)
(* Between the client and that point, Pipeline says that a connection      *)
(* which still has the session carries no commit without those before it,  *)
(* and AllSent that the client's connection carries all it was to send.    *)
(* Both fail when a commit is refused for want of a session, so the proof  *)
(* follows who has it: a connection that has its handle and is not closed  *)
(* owns the session (Owns), and one that lost the handle has sent its      *)
(* client the revocation before it refuses anything (Warned).              *)
(***************************************************************************)

Holding(c)   == alive[c] /\ handle[c]
Carrying(c)  == work[c].at \in {"queued", "deciding"}
Carried(c)   == IF Carrying(c) THEN {work[c].commit} ELSE {}
Ahead(c, i)  == {up[c][j].commit : j \in 1..(i - 1)}
Known(c, i)  == overwritten \union Carried(c) \union Ahead(c, i)
Has(q, t)    == \E i \in DOMAIN q : q[i].type = t
Restored     == phase \in {"restoring", "ready"}
Established  == conn # 0 /\ (Restored \/ Has(down[conn], "opened"))
Due          == IF phase = "ready" THEN submitted ELSE through

\* The server's side: who has the session.
Owns    == \A c \in Conns : Holding(c) => session.owner = c /\ session.token = c
Expires == session.expiring => session.owner = 0
Captured == \A c \in Conns : work[c].at = "deciding" /\ Holding(c) => work[c].token = c
Fresh   == \A c \in Conns : c > made =>
             /\ up[c] = <<>> /\ down[c] = <<>> /\ work[c] = Idle
             /\ ~alive[c] /\ ~handle[c]
OpenAlone == \A c \in Conns : /\ Has(up[c], "open") => Len(up[c]) = 1
                              /\ work[c].at = "opening" => up[c] = <<>>
HoldInv == Owns /\ Expires /\ Captured /\ Fresh /\ OpenAlone

\* The client's side: what its connection has told it.
Opened1 == Established => work[conn].at # "opening" /\ ~Has(up[conn], "open")
Begun   == conn # 0 /\ phase # "closed" /\ (Carrying(conn) \/ Has(up[conn], "transact"))
             => Established
Told    == Established /\ phase # "closed" /\ alive[conn] /\ ~handle[conn] => Has(down[conn], "revoked")
Refuses(f) == f.type = "verdict" /\ f.verdict = "error"
Warns(q) == \A i \in DOMAIN q : Refuses(q[i]) => \E j \in 1..(i - 1) : q[j].type = "revoked"
Warned  == conn # 0 /\ phase # "closed" => Warns(down[conn])
LinkInv == Opened1 /\ Begun /\ Told /\ Warned /\ NoSessionError

\* The commits.
Answered == phase # "closed" => 1..submitted \subseteq outstanding \union overwritten
Recorded == Applied \subseteq overwritten /\ \A l \in Applied : 1..(l - 1) \subseteq overwritten
Working  == \A c \in Conns : Carrying(c) => 1..(work[c].commit - 1) \subseteq overwritten
InOrder(c) == \A i \in DOMAIN up[c] :
                up[c][i].type = "transact" => 1..(up[c][i].commit - 1) \subseteq Known(c, i)
AllOf(c, n) == 1..n \subseteq Known(c, Len(up[c]) + 1)
Pipeline == \A c \in Conns : Holding(c) => InOrder(c)
AllSent  == conn # 0 /\ Restored /\ Holding(conn) => AllOf(conn, Due)
OrderInv == Answered /\ Recorded /\ Working /\ Pipeline /\ AllSent /\ RecordedInLocalOrder

-----------------------------------------------------------------------------
(* What is in flight, and what a step adds to it.                           *)
LEMMA UpShape ==
  ASSUME Typed, NEW c \in Conns
  PROVE  /\ up[c] \in Seq(UpFrames) /\ Len(up[c]) \in Nat /\ DOMAIN up[c] = 1..Len(up[c])
         /\ \A i \in DOMAIN up[c] : /\ up[c][i] \in UpFrames
                                    /\ up[c][i].type = "transact" => up[c][i].commit \in Commits
<1>1. up[c] \in Seq(UpFrames)
  BY DEF Typed, Frames
<1>2. Len(up[c]) \in Nat /\ DOMAIN up[c] = 1..Len(up[c])
  BY <1>1, LenProperties
<1>3. \A i \in 1..Len(up[c]) : up[c][i] \in UpFrames
  BY <1>1, ElementOfSeq
<1>4. QED
  BY <1>1, <1>2, <1>3 DEF UpFrames

LEMMA DownShape ==
  ASSUME Typed, NEW c \in Conns
  PROVE  /\ down[c] \in Seq(DownFrames) /\ Len(down[c]) \in Nat
         /\ DOMAIN down[c] = 1..Len(down[c])
<1>1. down[c] \in Seq(DownFrames)
  BY DEF Typed, Frames
<1>2. QED
  BY <1>1, LenProperties

(* The frame handled is the first of its connection.                        *)
LEMMA TakenShape ==
  ASSUME Typed, NEW type, NEW c \in Conns, NextFrame(c, type)
  PROVE  /\ alive[c] /\ work[c] = Idle /\ Len(up[c]) > 0
         /\ Head(up[c]) = up[c][1] /\ up[c][1].type = type
         /\ Len(up'[c]) = Len(up[c]) - 1 /\ DOMAIN up'[c] = 1..(Len(up[c]) - 1)
         /\ \A i \in 1..(Len(up[c]) - 1) : up'[c][i] = up[c][i + 1]
         /\ \A d \in Conns : d # c => up'[d] = up[d]
<1>1. up[c] \in Seq(UpFrames) /\ up[c] # <<>>
  BY DEF Typed, Frames, NextFrame
<1>2. up' = [up EXCEPT ![c] = Tail(up[c])] /\ DOMAIN up = Conns
  BY DEF NextFrame, Typed, Frames
<1>3. Len(up[c]) \in Nat /\ Len(up[c]) > 0 /\ Head(up[c]) = up[c][1]
  BY <1>1, LenProperties, EmptySeq
<1>4. /\ Len(Tail(up[c])) = Len(up[c]) - 1 /\ Tail(up[c]) \in Seq(UpFrames)
      /\ \A i \in 1..Len(Tail(up[c])) : Tail(up[c])[i] = up[c][i + 1]
  BY <1>1, HeadTailProperties
<1>5. DOMAIN Tail(up[c]) = 1..Len(Tail(up[c]))
  BY <1>4, LenProperties
<1>6. QED
  BY <1>2, <1>3, <1>4, <1>5 DEF NextFrame

(* A frame received is the first of its connection.                         *)
LEMMA ReceivedShape ==
  ASSUME Typed, NEW type, Received(type)
  PROVE  /\ conn \in Conns /\ conn # 0 /\ phase # "closed" /\ Len(down[conn]) > 0
         /\ Head(down[conn]) = down[conn][1] /\ down[conn][1].type = type
         /\ DOMAIN down'[conn] = 1..(Len(down[conn]) - 1)
         /\ \A i \in 1..(Len(down[conn]) - 1) : down'[conn][i] = down[conn][i + 1]
         /\ \A d \in Conns : d # conn => down'[d] = down[d]
<1>1. conn \in Conns /\ down[conn] \in Seq(DownFrames) /\ down[conn] # <<>>
  BY ReceivedType DEF Typed, Frames, Received
<1>2. down' = [down EXCEPT ![conn] = Tail(down[conn])] /\ DOMAIN down = Conns
  BY DEF Received, Typed, Frames
<1>3. Len(down[conn]) \in Nat /\ Len(down[conn]) > 0 /\ Head(down[conn]) = down[conn][1]
  BY <1>1, LenProperties, EmptySeq
<1>4. /\ Len(Tail(down[conn])) = Len(down[conn]) - 1 /\ Tail(down[conn]) \in Seq(DownFrames)
      /\ \A i \in 1..Len(Tail(down[conn])) : Tail(down[conn])[i] = down[conn][i + 1]
  BY <1>1, HeadTailProperties
<1>5. DOMAIN Tail(down[conn]) = 1..Len(Tail(down[conn]))
  BY <1>4, LenProperties
<1>6. QED
  BY <1>1, <1>2, <1>3, <1>4, <1>5 DEF Received

(* What is sent is added at the end, if it reaches the client.              *)
Arrives(f) ==
  /\ DOMAIN down'[conn] = 1..(Len(down[conn]) + 1)
  /\ \A i \in 1..Len(down[conn]) : down'[conn][i] = down[conn][i]
  /\ down'[conn][Len(down[conn]) + 1] = f

LEMMA SentShape ==
  ASSUME Typed, NEW c \in Conns, NEW f \in DownFrames, down' = Sent(c, <<f>>)
  PROVE  /\ \A d \in Conns : d # c => down'[d] = down[d]
         /\ ~Reaches(c) => down' = down
         /\ Reaches(c) => Arrives(f)
<1>1. down[c] \in Seq(DownFrames) /\ <<f>> \in Seq(DownFrames) /\ Len(<<f>>) = 1 /\ <<f>>[1] = f
  BY DEF Typed, Frames
<1>2. /\ down[c] \o <<f>> \in Seq(DownFrames) /\ Len(down[c] \o <<f>>) = Len(down[c]) + Len(<<f>>)
      /\ \A i \in 1..(Len(down[c]) + Len(<<f>>)) : (down[c] \o <<f>>)[i] =
            IF i <= Len(down[c]) THEN down[c][i] ELSE <<f>>[i - Len(down[c])]
  BY <1>1, ConcatProperties
<1>3. DOMAIN (down[c] \o <<f>>) = 1..(Len(down[c]) + 1) /\ Len(down[c]) \in Nat
  BY <1>1, <1>2, LenProperties
<1>4. CASE Reaches(c)
  <2>1. c = conn /\ down' = [down EXCEPT ![c] = down[c] \o <<f>>] /\ DOMAIN down = Conns
    BY <1>4 DEF Sent, Reaches, Typed, Frames
  <2>2. down'[conn] = down[c] \o <<f>>
    BY <2>1
  <2>3. /\ \A i \in 1..Len(down[c]) : (down[c] \o <<f>>)[i] = down[c][i]
        /\ (down[c] \o <<f>>)[Len(down[c]) + 1] = f
    <3>1. (Len(down[c]) + 1) - Len(down[c]) = 1 /\ ~(Len(down[c]) + 1 <= Len(down[c]))
          /\ Len(down[c]) + 1 \in 1..(Len(down[c]) + 1)
      BY <1>3
    <3>2. (down[c] \o <<f>>)[Len(down[c]) + 1] = <<f>>[1]
      BY <1>1, <1>2, <3>1
    <3>3. QED
      BY <1>1, <1>2, <1>3, <3>2
  <2>4. Arrives(f)
    BY <1>3, <2>1, <2>2, <2>3 DEF Arrives
  <2>5. QED
    BY <1>4, <2>1, <2>4
<1>5. CASE ~Reaches(c)
  BY <1>5 DEF Sent
<1>6. QED
  BY <1>4, <1>5

(* The commits of a set, added to a queue in order.                         *)
Added(q, r, S) ==
  /\ Len(r) \in Nat /\ Len(r) >= Len(q) /\ DOMAIN r = 1..Len(r)
  /\ \A i \in 1..Len(q) : r[i] = q[i]
  /\ \A i \in (Len(q) + 1)..Len(r) :
       /\ r[i].type = "transact" /\ r[i].commit \in S
       /\ \A k \in S : k < r[i].commit => \E j \in (Len(q) + 1)..(i - 1) : r[j].commit = k
  /\ \A k \in S : \E i \in (Len(q) + 1)..Len(r) : r[i].commit = k

\* What the client sends on its connection.
Sends(S) == /\ \A d \in Conns : d # conn => up'[d] = up[d]
            /\ Added(up[conn], up'[conn], S)

LEMMA AscendingOnto ==
  ASSUME NEW S \in SUBSET Commits, NEW s \in Ascending(S)
  PROVE  \E n \in Nat :
           /\ n = Cardinality(S) /\ s \in [1..n -> S]
           /\ \A k \in S : \E i \in 1..n : s[i] = k
           /\ \A i, j \in 1..n : i < j => s[i] < s[j]
<1>1. IsFiniteSet(Commits) /\ S \subseteq Int
  BY FS_Interval, BoundsAssumption DEF Commits
<1>2. IsFiniteSet(S) /\ Cardinality(S) \in Nat
  BY <1>1, FS_Subset, FS_CardinalityType
<1>3. PICK n \in Nat : n = Cardinality(S)
  BY <1>2
<1>4. s \in [1..n -> S] /\ \A i, j \in 1..n : i < j => s[i] < s[j]
  BY <1>3 DEF Ascending
<1>5. IsFiniteSet(1..n) /\ Cardinality(1..n) = n
  BY FS_Interval
<1>6. ASSUME NEW i \in 1..n, NEW j \in 1..n, s[i] = s[j] PROVE i = j
  <2>1. PICK x \in Int : x = s[i]
    BY <1>1, <1>4
  <2>2. ~(x < x) /\ (i < j => x < x) /\ (j < i => x < x)
    BY <1>4, <1>6, <2>1
  <2>3. QED
    BY <2>2
<1>7. s \in Injection(1..n, S)
  BY <1>4, <1>6 DEF Injection, IsInjective
<1>8. s \in Surjection(1..n, S)
  BY <1>2, <1>3, <1>5, <1>7, FS_Injection
<1>9. QED
  BY <1>3, <1>4, <1>8 DEF Surjection

LEMMA AddedInOrder ==
  ASSUME NEW S \in SUBSET Commits, NEW s \in Ascending(S), NEW q \in Seq(UpFrames)
  PROVE  Added(q, q \o TransactAll(s), S)
<1>1. PICK n \in Nat :
        /\ s \in [1..n -> S]
        /\ \A k \in S : \E i \in 1..n : s[i] = k
        /\ \A i, j \in 1..n : i < j => s[i] < s[j]
  BY AscendingOnto
<1>2. PICK t \in Seq(UpFrames) : t = TransactAll(s)
  BY TransactAllType
<1>3. t = [i \in 1..n |-> TransactFrame(s[i])]
  BY <1>1, <1>2 DEF TransactAll
<1>4. Len(t) = n
  <2>1. DOMAIN t = 1..n
    BY <1>3
  <2>2. QED
    BY <2>1, LenProperties
<1>5. \A i \in 1..n : t[i].type = "transact" /\ t[i].commit = s[i]
  BY <1>3 DEF TransactFrame
<1>6. PICK a \in Nat : a = Len(q)
  BY LenProperties
<1>7. PICK r \in Seq(UpFrames) : r = q \o t
  BY ConcatProperties
<1>8. Len(r) = a + n /\ \A i \in 1..(a + n) : r[i] = IF i <= a THEN q[i] ELSE t[i - a]
  BY <1>4, <1>6, <1>7, ConcatProperties
<1>9. DOMAIN r = 1..(a + n) /\ a + n \in Nat /\ a + n >= a
  BY <1>8, LenProperties
<1>10. \A i \in 1..n : r[a + i].type = "transact" /\ r[a + i].commit = s[i]
  <2>1. \A i \in 1..n : a + i \in 1..(a + n) /\ ~(a + i <= a) /\ (a + i) - a = i
    OBVIOUS
  <2>2. QED
    BY <1>5, <1>8, <2>1
<1>11. \A i \in 1..a : r[i] = q[i]
  BY <1>8
<1>12. ASSUME NEW i \in (a + 1)..(a + n)
       PROVE  /\ r[i].type = "transact" /\ r[i].commit \in S
              /\ \A k \in S : k < r[i].commit =>
                   \E j \in (a + 1)..(i - 1) : r[j].commit = k
  <2>1. PICK h \in 1..n : i = a + h
    BY <1>12
  <2>2. r[i].type = "transact" /\ r[i].commit = s[h] /\ s[h] \in S
    BY <1>1, <1>10, <2>1
  <2>3. ASSUME NEW k \in S, k < s[h]
        PROVE  \E j \in (a + 1)..(i - 1) : r[j].commit = k
    <3>1. PICK m \in 1..n : s[m] = k
      BY <1>1
    <3>2. S \subseteq Int
      BY BoundsAssumption DEF Commits
    <3>3. PICK y \in Int : y = s[h] /\ k < y /\ k \in Int
      BY <2>2, <2>3, <3>2
    <3>4. (h < m => y < k) /\ (h = m => y = k)
      BY <1>1, <3>1, <3>3
    <3>5. m < h
      BY <3>3, <3>4
    <3>6. a + m \in (a + 1)..(i - 1) /\ r[a + m].commit = k
      BY <1>10, <2>1, <3>1, <3>5
    <3>7. QED
      BY <3>6
  <2>4. QED
    BY <2>2, <2>3
<1>13. ASSUME NEW k \in S PROVE \E i \in (a + 1)..(a + n) : r[i].commit = k
  <2>1. PICK m \in 1..n : s[m] = k
    BY <1>1
  <2>2. a + m \in (a + 1)..(a + n)
    OBVIOUS
  <2>3. QED
    BY <1>10, <2>1, <2>2
<1>14. Added(q, r, S)
  BY <1>6, <1>8, <1>9, <1>11, <1>12, <1>13 DEF Added
<1>15. QED
  BY <1>2, <1>7, <1>14

LEMMA SendsOf ==
  ASSUME Typed, conn \in Conns, NEW S \in SUBSET Commits, NEW s \in Ascending(S),
         up' = [up EXCEPT ![conn] = up[conn] \o TransactAll(s)]
  PROVE  Sends(S)
<1>1. up[conn] \in Seq(UpFrames) /\ DOMAIN up = Conns
  BY UpShape DEF Typed, Frames
<1>2. Added(up[conn], up[conn] \o TransactAll(s), S)
  BY <1>1, AddedInOrder
<1>3. QED
  BY <1>1, <1>2 DEF Sends

(* What the client sends in each of its steps.                              *)
LEMMA TransactSends ==
  ASSUME Typed, Transact
  PROVE  /\ submitted' = submitted + 1 /\ submitted + 1 \in Commits
         /\ IF phase = "ready" /\ conn \in Conns THEN Sends({submitted + 1}) ELSE up' = up
<1>1. PICK m \in Commits : m = submitted + 1
  BY BoundsAssumption DEF Transact, Typed, ClientTypes, Commits
<1>2. CASE phase = "ready" /\ conn \in Conns
  <2>1. PICK q \in Seq(UpFrames) : q = up[conn] /\ up' = [up EXCEPT ![conn] = Append(q, TransactFrame(m))]
    BY <1>1, <1>2, UpShape DEF Transact
  <2>2. PICK f \in UpFrames : f = TransactFrame(m) /\ f.type = "transact" /\ f.commit = m
    BY FrameTypes DEF TransactFrame
  <2>3. PICK r \in Seq(UpFrames) : r = Append(q, f)
    BY AppendProperties
  <2>4. PICK a \in Nat : a = Len(q)
    BY LenProperties
  <2>5. Len(r) = a + 1 /\ (\A i \in 1..a : r[i] = q[i]) /\ r[a + 1] = f
    BY <2>3, <2>4, AppendProperties
  <2>6. DOMAIN r = 1..(a + 1)
    BY <2>5, LenProperties
  <2>7. m \in Int
    BY BoundsAssumption DEF Commits
  <2>8. \A i \in (a + 1)..(a + 1) : i = a + 1
    OBVIOUS
  <2>9. Added(q, r, {m})
    BY <2>2, <2>4, <2>5, <2>6, <2>7, <2>8 DEF Added
  <2>10. up'[conn] = r /\ \A d \in Conns : d # conn => up'[d] = up[d]
    BY <1>2, <2>1, <2>2, <2>3 DEF Typed, Frames
  <2>11. Sends({m})
    BY <2>1, <2>9, <2>10 DEF Sends
  <2>12. QED
    BY <1>1, <1>2, <2>11 DEF Transact
<1>3. CASE ~(phase = "ready" /\ conn \in Conns)
  BY <1>1, <1>3 DEF Transact, Typed, Frames
<1>4. QED
  BY <1>2, <1>3

LEMMA NothingSent ==
  ASSUME NEW s \in Ascending({}), NEW q \in Seq(UpFrames) PROVE q \o TransactAll(s) = q
<1>1. PICK t \in Seq(UpFrames) : t = TransactAll(s)
  BY TransactAllType
<1>2. DOMAIN t = {}
  <2>1. PICK n \in Nat : s \in [1..n -> {}]
    BY AscendingOnto
  <2>2. 1..n = {}
    BY <2>1
  <2>3. QED
    BY <1>1, <2>1, <2>2 DEF TransactAll
<1>3. t = <<>>
  BY <1>2, LenProperties, EmptySeq
<1>4. QED
  BY <1>1, <1>3, ConcatEmptySeq

LEMMA OpenedSends ==
  ASSUME Typed, ReceiveOpened PROVE Sends(outstanding)
<1>1. conn \in Conns /\ outstanding \in SUBSET Commits
  BY ReceivedShape, BoundsAssumption DEF ReceiveOpened, Typed, ClientTypes, Commits
<1>2. PICK s \in Ascending(outstanding) :
        Settle(outstanding, outstanding, submitted, TransactAll(s))
  BY DEF ReceiveOpened
<1>3. PICK z \in Ascending({}) :
        up' = [up EXCEPT ![conn] = up[conn] \o TransactAll(s) \o TransactAll(z)]
  <2>1. (IF outstanding = {} THEN {l \in outstanding : l > submitted} ELSE {}) = {}
    OBVIOUS
  <2>2. QED
    BY <1>2, <2>1 DEF Settle
<1>4. up[conn] \o TransactAll(s) \in Seq(UpFrames)
  BY <1>1, TransactAllType, UpShape, ConcatProperties
<1>5. up' = [up EXCEPT ![conn] = up[conn] \o TransactAll(s)]
  BY <1>3, <1>4, NothingSent
<1>6. QED
  BY <1>1, <1>5, SendsOf

LEMMA VerdictSends ==
  ASSUME Typed, ReceiveVerdict, phase = "restoring", NEW l, l = Head(down[conn]).commit
  PROVE  Sends(IF replaying \ {l} = {} THEN {k \in outstanding \ {l} : k > through} ELSE {})
<1>1. conn \in Conns /\ outstanding \in SUBSET Commits
  BY ReceivedShape, BoundsAssumption DEF ReceiveVerdict, Typed, ClientTypes, Commits
<1>2. PICK s \in Ascending(IF replaying \ {l} = {} THEN {k \in outstanding \ {l} : k > through} ELSE {}) :
        up' = [up EXCEPT ![conn] = up[conn] \o <<>> \o TransactAll(s)]
  BY DEF ReceiveVerdict, Settle
<1>3. up[conn] \o <<>> = up[conn]
  BY <1>1, UpShape, ConcatEmptySeq
<1>4. QED
  BY <1>1, <1>2, <1>3, SendsOf

(* The client adds no open, and keeps those that are there.                 *)
LEMMA AddedKeeps ==
  ASSUME Typed, NEW c \in Conns, NEW r, NEW S, Added(up[c], r, S)
  PROVE  /\ ~Has(up[c], "open") => ~Has(r, "open")
         /\ S = {} => Len(r) = Len(up[c])
<1>1. DOMAIN up[c] = 1..Len(up[c]) /\ Len(up[c]) \in Nat
  BY UpShape
<1>2. ASSUME ~Has(up[c], "open"), NEW i \in DOMAIN r PROVE r[i].type # "open"
  <2>1. i \in 1..Len(r) /\ Len(r) \in Nat
    BY DEF Added
  <2>2. CASE i <= Len(up[c])
    <3>1. i \in DOMAIN up[c] /\ r[i] = up[c][i]
      BY <1>1, <2>1, <2>2 DEF Added
    <3>2. QED
      BY <1>2, <3>1 DEF Has
  <2>3. CASE ~(i <= Len(up[c]))
    <3>1. i \in (Len(up[c]) + 1)..Len(r)
      BY <1>1, <2>1, <2>3
    <3>2. QED
      BY <3>1 DEF Added
  <2>4. QED
    BY <2>2, <2>3
<1>3. ASSUME S = {} PROVE Len(r) = Len(up[c])
  <2>1. \A i \in (Len(up[c]) + 1)..Len(r) : FALSE
    BY <1>3 DEF Added
  <2>2. Len(r) \in Nat /\ Len(r) >= Len(up[c])
    BY DEF Added
  <2>3. QED
    BY <1>1, <2>1, <2>2
<1>4. QED
  BY <1>2, <1>3 DEF Has

-----------------------------------------------------------------------------
(* Who has the session, one step at a time.                                 *)
LEMMA ConnOf == ASSUME Typed, conn # 0 PROVE conn \in Conns /\ conn <= made
BY BoundsAssumption DEF Typed, ClientTypes, Conns

\* The client's frames go to a connection that is past its opening.
LEMMA HoldSends ==
  ASSUME Typed, HoldInv, conn \in Conns, NEW S, Sends(S),
         ~Has(up[conn], "open"), work[conn].at # "opening", UNCHANGED <<serverVars, made>>,
         \A c \in Conns : c # conn => down'[c] = down[c]
  PROVE  HoldInv'
<1>1. conn <= made
  BY ConnOf, BoundsAssumption DEF Conns
<1>2. \A c \in Conns : c > made => c # conn
  BY <1>1, BoundsAssumption DEF Conns, Typed, ClientTypes
<1>3. \A c \in Conns : c # conn => up'[c] = up[c]
  BY DEF Sends
<1>4. ~Has(up'[conn], "open")
  BY AddedKeeps DEF Sends
<1>5. Owns' /\ Expires' /\ Captured'
  BY DEF HoldInv, Owns, Expires, Captured, Holding, serverVars
<1>6. Fresh'
  BY <1>2, <1>3 DEF HoldInv, Fresh, serverVars
<1>7. OpenAlone'
  BY <1>3, <1>4 DEF HoldInv, OpenAlone, serverVars, Has
<1>8. QED
  BY <1>5, <1>6, <1>7 DEF HoldInv

\* A step that leaves the server and what it is sent alone.
LEMMA HoldUntouched ==
  ASSUME Typed, HoldInv, UNCHANGED <<up, serverVars, made>>,
         \A c \in Conns : c > made => down'[c] = down[c]
  PROVE  HoldInv'
BY DEF HoldInv, Owns, Expires, Captured, Fresh, OpenAlone, Holding, Has, serverVars

\* A new connection brings its open.
LEMMA HoldMade ==
  ASSUME Typed, HoldInv, made < MaxConns, made' = made + 1, NEW t,
         up' = [up EXCEPT ![made + 1] = <<OpenFrame(t)>>],
         alive' = [alive EXCEPT ![made + 1] = TRUE],
         UNCHANGED <<down, handle, work, session>>
  PROVE  HoldInv'
<1>1. made + 1 \in Conns /\ made + 1 > made
  BY BoundsAssumption DEF Typed, ClientTypes, Conns
<1>2. /\ up'[made + 1] = <<OpenFrame(t)>> /\ alive'[made + 1] = TRUE
      /\ \A c \in Conns : c # made + 1 => up'[c] = up[c] /\ alive'[c] = alive[c]
  BY <1>1 DEF Typed, ServerTypes
<1>3. ~handle[made + 1] /\ work[made + 1] = Idle
  BY <1>1 DEF HoldInv, Fresh
<1>4. \A c \in Conns : Holding(c)' => Holding(c)
  BY <1>2, <1>3 DEF Holding
<1>5. Owns' /\ Expires' /\ Captured'
  BY <1>4 DEF HoldInv, Owns, Expires, Captured
<1>6. \A c \in Conns : c > made' => c > made /\ c # made + 1
  BY BoundsAssumption DEF Conns, Typed, ClientTypes
<1>7. Fresh'
  BY <1>2, <1>6 DEF HoldInv, Fresh
<1>8. Len(up'[made + 1]) = 1 /\ work[made + 1].at # "opening"
  BY <1>2, <1>3 DEF Idle
<1>9. OpenAlone'
  BY <1>2, <1>8 DEF HoldInv, OpenAlone, Has
<1>10. QED
  BY <1>5, <1>7, <1>9 DEF HoldInv

\* What is lost with a connection is lost at the end.
LEMMA LostShape ==
  ASSUME Typed, Lose
  PROVE  /\ conn \in Conns /\ \A d \in Conns : d # conn => up'[d] = up[d]
         /\ \E n \in 0..Len(up[conn]) :
              Len(up'[conn]) = n /\ DOMAIN up'[conn] = 1..n
              /\ \A i \in 1..n : up'[conn][i] = up[conn][i]
<1>1. conn \in Conns
  BY ConnOf DEF Lose
<1>2. PICK n \in 0..Len(up[conn]) : up' = [up EXCEPT ![conn] = SubSeq(up[conn], 1, n)]
  BY DEF Lose
<1>3. PICK q \in Seq(UpFrames) : q = up[conn]
  BY <1>1, UpShape
<1>4. Len(q) \in Nat /\ n \in 0..Len(q) /\ \A i \in 1..n : q[i] \in UpFrames
  BY <1>2, <1>3, LenProperties, ElementOfSeq
<1>10. 1 \in Int /\ n \in Int
  BY <1>4
<1>11. SubSeq(q, 1, n) \in Seq(UpFrames)
  BY <1>4, <1>10, SubSeqProperties
<1>5. PICK r \in Seq(UpFrames) : r = SubSeq(q, 1, n)
  BY <1>11
<1>6. Len(r) = n /\ \A i \in 1..n : r[i] = q[i]
  <2>1. Len(r) = (IF 1 <= n THEN n - 1 + 1 ELSE 0) /\ \A i \in 1..(n - 1 + 1) : r[i] = q[1 + i - 1]
    BY <1>4, <1>5, SubSeqProperties
  <2>2. QED
    BY <1>4, <2>1
<1>7. DOMAIN r = 1..n
  BY <1>6, LenProperties
<1>8. up'[conn] = r /\ \A d \in Conns : d # conn => up'[d] = up[d]
  BY <1>1, <1>2, <1>3, <1>5 DEF Typed, Frames
<1>9. QED
  BY <1>1, <1>2, <1>3, <1>6, <1>7, <1>8

LEMMA HoldLose == ASSUME Typed, HoldInv, Lose PROVE HoldInv'
<1>1. PICK n \in 0..Len(up[conn]) :
        /\ conn \in Conns /\ \A d \in Conns : d # conn => up'[d] = up[d]
        /\ Len(up'[conn]) = n /\ DOMAIN up'[conn] = 1..n
        /\ \A i \in 1..n : up'[conn][i] = up[conn][i]
  BY LostShape
<1>2. Len(up[conn]) \in Nat /\ DOMAIN up[conn] = 1..Len(up[conn])
  BY <1>1, UpShape
<1>3. Owns' /\ Expires' /\ Captured'
  BY DEF HoldInv, Owns, Expires, Captured, Holding, serverVars, Lose
<1>4. Fresh'
  <2>1. conn <= made
    BY ConnOf DEF Lose
  <2>2. \A c \in Conns : c > made => c # conn
    BY <2>1, BoundsAssumption DEF Conns, Typed, ClientTypes
  <2>3. \A c \in Conns : c # conn => down'[c] = down[c]
    BY DEF Lose, Typed, Frames
  <2>4. QED
    BY <1>1, <2>2, <2>3 DEF HoldInv, Fresh, serverVars, Lose
<1>5. Has(up'[conn], "open") => Len(up'[conn]) = 1
  <2>1. ASSUME Has(up'[conn], "open") PROVE Len(up'[conn]) = 1
    <3>1. PICK i \in 1..n : up[conn][i].type = "open"
      BY <1>1, <2>1 DEF Has
    <3>2. Len(up[conn]) = 1
      BY <1>1, <1>2, <3>1 DEF HoldInv, OpenAlone, Has
    <3>3. QED
      BY <1>1, <3>1, <3>2
  <2>2. QED
    BY <2>1
<1>6. work[conn].at = "opening" => up'[conn] = <<>>
  <2>1. ASSUME work[conn].at = "opening" PROVE up'[conn] = <<>>
    <3>1. up[conn] = <<>>
      BY <1>1, <2>1 DEF HoldInv, OpenAlone
    <3>2. up'[conn] \in Seq(UpFrames) /\ Len(up'[conn]) = 0
      BY <1>1, <3>1, LoseTyped, UpShape DEF Typed, Frames
    <3>3. QED
      BY <3>2, EmptySeq
  <2>2. QED
    BY <2>1
<1>7. OpenAlone'
  BY <1>1, <1>5, <1>6 DEF HoldInv, OpenAlone, Lose, serverVars
<1>8. QED
  BY <1>3, <1>4, <1>7 DEF HoldInv

LEMMA HoldClient == ASSUME Typed, HoldInv, Opened1, Client PROVE HoldInv'
<1>1. conn # 0 /\ Restored => conn \in Conns /\ ~Has(up[conn], "open") /\ work[conn].at # "opening"
  BY ConnOf DEF Opened1, Established
<1>2. ASSUME NEW type, Received(type)
      PROVE  \A c \in Conns : c > made => down'[c] = down[c]
  <2>1. conn \in Conns /\ conn <= made /\ \A d \in Conns : d # conn => down'[d] = down[d]
    BY <1>2, ReceivedShape, ConnOf
  <2>2. QED
    BY <2>1, BoundsAssumption DEF Conns, Typed, ClientTypes
<1>3. CASE Transact
  <2>1. CASE phase = "ready" /\ conn \in Conns
    <3>1. conn # 0 /\ Restored
      BY <2>1, BoundsAssumption DEF Conns, Restored
    <3>2. Sends({submitted + 1}) /\ UNCHANGED <<serverVars, made, down>>
      BY <1>3, <2>1, TransactSends DEF Transact
    <3>3. QED
      BY <1>1, <3>1, <3>2, HoldSends
  <2>2. CASE ~(phase = "ready" /\ conn \in Conns)
    <3>1. UNCHANGED <<up, serverVars, made, down>>
      BY <1>3, <2>2, TransactSends DEF Transact
    <3>2. QED
      BY <3>1, HoldUntouched
  <2>3. QED
    BY <2>1, <2>2
<1>4. CASE Connect
  BY <1>4, HoldMade DEF Connect
<1>5. CASE RivalConnects
  BY <1>5, HoldMade DEF RivalConnects
<1>6. CASE Lose
  BY <1>6, HoldLose
<1>7. CASE ReceiveOpened
  <2>1. Received("opened") /\ UNCHANGED <<serverVars, made>>
    BY <1>7 DEF ReceiveOpened
  <2>2. /\ conn \in Conns /\ conn # 0 /\ Has(down[conn], "opened")
        /\ \A d \in Conns : d # conn => down'[d] = down[d]
    <3>1. Len(down[conn]) > 0 /\ down[conn][1].type = "opened" /\ conn \in Conns /\ conn # 0
          /\ \A d \in Conns : d # conn => down'[d] = down[d]
      BY <2>1, ReceivedShape
    <3>2. 1 \in DOMAIN down[conn]
      BY <3>1, DownShape
    <3>3. QED
      BY <3>1, <3>2 DEF Has
  <2>3. ~Has(up[conn], "open") /\ work[conn].at # "opening"
    BY <2>2 DEF Opened1, Established
  <2>4. Sends(outstanding)
    BY <1>7, OpenedSends
  <2>5. QED
    BY <2>1, <2>2, <2>3, <2>4, HoldSends
<1>8. CASE ReceiveRevoked
  BY <1>2, <1>8, HoldUntouched DEF ReceiveRevoked
<1>9. CASE ReceiveEffect
  BY <1>2, <1>9, HoldUntouched DEF ReceiveEffect
<1>10. CASE ReceiveVerdict
  <2>1. Received("verdict") /\ UNCHANGED <<serverVars, made>>
    BY <1>10 DEF ReceiveVerdict
  <2>2. CASE phase = "restoring"
    <3>1. PICK l : l = Head(down[conn]).commit
      OBVIOUS
    <3>2. \E S : Sends(S)
      BY <1>10, <2>2, <3>1, VerdictSends
    <3>3. conn # 0 /\ Restored /\ \A d \in Conns : d # conn => down'[d] = down[d]
      BY <2>1, <2>2, ReceivedShape DEF Restored
    <3>4. QED
      BY <1>1, <2>1, <3>2, <3>3, HoldSends
  <2>3. CASE phase # "restoring"
    <3>1. UNCHANGED up
      BY <1>10, <2>3 DEF ReceiveVerdict
    <3>2. QED
      BY <1>2, <2>1, <3>1, HoldUntouched
  <2>4. QED
    BY <2>2, <2>3
<1>11. QED
  BY <1>3, <1>4, <1>5, <1>6, <1>7, <1>8, <1>9, <1>10 DEF Client

\* Nothing is sent to a connection that was not made.
LEMMA SentFresh ==
  ASSUME Typed, NEW c \in Conns, NEW f, down' = Sent(c, <<f>>)
  PROVE  \A d \in Conns : d > made => down'[d] = down[d]
<1>1. Reaches(c) => c <= made
  BY BoundsAssumption DEF Reaches, Typed, ClientTypes, Conns
<1>2. \A d \in Conns : d > made => ~(d = c /\ Reaches(c))
  BY <1>1, BoundsAssumption DEF Conns, Typed, ClientTypes
<1>3. QED
  BY <1>2 DEF Sent, Typed, Frames

\* The rest of a connection's frames holds no open but the first.
LEMMA TakenAlone ==
  ASSUME Typed, OpenAlone, Fresh, NEW type, NEW c \in Conns, NextFrame(c, type)
  PROVE  /\ c <= made /\ \A d \in Conns : d # c => up'[d] = up[d]
         /\ ~Has(up'[c], "open") /\ (type = "open" => up'[c] = <<>>)
<1>1. /\ alive[c] /\ Len(up[c]) > 0 /\ up[c][1].type = type
      /\ DOMAIN up'[c] = 1..(Len(up[c]) - 1) /\ Len(up'[c]) = Len(up[c]) - 1
      /\ \A i \in 1..(Len(up[c]) - 1) : up'[c][i] = up[c][i + 1]
      /\ \A d \in Conns : d # c => up'[d] = up[d]
  BY TakenShape
<1>2. Len(up[c]) \in Nat /\ DOMAIN up[c] = 1..Len(up[c])
  BY UpShape
<1>3. c <= made
  BY <1>1 DEF Typed, ServerTypes
<1>4. ~Has(up'[c], "open")
  <2>1. ASSUME NEW i \in DOMAIN up'[c], up'[c][i].type = "open" PROVE FALSE
    <3>1. i + 1 \in DOMAIN up[c] /\ up[c][i + 1].type = "open" /\ i \in 1..(Len(up[c]) - 1)
      BY <1>1, <1>2, <2>1
    <3>2. Len(up[c]) = 1
      BY <3>1 DEF OpenAlone, Has
    <3>3. QED
      BY <3>1, <3>2
  <2>2. QED
    BY <2>1 DEF Has
<1>5. ASSUME type = "open" PROVE up'[c] = <<>>
  <2>1. 1 \in DOMAIN up[c]
    BY <1>1, <1>2
  <2>2. Len(up[c]) = 1
    BY <1>1, <1>5, <2>1 DEF OpenAlone, Has
  <2>3. up'[c] \in Seq(UpFrames) /\ Len(up'[c]) = 0
    BY <1>1, <2>2, NextFrameType
  <2>4. QED
    BY <2>3, EmptySeq
<1>6. QED
  BY <1>1, <1>3, <1>4, <1>5

LEMMA HoldOpenSession ==
  ASSUME Typed, HoldInv, NEW c \in Conns, OpenSession(c) PROVE HoldInv'
<1>1. /\ c <= made /\ alive[c] /\ work[c] = Idle /\ \A d \in Conns : d # c => up'[d] = up[d]
      /\ ~Has(up'[c], "open") /\ up'[c] = <<>> /\ UNCHANGED <<made, alive>>
  BY TakenAlone, TakenShape DEF OpenSession, HoldInv
<1>2. \A d \in Conns : d > made => d # c
  BY <1>1, BoundsAssumption DEF Conns, Typed, ClientTypes
<1>3. CASE Exists /\ Head(up[c]).token # session.token
  <2>1. UNCHANGED <<session, handle, work>> /\ down' = Sent(c, <<Revoked>>)
    BY <1>3 DEF OpenSession
  <2>2. Owns' /\ Expires' /\ Captured'
    BY <1>1, <2>1 DEF HoldInv, Owns, Expires, Captured, Holding
  <2>3. Fresh'
    BY <1>1, <1>2, <2>1, SentFresh DEF HoldInv, Fresh
  <2>4. OpenAlone'
    BY <1>1, <2>1 DEF HoldInv, OpenAlone
  <2>5. QED
    BY <2>2, <2>3, <2>4 DEF HoldInv
<1>4. CASE ~(Exists /\ Head(up[c]).token # session.token)
  <2> DEFINE old == session.owner
  <2>1. /\ session' = [session EXCEPT !.token = c, !.owner = c, !.expiring = FALSE]
        /\ work' = [work EXCEPT ![c] = [at |-> "opening", commit |-> 0, token |-> c,
                                        resumed |-> Exists, marker |-> session.marker]]
        /\ handle' = IF old \notin {0, c} THEN [handle EXCEPT ![old] = FALSE] ELSE handle
        /\ down' = down \/ (old \notin {0, c} /\ down' = Sent(old, <<Revoked>>))
    BY <1>4 DEF OpenSession
  <2>2. session'.token = c /\ session'.owner = c /\ session'.expiring = FALSE
    BY <2>1 DEF Typed, Frames, Sessions
  <2>3. work'[c].at = "opening" /\ \A d \in Conns : d # c => work'[d] = work[d]
    BY <2>1 DEF Typed, Frames
  <2>4. ASSUME NEW d \in Conns, Holding(d)' PROVE d = c
    <3>1. Holding(d) /\ (old \notin {0, c} => d # old)
      BY <1>1, <2>1, <2>4 DEF Holding, Typed, ServerTypes
    <3>2. old = d
      BY <3>1 DEF HoldInv, Owns
    <3>3. d # 0
      BY BoundsAssumption DEF Conns
    <3>4. QED
      BY <3>1, <3>2, <3>3
  <2>5. Owns' /\ Expires' /\ Captured'
    BY <2>2, <2>3, <2>4 DEF Owns, Expires, Captured
  <2>6. Fresh'
    <3>1. \A d \in Conns : d > made => ~handle'[d]
      BY <2>1 DEF HoldInv, Fresh, Typed, ServerTypes
    <3>2. \A d \in Conns : d > made => down'[d] = down[d]
      <4>1. old \notin {0, c} => old \in Conns
        BY BoundsAssumption DEF Typed, Frames, Sessions, Conns
      <4>2. QED
        BY <2>1, <4>1, SentFresh
    <3>3. QED
      BY <1>1, <1>2, <2>3, <3>1, <3>2 DEF HoldInv, Fresh
  <2>7. OpenAlone'
    BY <1>1, <2>3 DEF HoldInv, OpenAlone
  <2>8. QED
    BY <2>5, <2>6, <2>7 DEF HoldInv
<1>5. QED
  BY <1>3, <1>4

\* With ACLs active, a connection takes its handle only as the owner.
LEMMA HoldFinishOpen ==
  ASSUME AclActive = TRUE, Typed, HoldInv, NEW c \in Conns, FinishOpen(c) PROVE HoldInv'
<1>1. /\ work[c].at = "opening" /\ work' = [work EXCEPT ![c] = Idle]
      /\ UNCHANGED <<made, up, alive>>
      /\ session'.owner = session.owner /\ session'.token = session.token
      /\ session'.expiring = session.expiring
      /\ \E f : down' = Sent(c, <<f>>)
      /\ \/ handle' = handle
         \/ /\ handle' = [handle EXCEPT ![c] = TRUE]
            /\ session.token = c /\ session.owner = c
  <2>1. /\ session'.owner = session.owner /\ session'.token = session.token
        /\ session'.expiring = session.expiring
    BY DEF FinishOpen, Typed, Frames, Sessions
  <2>2. /\ work[c].at = "opening" /\ work' = [work EXCEPT ![c] = Idle]
        /\ UNCHANGED <<made, up, alive>>
    BY DEF FinishOpen
  <2>3. \/ handle' = handle /\ \E f : down' = Sent(c, <<f>>)
        \/ /\ handle' = [handle EXCEPT ![c] = TRUE] /\ \E f : down' = Sent(c, <<f>>)
           /\ session.token = c /\ session.owner = c
    BY DEF FinishOpen
  <2>4. QED
    BY <2>1, <2>2, <2>3
<1>2. work'[c] = Idle /\ \A d \in Conns : d # c => work'[d] = work[d]
  BY <1>1 DEF Typed, Frames
<1>3. \A d \in Conns : Holding(d)' => Holding(d) \/ (d = c /\ session.token = c /\ session.owner = c)
  BY <1>1 DEF Holding, Typed, ServerTypes
<1>4. Owns' /\ Expires'
  BY <1>1, <1>3 DEF HoldInv, Owns, Expires
<1>5. Captured'
  <2>1. ASSUME NEW d \in Conns, work'[d].at = "deciding", Holding(d)' PROVE work'[d].token = d
    <3>1. d # c
      BY <1>2, <2>1 DEF Idle
    <3>2. QED
      BY <1>2, <1>3, <2>1, <3>1 DEF HoldInv, Captured
  <2>2. QED
    BY <2>1 DEF Captured
<1>6. c <= made
  <2>1. ~(c > made)
    BY <1>1 DEF HoldInv, Fresh, Idle
  <2>2. QED
    BY <2>1, BoundsAssumption DEF Conns, Typed, ClientTypes
<1>7. Fresh'
  <2>1. \A d \in Conns : d > made => d # c
    BY <1>6, BoundsAssumption DEF Conns, Typed, ClientTypes
  <2>2. \A d \in Conns : d > made => handle'[d] = handle[d] /\ work'[d] = work[d]
    BY <1>1, <1>2, <2>1 DEF Typed, ServerTypes
  <2>3. \A d \in Conns : d > made => down'[d] = down[d]
    BY <1>1, SentFresh
  <2>4. QED
    BY <1>1, <2>2, <2>3 DEF HoldInv, Fresh
<1>8. OpenAlone'
  BY <1>1, <1>2 DEF HoldInv, OpenAlone, Idle
<1>9. QED
  BY <1>4, <1>5, <1>7, <1>8 DEF HoldInv

LEMMA HoldTakeTransact ==
  ASSUME Typed, HoldInv, NEW c \in Conns, TakeTransact(c) PROVE HoldInv'
<1>1. /\ c <= made /\ work[c] = Idle /\ \A d \in Conns : d # c => up'[d] = up[d]
      /\ ~Has(up'[c], "open") /\ UNCHANGED <<made, alive, handle, session>>
  BY TakenAlone, TakenShape DEF TakeTransact, HoldInv
<1>2. \A d \in Conns : d > made => d # c
  BY <1>1, BoundsAssumption DEF Conns, Typed, ClientTypes
<1>3. /\ \A d \in Conns : d # c => work'[d] = work[d]
      /\ work'[c].at \in {"idle", "queued"}
  BY <1>1 DEF TakeTransact, Typed, Frames, Idle, Queued
<1>4. \A d \in Conns : d > made => down'[d] = down[d]
  BY SentFresh DEF TakeTransact
<1>5. Owns' /\ Expires' /\ Captured'
  BY <1>1, <1>3 DEF HoldInv, Owns, Expires, Captured, Holding
<1>6. Fresh'
  BY <1>1, <1>2, <1>3, <1>4 DEF HoldInv, Fresh
<1>7. OpenAlone'
  BY <1>1, <1>3 DEF HoldInv, OpenAlone
<1>8. QED
  BY <1>5, <1>6, <1>7 DEF HoldInv

\* A step on the commit a connection is handling.
LEMMA HoldWork ==
  ASSUME Typed, HoldInv, NEW c \in Conns, Carrying(c), UNCHANGED <<made, up, alive, handle>>,
         session'.owner = session.owner, session'.token = session.token,
         session'.expiring = session.expiring,
         \A d \in Conns : d # c => work'[d] = work[d],
         work'[c].at = "idle" \/ (work'[c].at = "deciding" /\ work'[c].token = session.token),
         down' = down \/ \E f : down' = Sent(c, <<f>>)
  PROVE  HoldInv'
<1>1. Owns' /\ Expires'
  BY DEF HoldInv, Owns, Expires, Holding
<1>2. Captured'
  BY DEF HoldInv, Owns, Captured, Holding
<1>3. \A d \in Conns : d > made => d # c
  BY DEF HoldInv, Fresh, Idle, Carrying
<1>4. Fresh'
  BY <1>3, SentFresh DEF HoldInv, Fresh
<1>5. OpenAlone'
  BY DEF HoldInv, OpenAlone
<1>6. QED
  BY <1>1, <1>2, <1>4, <1>5 DEF HoldInv

LEMMA HoldServer ==
  ASSUME AclActive = TRUE, Typed, HoldInv, NEW c \in Conns,
         BeginDecide(c) \/ Decide(c) \/ Refresh(c) \/ Disconnect(c)
  PROVE  HoldInv'
<1>1. CASE BeginDecide(c)
  <2>1. Carrying(c) /\ UNCHANGED <<made, up, alive, handle, session>>
    BY <1>1 DEF BeginDecide, Carrying
  <2>2. /\ \A d \in Conns : d # c => work'[d] = work[d]
        /\ work'[c].at = "idle" \/ (work'[c].at = "deciding" /\ work'[c].token = session.token)
        /\ down' = down \/ \E f : down' = Sent(c, <<f>>)
    <3>1. CASE Exists
      BY <1>1, <3>1 DEF BeginDecide, Typed, Frames, Works
    <3>2. CASE ~Exists
      <4>1. work' = [work EXCEPT ![c] = Idle]
        BY <1>1, <3>2 DEF BeginDecide
      <4>2. \E f : down' = Sent(c, <<f>>)
        BY <1>1, <3>2 DEF BeginDecide
      <4>3. work'[c].at = "idle" /\ \A d \in Conns : d # c => work'[d] = work[d]
        BY <4>1 DEF Typed, Frames, Idle
      <4>4. QED
        BY <4>2, <4>3
    <3>3. QED
      BY <3>1, <3>2
  <2>3. QED
    BY <2>1, <2>2, HoldWork
<1>2. CASE Decide(c)
  <2>1. /\ Carrying(c) /\ UNCHANGED <<made, up, alive, handle>>
        /\ work' = [work EXCEPT ![c] = Idle]
        /\ \E f : down' = Sent(c, <<f>>)
        /\ session' = session \/ \E n : session' = [session EXCEPT !.owed = n]
    <3>1. Carrying(c) /\ UNCHANGED <<made, up, alive, handle>> /\ work' = [work EXCEPT ![c] = Idle]
      BY <1>2 DEF Decide, Carrying
    <3>2. /\ \E f : down' = Sent(c, <<f>>)
          /\ session' = session \/ \E n : session' = [session EXCEPT !.owed = n]
      BY <1>2 DEF Decide
    <3>3. QED
      BY <3>1, <3>2
  <2>2. /\ session'.owner = session.owner /\ session'.token = session.token
        /\ session'.expiring = session.expiring
    BY <2>1 DEF Typed, Frames, Sessions
  <2>3. work'[c].at = "idle" /\ \A d \in Conns : d # c => work'[d] = work[d]
    BY <2>1 DEF Typed, Frames, Idle
  <2>4. QED
    BY <2>1, <2>2, <2>3, HoldWork
<1>3. CASE Refresh(c)
  <2>1. /\ UNCHANGED <<made, up, alive, handle, work>> /\ \E f : down' = Sent(c, <<f>>)
        /\ session'.owner = session.owner /\ session'.token = session.token
        /\ session'.expiring = session.expiring
    BY <1>3 DEF Refresh, Typed, Frames, Sessions
  <2>2. \A d \in Conns : d > made => down'[d] = down[d]
    BY <2>1, SentFresh
  <2>3. QED
    BY <2>1, <2>2 DEF HoldInv, Owns, Expires, Captured, Fresh, OpenAlone, Holding
<1>4. CASE Disconnect(c)
  <2>1. /\ c <= made /\ alive' = [alive EXCEPT ![c] = FALSE] /\ up' = [up EXCEPT ![c] = <<>>]
        /\ UNCHANGED <<made, down, handle, work>>
        /\ \/ session' = session
           \/ /\ session' = [session EXCEPT !.owner = 0, !.expiring = TRUE]
              /\ session.owner = c
    BY <1>4 DEF Disconnect
  <2>2. /\ up'[c] = <<>> /\ \A d \in Conns : d # c => up'[d] = up[d]
        /\ \A d \in Conns : Holding(d)' => Holding(d) /\ d # c
        /\ \A d \in Conns : d > made => alive'[d] = alive[d]
    <3>1. up'[c] = <<>> /\ \A d \in Conns : d # c => up'[d] = up[d]
      BY <2>1 DEF Typed, Frames
    <3>2. ~alive'[c] /\ \A d \in Conns : d # c => alive'[d] = alive[d]
      BY <2>1 DEF Typed, ServerTypes
    <3>3. \A d \in Conns : d > made => d # c
      BY <2>1, BoundsAssumption DEF Conns, Typed, ClientTypes
    <3>4. \A d \in Conns : Holding(d)' => Holding(d) /\ d # c
      BY <2>1, <3>2 DEF Holding
    <3>5. QED
      BY <3>1, <3>2, <3>3, <3>4
  <2>3. Owns' /\ Expires' /\ Captured'
    <3>1. CASE session' = session
      BY <2>1, <2>2, <3>1 DEF HoldInv, Owns, Expires, Captured
    <3>2. CASE session.owner = c /\ session' = [session EXCEPT !.owner = 0, !.expiring = TRUE]
      <4>1. \A d \in Conns : ~Holding(d)'
        BY <2>2, <3>2 DEF HoldInv, Owns
      <4>2. session'.owner = 0
        BY <3>2 DEF Typed, Frames, Sessions
      <4>3. QED
        BY <4>1, <4>2 DEF Owns, Expires, Captured
    <3>3. QED
      BY <2>1, <3>1, <3>2
  <2>4. Fresh'
    <3>1. \A d \in Conns : d > made => d # c
      BY <2>1, BoundsAssumption DEF Conns, Typed, ClientTypes
    <3>2. QED
      BY <2>1, <2>2, <3>1 DEF HoldInv, Fresh
  <2>5. OpenAlone'
    BY <2>1, <2>2 DEF HoldInv, OpenAlone, Has
  <2>6. QED
    BY <2>3, <2>4, <2>5 DEF HoldInv
<1>5. QED
  BY <1>1, <1>2, <1>3, <1>4

LEMMA HoldStep ==
  ASSUME AclActive = TRUE, Typed, HoldInv, Opened1, [Next]_vars PROVE HoldInv'
<1>1. CASE Expire
  <2>1. session.expiring /\ session' = Absent /\ UNCHANGED <<made, up, down, alive, handle, work>>
    BY <1>1 DEF Expire
  <2>2. \A c \in Conns : ~Holding(c)
    BY <2>1, BoundsAssumption DEF HoldInv, Owns, Expires, Conns
  <2>3. QED
    BY <2>1, <2>2 DEF HoldInv, Owns, Expires, Captured, Fresh, OpenAlone, Holding, Absent
<1>2. CASE Crash
  <2>1. /\ session' = Absent /\ UNCHANGED <<made, down>>
        /\ \A c \in Conns : ~alive'[c] /\ ~handle'[c] /\ work'[c] = Idle /\ up'[c] = <<>>
    BY <1>2 DEF Crash
  <2>2. QED
    BY <2>1 DEF HoldInv, Owns, Expires, Captured, Fresh, OpenAlone, Holding, Absent, Idle, Has
<1>3. CASE (\E l \in Commits : Overwrite(l)) \/ UNCHANGED vars
  BY <1>3, HoldUntouched DEF Overwrite, vars, clientVars
<1>4. QED
  BY <1>1, <1>2, <1>3, HoldClient, HoldOpenSession, HoldFinishOpen, HoldTakeTransact, HoldServer
  DEF Next, Server
-----------------------------------------------------------------------------
(* What the client has been told, one step at a time.                       *)

\* What is left of a connection's frames once the first is received.
LEMMA Rest ==
  ASSUME Typed, NEW type, Received(type)
  PROVE  /\ \A t : Has(down'[conn], t) => Has(down[conn], t)
         /\ \A t : t # type /\ Has(down[conn], t) => Has(down'[conn], t)
         /\ type # "revoked" /\ Warns(down[conn]) => Warns(down'[conn])
<1>1. /\ Len(down[conn]) > 0 /\ down[conn][1].type = type
      /\ DOMAIN down'[conn] = 1..(Len(down[conn]) - 1)
      /\ \A i \in 1..(Len(down[conn]) - 1) : down'[conn][i] = down[conn][i + 1]
      /\ Len(down[conn]) \in Nat /\ DOMAIN down[conn] = 1..Len(down[conn])
  BY ReceivedShape, DownShape
<1>2. \A i \in DOMAIN down'[conn] : i \in Int /\ i + 1 \in DOMAIN down[conn] /\ down'[conn][i] = down[conn][i + 1]
  BY <1>1
<1>3. \A i \in DOMAIN down[conn] : i = 1 \/ (i - 1 \in DOMAIN down'[conn] /\ down'[conn][i - 1] = down[conn][i])
  <2>1. \A i \in DOMAIN down[conn] : i = 1 \/ (i - 1 \in DOMAIN down'[conn] /\ (i - 1) + 1 = i)
    BY <1>1
  <2>2. QED
    BY <1>2, <2>1
<1>4. ASSUME NEW t, Has(down'[conn], t) PROVE Has(down[conn], t)
  BY <1>2, <1>4 DEF Has
<1>5. ASSUME NEW t, t # type, Has(down[conn], t) PROVE Has(down'[conn], t)
  BY <1>1, <1>3, <1>5 DEF Has
<1>6. ASSUME type # "revoked", Warns(down[conn]), NEW i \in DOMAIN down'[conn], Refuses(down'[conn][i])
      PROVE  \E j \in 1..(i - 1) : down'[conn][j].type = "revoked"
  <2>1. i + 1 \in DOMAIN down[conn] /\ Refuses(down[conn][i + 1])
    BY <1>2, <1>6
  <2>2. i \in Int /\ i >= 1 /\ i <= Len(down[conn]) - 1
    BY <1>1, <1>6
  <2>3. PICK j \in 1..i : down[conn][j].type = "revoked"
    <3>1. (i + 1) - 1 = i
      BY <2>2
    <3>2. QED
      BY <1>6, <2>1, <3>1 DEF Warns
  <2>4. j # 1 /\ j \in DOMAIN down[conn]
    BY <1>1, <1>6, <2>2, <2>3
  <2>5. j - 1 \in 1..(i - 1)
    BY <2>2, <2>3, <2>4
  <2>6. QED
    BY <1>3, <2>3, <2>4, <2>5
<1>7. QED
  BY <1>4, <1>5, <1>6 DEF Warns

\* A refusal may be sent where the revocation was.
LEMMA SentLinks ==
  ASSUME Typed, conn # 0, NEW c \in Conns, NEW f \in DownFrames, down' = Sent(c, <<f>>)
  PROVE  /\ \A t : Has(down[conn], t) => Has(down'[conn], t)
         /\ \A t : Has(down'[conn], t) => Has(down[conn], t) \/ (Reaches(c) /\ f.type = t)
         /\ Reaches(c) => Has(down'[conn], f.type)
         /\ /\ Warns(down[conn])
            /\ Refuses(f) /\ Reaches(c) => Has(down[conn], "revoked")
            => Warns(down'[conn])
<1>1. conn \in Conns
  BY ConnOf
<1>2. PICK n \in Nat : n = Len(down[conn]) /\ DOMAIN down[conn] = 1..n
  BY <1>1, DownShape
<1>3. CASE ~Reaches(c)
  BY <1>3, SentShape
<1>4. CASE Reaches(c)
  <2>1. DOMAIN down'[conn] = 1..(n + 1) /\ down'[conn][n + 1] = f
        /\ \A i \in 1..n : down'[conn][i] = down[conn][i]
    BY <1>2, <1>4, SentShape DEF Arrives
  <2>2. \A i \in 1..(n + 1) : i \in 1..n \/ i = n + 1
    BY <1>2
  <2>3. \A i \in 1..n : i \in 1..(n + 1)
    BY <1>2
  <2>4. n + 1 \in 1..(n + 1)
    BY <1>2
  <2>5. \A t : Has(down[conn], t) => Has(down'[conn], t)
    BY <1>2, <2>1, <2>3 DEF Has
  <2>6. \A t : Has(down'[conn], t) => Has(down[conn], t) \/ f.type = t
    BY <1>2, <2>1, <2>2 DEF Has
  <2>7. Has(down'[conn], f.type)
    BY <2>1, <2>4 DEF Has
  <2>8. ASSUME Warns(down[conn]), Refuses(f) => Has(down[conn], "revoked") PROVE Warns(down'[conn])
    <3>1. ASSUME NEW i \in DOMAIN down'[conn], Refuses(down'[conn][i])
          PROVE  \E j \in 1..(i - 1) : down'[conn][j].type = "revoked"
      <4>1. CASE i \in 1..n
        <5>1. PICK j \in 1..(i - 1) : down[conn][j].type = "revoked"
          BY <1>2, <2>1, <2>8, <3>1, <4>1 DEF Warns
        <5>2. j \in 1..n
          BY <1>2, <4>1, <5>1
        <5>3. QED
          BY <2>1, <5>1, <5>2
      <4>2. CASE i = n + 1
        <5>1. PICK j \in 1..n : down[conn][j].type = "revoked"
          BY <1>2, <2>1, <2>8, <3>1, <4>2 DEF Has
        <5>2. j \in 1..(i - 1)
          BY <1>2, <4>2, <5>1
        <5>3. QED
          BY <2>1, <5>1, <5>2
      <4>3. QED
        BY <2>1, <2>2, <3>1, <4>1, <4>2
    <3>2. QED
      BY <3>1 DEF Warns
  <2>9. QED
    BY <1>4, <2>5, <2>6, <2>7, <2>8
<1>5. QED
  BY <1>3, <1>4

\* A step of the server that does not open the session for the client.
LEMMA LinkServer ==
  ASSUME Typed, LinkInv, UNCHANGED clientVars,
         conn # 0 =>
           /\ Has(down'[conn], "opened") => Has(down[conn], "opened")
           /\ Has(down[conn], "opened") => Has(down'[conn], "opened")
           /\ Has(down[conn], "revoked") => Has(down'[conn], "revoked")
           /\ phase # "closed" => Warns(down'[conn])
           /\ work'[conn].at = "opening" => work[conn].at = "opening" \/ ~Established
           /\ Has(up'[conn], "open") => Has(up[conn], "open")
           /\ Has(up'[conn], "transact") => Has(up[conn], "transact")
           /\ Carrying(conn)' => Carrying(conn) \/ Has(up[conn], "transact")
           /\ alive'[conn] /\ ~handle'[conn] =>
                alive[conn] /\ (~handle[conn] \/ Has(down'[conn], "revoked"))
  PROVE  LinkInv'
<1>1. conn' = conn /\ phase' = phase /\ told' = told
  BY DEF clientVars
<1>2. (Established' => Established) /\ (Established => Established')
  BY <1>1 DEF Established, Restored
<1>3. NoSessionError'
  BY <1>1 DEF LinkInv, NoSessionError
<1>4. Opened1' /\ Begun'
  BY <1>1, <1>2 DEF LinkInv, Opened1, Begun, Carrying, Established
<1>5. Told' /\ Warned'
  BY <1>1, <1>2 DEF LinkInv, Told, Warned, Established
<1>6. QED
  BY <1>3, <1>4, <1>5 DEF LinkInv

\* The frames of a connection once one has been taken.
LEMMA TakenHas ==
  ASSUME Typed, NEW type, NEW c \in Conns, NextFrame(c, type)
  PROVE  /\ Has(up[c], type) /\ \A d \in Conns : \A t : Has(up'[d], t) => Has(up[d], t)
<1>1. /\ Len(up[c]) > 0 /\ up[c][1].type = type /\ DOMAIN up'[c] = 1..(Len(up[c]) - 1)
      /\ \A i \in 1..(Len(up[c]) - 1) : up'[c][i] = up[c][i + 1]
      /\ \A d \in Conns : d # c => up'[d] = up[d]
      /\ Len(up[c]) \in Nat /\ DOMAIN up[c] = 1..Len(up[c])
  BY TakenShape, UpShape
<1>2. 1 \in DOMAIN up[c] /\ \A i \in DOMAIN up'[c] : i + 1 \in DOMAIN up[c] /\ up'[c][i] = up[c][i + 1]
  BY <1>1
<1>3. \A t : Has(up'[c], t) => Has(up[c], t)
  BY <1>2 DEF Has
<1>4. QED
  BY <1>1, <1>2, <1>3 DEF Has

\* A refusal is sent only to who does not have the session.
LEMMA RefusedWarned ==
  ASSUME Typed, LinkInv, NEW c \in Conns, ~handle[c],
         Carrying(c) \/ Has(up[c], "transact"), Reaches(c), phase # "closed"
  PROVE  Has(down[c], "revoked")
<1>1. c = conn /\ alive[c] /\ conn # 0
  BY BoundsAssumption DEF Reaches, Conns
<1>2. Established
  BY <1>1 DEF LinkInv, Begun
<1>3. QED
  BY <1>1, <1>2 DEF LinkInv, Told

LEMMA LinkOpenSession ==
  ASSUME Typed, HoldInv, LinkInv, NEW c \in Conns, OpenSession(c) PROVE LinkInv'
<1> DEFINE old == session.owner
<1>1. /\ Has(up[c], "open") /\ \A d \in Conns : \A t : Has(up'[d], t) => Has(up[d], t)
      /\ UNCHANGED <<clientVars, made, alive>>
  BY TakenHas DEF OpenSession
<1>2. conn # 0 => conn \in Conns /\ (conn = c => ~Established)
  BY <1>1, ConnOf DEF LinkInv, Opened1
<1>3. CASE Exists /\ Head(up[c]).token # session.token
  <2>1. UNCHANGED <<session, handle, work>> /\ down' = Sent(c, <<Revoked>>)
    BY <1>3 DEF OpenSession
  <2>2. Revoked \in DownFrames /\ ~Refuses(Revoked) /\ Revoked.type = "revoked"
    BY FrameTypes DEF Revoked, Refuses
  <2>3. conn # 0 => /\ Has(down'[conn], "opened") => Has(down[conn], "opened")
                    /\ Has(down[conn], "opened") => Has(down'[conn], "opened")
                    /\ Has(down[conn], "revoked") => Has(down'[conn], "revoked")
                    /\ phase # "closed" => Warns(down'[conn])
    BY <2>1, <2>2, SentLinks DEF LinkInv, Warned
  <2>4. QED
    BY <1>1, <1>2, <2>1, <2>3, LinkServer DEF Carrying, clientVars
<1>4. CASE ~(Exists /\ Head(up[c]).token # session.token)
  <2>1. /\ work' = [work EXCEPT ![c] = [at |-> "opening", commit |-> 0, token |-> c,
                                        resumed |-> Exists, marker |-> session.marker]]
        /\ handle' = IF old \notin {0, c} THEN [handle EXCEPT ![old] = FALSE] ELSE handle
        /\ down' = IF old \notin {0, c} /\ handle[old] THEN Sent(old, <<Revoked>>) ELSE down
    BY <1>4 DEF OpenSession
  <2>2. old \in Conns \/ old = 0
    BY BoundsAssumption DEF Typed, Frames, Sessions, Conns
  <2>3. Revoked \in DownFrames /\ ~Refuses(Revoked) /\ Revoked.type = "revoked"
    BY FrameTypes DEF Revoked, Refuses
  <2>4. conn # 0 => /\ Has(down'[conn], "opened") => Has(down[conn], "opened")
                    /\ Has(down[conn], "opened") => Has(down'[conn], "opened")
                    /\ Has(down[conn], "revoked") => Has(down'[conn], "revoked")
                    /\ phase # "closed" => Warns(down'[conn])
    BY <2>1, <2>2, <2>3, SentLinks DEF LinkInv, Warned
  <2>5. ASSUME conn # 0, alive'[conn], ~handle'[conn]
        PROVE  alive[conn] /\ (~handle[conn] \/ Has(down'[conn], "revoked"))
    <3>1. alive[conn]
      BY <1>1, <2>5
    <3>2. CASE handle[conn]
      <4>1. old \notin {0, c} /\ conn = old
        BY <1>2, <2>1, <2>5, <3>2 DEF Typed, ServerTypes
      <4>2. down' = Sent(old, <<Revoked>>) /\ Reaches(old) /\ old \in Conns
        BY <2>1, <2>2, <3>1, <3>2, <4>1 DEF Reaches
      <4>3. Has(down'[conn], "revoked")
        BY <2>3, <2>5, <4>2, SentLinks
      <4>4. QED
        BY <3>1, <4>3
    <3>3. QED
      BY <3>1, <3>2
  <2>6. ASSUME conn # 0
        PROVE  /\ work'[conn].at = "opening" => work[conn].at = "opening" \/ ~Established
               /\ Carrying(conn)' => Carrying(conn) \/ Has(up[conn], "transact")
    <3>1. work'[c].at = "opening" /\ (conn # c => work'[conn] = work[conn])
      BY <1>2, <2>1, <2>6 DEF Typed, Frames
    <3>2. QED
      BY <1>1, <1>2, <2>6, <3>1 DEF Carrying, clientVars
  <2>7. QED
    BY <1>1, <1>2, <2>4, <2>5, <2>6, LinkServer
<1>5. QED
  BY <1>3, <1>4

LEMMA LinkFinishOpen ==
  ASSUME Typed, HoldInv, LinkInv, NEW c \in Conns, FinishOpen(c) PROVE LinkInv'
<1>1. /\ work[c].at = "opening" /\ work' = [work EXCEPT ![c] = Idle]
      /\ UNCHANGED <<clientVars, made, up, alive>>
  BY DEF FinishOpen
<1>2. work'[c] = Idle /\ \A d \in Conns : d # c => work'[d] = work[d]
  BY <1>1 DEF Typed, Frames
<1>3. PICK f \in DownFrames :
        /\ down' = Sent(c, <<f>>) /\ ~Refuses(f)
        /\ \/ f.type = "revoked" /\ handle' = handle
           \/ f.type = "opened" /\ handle' = [handle EXCEPT ![c] = TRUE]
  <2>1. CASE AclActive /\ ~(session.token = c /\ session.owner = c)
    <3>1. down' = Sent(c, <<Revoked>>) /\ handle' = handle
      BY <2>1 DEF FinishOpen
    <3>2. Revoked \in DownFrames /\ Revoked.type = "revoked"
      BY FrameTypes DEF Revoked
    <3>3. QED
      BY <3>1, <3>2 DEF Refuses
  <2>2. CASE ~(AclActive /\ ~(session.token = c /\ session.owner = c))
    <3>1. PICK m : down' = Sent(c, <<Opened(c, work[c].resumed, m)>>)
                   /\ m = IF work[c].resumed /\ session.token = c
                          THEN Higher(session.marker, session.owed) ELSE work[c].marker
      BY <2>2 DEF FinishOpen
    <3>2. handle' = [handle EXCEPT ![c] = TRUE]
      BY <2>2 DEF FinishOpen
    <3>3. m \in 0..MaxCommits /\ work[c].resumed \in BOOLEAN
      BY <3>1 DEF Typed, Frames, Works, Sessions, Higher
    <3>4. PICK f : f = Opened(c, work[c].resumed, m)
      OBVIOUS
    <3>5. f \in DownFrames /\ f.type = "opened"
      <4>1. f \in DownFrames
        BY <3>3, <3>4, FrameTypes
      <4>2. QED
        BY <3>4, <4>1 DEF Opened
    <3>6. QED
      BY <3>1, <3>2, <3>4, <3>5 DEF Refuses
  <2>3. QED
    BY <2>1, <2>2
<1>4. CASE conn # c
  <2>1. ~Reaches(c) /\ down' = down
    BY <1>3, <1>4 DEF Reaches, Sent
  <2>2. conn # 0 => conn \in Conns /\ handle'[conn] = handle[conn] /\ work'[conn] = work[conn]
    BY <1>2, <1>3, <1>4, ConnOf DEF Typed, ServerTypes
  <2>3. QED
    BY <1>1, <2>1, <2>2, LinkServer DEF Carrying, LinkInv, Warned, clientVars
<1>5. CASE conn = c
  <2>1. conn # 0 /\ ~Established /\ up'[conn] = <<>>
    BY <1>1, <1>5, BoundsAssumption DEF LinkInv, Opened1, HoldInv, OpenAlone, Conns
  <2>2. ~Has(up'[conn], "open") /\ ~Has(up'[conn], "transact")
    <3>1. DOMAIN (<<>>) = {}
      OBVIOUS
    <3>2. QED
      BY <2>1, <3>1 DEF Has
  <2>3. conn' = conn /\ phase' = phase /\ told' = told
    BY <1>1 DEF clientVars
  <2>4. Opened1' /\ Begun'
    BY <1>2, <1>5, <2>2, <2>3 DEF Opened1, Begun, Carrying, Idle
  <2>5. phase # "closed" => Warns(down'[conn])
    BY <1>3, <2>1, SentLinks DEF LinkInv, Warned
  <2>6. Warned' /\ NoSessionError'
    BY <2>3, <2>5 DEF LinkInv, Warned, NoSessionError
  <2>7. Told'
    <3>1. CASE f.type = "revoked"
      <4>1. ~Established'
        BY <1>3, <2>1, <2>3, <3>1, SentLinks DEF Established, Restored
      <4>2. QED
        BY <4>1 DEF Told
    <3>2. CASE f.type = "opened"
      BY <1>3, <1>5, <2>3, <3>2 DEF Told, Typed, ServerTypes
    <3>3. QED
      BY <1>3, <3>1, <3>2
  <2>8. QED
    BY <2>4, <2>6, <2>7 DEF LinkInv
<1>6. QED
  BY <1>4, <1>5

\* A connection handles a frame or goes on with one, and may answer it.
LEMMA LinkWork ==
  ASSUME Typed, LinkInv, UNCHANGED <<clientVars, handle>>, NEW c \in Conns,
         down' = down \/ \E f \in DownFrames :
           /\ down' = Sent(c, <<f>>) /\ f.type # "opened"
           /\ Refuses(f) /\ Reaches(c) /\ phase # "closed" => Has(down[c], "revoked"),
         \A d \in Conns : /\ alive'[d] => alive[d]
                          /\ \A t : Has(up'[d], t) => Has(up[d], t)
                          /\ d # c => work'[d] = work[d],
         work'[c].at # "opening" \/ work'[c] = work[c],
         work'[c].at \in {"queued", "deciding"} => Carrying(c) \/ Has(up[c], "transact")
  PROVE  LinkInv'
<1>1. conn' = conn /\ (conn # 0 => conn \in Conns)
  BY ConnOf DEF clientVars
<1>2. ASSUME conn # 0
      PROVE  /\ Has(down'[conn], "opened") => Has(down[conn], "opened")
             /\ Has(down[conn], "opened") => Has(down'[conn], "opened")
             /\ Has(down[conn], "revoked") => Has(down'[conn], "revoked")
             /\ phase # "closed" => Warns(down'[conn])
  <2>1. CASE down' = down
    BY <1>2, <2>1 DEF LinkInv, Warned
  <2>2. ASSUME NEW f \in DownFrames, down' = Sent(c, <<f>>), f.type # "opened",
               Refuses(f) /\ Reaches(c) /\ phase # "closed" => Has(down[c], "revoked")
        PROVE  /\ Has(down'[conn], "opened") => Has(down[conn], "opened")
               /\ Has(down[conn], "opened") => Has(down'[conn], "opened")
               /\ Has(down[conn], "revoked") => Has(down'[conn], "revoked")
               /\ phase # "closed" => Warns(down'[conn])
    <3>1. Reaches(c) => c = conn
      BY DEF Reaches
    <3>2. phase # "closed" => Warns(down[conn])
      BY <1>2 DEF LinkInv, Warned
    <3>3. QED
      BY <1>2, <2>2, <3>1, <3>2, SentLinks
  <2>3. QED
    BY <2>1, <2>2
<1>3. ASSUME conn # 0
      PROVE  /\ work'[conn].at = "opening" => work[conn].at = "opening" \/ ~Established
             /\ Carrying(conn)' => Carrying(conn) \/ Has(up[conn], "transact")
             /\ alive'[conn] /\ ~handle'[conn] => alive[conn] /\ ~handle[conn]
  BY <1>1, <1>3 DEF Carrying
<1>4. QED
  BY <1>1, <1>2, <1>3, LinkServer

LEMMA LinkTakeTransact ==
  ASSUME Typed, LinkInv, NEW c \in Conns, TakeTransact(c) PROVE LinkInv'
<1>1. /\ Has(up[c], "transact") /\ work[c] = Idle
      /\ \A d \in Conns : \A t : Has(up'[d], t) => Has(up[d], t)
      /\ Head(up[c]) \in UpFrames /\ Head(up[c]).type = "transact"
      /\ UNCHANGED <<clientVars, alive, handle>>
  BY TakenHas, TakenShape, NextFrameType DEF TakeTransact
<1>2. PICK l \in Commits : l = Head(up[c]).commit
  BY <1>1 DEF UpFrames
<1>3. CASE handle[c]
  <2>1. down' = down /\ work' = [work EXCEPT ![c] = Queued(l)]
    BY <1>2, <1>3 DEF TakeTransact
  <2>2. work'[c].at = "queued" /\ \A d \in Conns : d # c => work'[d] = work[d]
    BY <2>1 DEF Typed, Frames, Queued
  <2>3. QED
    BY <1>1, <2>1, <2>2, LinkWork
<1>4. CASE ~handle[c]
  <2>1. down' = Sent(c, <<Verdict(l, "error")>>) /\ work' = work
    BY <1>2, <1>4 DEF TakeTransact
  <2>2. PICK f \in DownFrames : f = Verdict(l, "error")
    BY FrameTypes
  <2>3. f.type # "opened"
    BY <2>2 DEF Verdict
  <2>4. Reaches(c) /\ phase # "closed" => Has(down[c], "revoked")
    BY <1>1, <1>4, RefusedWarned
  <2>5. work'[c].at = "idle"
    BY <1>1, <2>1 DEF Idle
  <2>6. QED
    BY <1>1, <2>1, <2>2, <2>3, <2>4, <2>5, LinkWork
<1>5. QED
  BY <1>3, <1>4

LEMMA LinkDecides ==
  ASSUME Typed, HoldInv, LinkInv, NEW c \in Conns, BeginDecide(c) \/ Decide(c) PROVE LinkInv'
<1>1. /\ Carrying(c) /\ UNCHANGED <<clientVars, up, alive, handle>>
      /\ work[c].commit \in Commits
  BY DEF BeginDecide, Decide, Carrying, Typed, Frames, Works
<1>2. PICK l \in Commits : l = work[c].commit
  BY <1>1
<1>3. alive[c] /\ handle[c] => session.owner = c /\ session.token = c
  BY DEF HoldInv, Owns, Holding
<1>4. ASSUME NEW v \in {"accepted", "conflict", "error"}, down' = Sent(c, <<Verdict(l, v)>>),
             v = "error" => ~(alive[c] /\ handle[c]), work' = [work EXCEPT ![c] = Idle]
      PROVE  LinkInv'
  <2>1. PICK f \in DownFrames : f = Verdict(l, v)
    BY FrameTypes
  <2>2. f.type # "opened" /\ f.verdict = v
    BY <2>1 DEF Verdict
  <2>3. Refuses(f) /\ Reaches(c) /\ phase # "closed" => Has(down[c], "revoked")
    BY <1>1, <1>4, <2>2, RefusedWarned DEF Refuses, Reaches
  <2>4. work'[c].at = "idle" /\ \A d \in Conns : d # c => work'[d] = work[d]
    BY <1>4 DEF Typed, Frames, Idle
  <2>5. QED
    BY <1>1, <1>4, <2>1, <2>2, <2>3, <2>4, LinkWork
<1>5. CASE BeginDecide(c)
  <2>1. CASE Exists
    <3>1. down' = down /\ work' = [work EXCEPT ![c].at = "deciding", ![c].token = session.token]
      BY <1>5, <2>1 DEF BeginDecide
    <3>2. work'[c].at = "deciding" /\ \A d \in Conns : d # c => work'[d] = work[d]
      BY <3>1 DEF Typed, Frames, Works
    <3>3. QED
      BY <1>1, <3>1, <3>2, LinkWork
  <2>2. CASE ~Exists
    <3>1. down' = Sent(c, <<Verdict(l, "error")>>) /\ work' = [work EXCEPT ![c] = Idle]
      BY <1>2, <1>5, <2>2 DEF BeginDecide
    <3>2. ~(alive[c] /\ handle[c])
      BY <1>3, <2>2, BoundsAssumption DEF Exists, Absent, Conns
    <3>3. QED
      BY <1>4, <3>1, <3>2
  <2>3. QED
    BY <2>1, <2>2
<1>6. CASE Decide(c)
  <2>1. work' = [work EXCEPT ![c] = Idle] /\ work[c].at = "deciding"
    BY <1>6 DEF Decide
  <2>2. CASE session.token # work[c].token
    <3>1. down' = Sent(c, <<Verdict(l, "error")>>)
      BY <1>2, <1>6, <2>2 DEF Decide
    <3>2. ~(alive[c] /\ handle[c])
      BY <1>3, <2>1, <2>2 DEF HoldInv, Captured, Holding
    <3>3. QED
      BY <1>4, <2>1, <3>1, <3>2
  <2>3. CASE session.token = work[c].token
    <3>1. PICK v \in {"accepted", "conflict"} : v = Outcome(l)
      BY OutcomeType
    <3>2. down' = Sent(c, <<Verdict(l, v)>>)
      BY <1>2, <1>6, <2>3, <3>1 DEF Decide
    <3>3. QED
      BY <1>4, <2>1, <3>1, <3>2
  <2>4. QED
    BY <2>2, <2>3
<1>7. QED
  BY <1>5, <1>6

LEMMA LinkRest ==
  ASSUME Typed, LinkInv, NEW c \in Conns, Refresh(c) \/ Disconnect(c) PROVE LinkInv'
<1>1. CASE Refresh(c)
  <2>1. UNCHANGED <<clientVars, up, alive, handle, work>>
    BY <1>1 DEF Refresh
  <2>2. session.owed \in 0..MaxCommits
    BY DEF Typed, Frames, Sessions
  <2>3. PICK f \in DownFrames : f = Effect(session.owed)
    BY <2>2, FrameTypes
  <2>4. down' = Sent(c, <<f>>) /\ f.type = "effect"
    BY <1>1, <2>3 DEF Refresh, Effect
  <2>5. work'[c] = work[c] /\ f.type # "opened" /\ ~Refuses(f)
    BY <2>1, <2>4 DEF Refuses
  <2>6. QED
    BY <2>1, <2>4, <2>5, LinkWork DEF Carrying
<1>2. CASE Disconnect(c)
  <2>1. /\ alive' = [alive EXCEPT ![c] = FALSE] /\ up' = [up EXCEPT ![c] = <<>>]
        /\ UNCHANGED <<clientVars, down, handle, work>>
    BY <1>2 DEF Disconnect
  <2>2. \A d \in Conns : alive'[d] => alive[d]
    BY <2>1 DEF Typed, ServerTypes
  <2>3. up'[c] = <<>> /\ \A d \in Conns : d # c => up'[d] = up[d]
    BY <2>1 DEF Typed, Frames
  <2>4. \A d \in Conns : \A t : Has(up'[d], t) => Has(up[d], t)
    BY <2>3 DEF Has
  <2>5. work'[c] = work[c]
    BY <2>1
  <2>6. QED
    BY <2>1, <2>2, <2>4, <2>5, LinkWork DEF Carrying
<1>3. QED
  BY <1>1, <1>2

\* What the client keeps of what it was told, when it adds to its frames.
LEMMA LinkReceived ==
  ASSUME Typed, LinkInv, NEW type, type # "revoked", Received(type),
         UNCHANGED <<conn, serverVars>>,
         \/ type # "opened" /\ UNCHANGED <<phase, up>>
         \/ /\ phase \in {"restoring", "ready"} \/ type = "opened"
            /\ phase' \in {"restoring", "ready"} /\ \E S : Sends(S),
         NoSessionError'
  PROVE  LinkInv'
<1>1. /\ conn \in Conns /\ conn # 0 /\ phase # "closed" /\ Has(down[conn], type)
      /\ \A t : Has(down'[conn], t) => Has(down[conn], t)
      /\ \A t : t # type /\ Has(down[conn], t) => Has(down'[conn], t)
      /\ Warns(down'[conn])
  <2>1. conn \in Conns /\ conn # 0 /\ phase # "closed" /\ Len(down[conn]) > 0 /\ down[conn][1].type = type
    BY ReceivedShape
  <2>2. 1 \in DOMAIN down[conn]
    BY <2>1, DownShape
  <2>3. Has(down[conn], type) /\ Warns(down[conn])
    BY <2>1, <2>2 DEF Has, LinkInv, Warned
  <2>4. QED
    BY <2>1, <2>3, Rest
<1>2. Established' => Established
  BY <1>1 DEF Established, Restored
<1>3. Established => Established'
  BY <1>1 DEF Established, Restored
<1>4. Has(up'[conn], "open") => Has(up[conn], "open")
  <2>1. CASE \E S : Sends(S)
    BY <1>1, <2>1, AddedKeeps DEF Sends
  <2>2. CASE up' = up
    BY <2>2
  <2>3. QED
    BY <2>1, <2>2
<1>5. Opened1'
  BY <1>2, <1>4 DEF LinkInv, Opened1, serverVars
<1>6. Begun'
  <2>1. CASE up' = up
    BY <1>1, <1>3, <2>1 DEF LinkInv, Begun, Carrying, serverVars
  <2>2. CASE phase' \in {"restoring", "ready"}
    BY <1>1, <2>2 DEF Begun, Established, Restored
  <2>3. QED
    BY <2>1, <2>2
<1>7. Told' /\ Warned'
  BY <1>1, <1>2 DEF LinkInv, Told, Warned, serverVars
<1>8. QED
  BY <1>5, <1>6, <1>7 DEF LinkInv

LEMMA LinkVerdict == ASSUME Typed, LinkInv, ReceiveVerdict PROVE LinkInv'
<1>1. Received("verdict") /\ UNCHANGED <<conn, serverVars>>
  BY DEF ReceiveVerdict
<1>2. Head(down[conn]) = down[conn][1] /\ 1 \in DOMAIN down[conn] /\ down[conn][1].type = "verdict"
      /\ phase # "closed" /\ conn # 0
  BY <1>1, ReceivedShape, DownShape
<1>3. down[conn][1].verdict # "error"
  <2>1. Warns(down[conn])
    BY <1>2 DEF LinkInv, Warned
  <2>2. ~Refuses(down[conn][1])
    BY <1>2, <2>1 DEF Warns
  <2>3. QED
    BY <1>2, <2>2 DEF Refuses
<1>4. NoSessionError'
  <2>1. PICK l, v : l = Head(down[conn]).commit /\ v = Head(down[conn]).verdict /\ v # "error"
    BY <1>2, <1>3
  <2>2. told' = told \/ told' = [told EXCEPT ![l] = v]
    BY <2>1 DEF ReceiveVerdict
  <2>3. QED
    BY <2>1, <2>2 DEF LinkInv, NoSessionError, Typed, ClientTypes
<1>5. CASE phase = "restoring"
  <2>1. phase' \in {"restoring", "ready"}
    BY <1>5 DEF ReceiveVerdict, Settle
  <2>2. PICK l : l = Head(down[conn]).commit
    OBVIOUS
  <2>3. \E S : Sends(S)
    BY <1>5, <2>2, VerdictSends
  <2>4. QED
    BY <1>1, <1>4, <1>5, <2>1, <2>3, LinkReceived
<1>6. CASE phase # "restoring"
  <2>1. phase' = phase /\ up' = up
    BY <1>6 DEF ReceiveVerdict
  <2>2. QED
    BY <1>1, <1>4, <2>1, LinkReceived
<1>7. QED
  BY <1>5, <1>6

LEMMA LinkConnect == ASSUME Typed, HoldInv, LinkInv, Connect PROVE LinkInv'
<1>1. made + 1 \in Conns /\ made + 1 > made
  BY BoundsAssumption DEF Typed, ClientTypes, Conns, Connect
<1>2. /\ conn' = made + 1 /\ phase' = "opening" /\ UNCHANGED <<down, work, told>>
      /\ up'[made + 1] = <<OpenFrame(token)>>
  BY <1>1 DEF Connect, Typed, Frames
<1>3. down[made + 1] = <<>> /\ work[made + 1] = Idle
  BY <1>1 DEF HoldInv, Fresh
<1>4. \A i \in DOMAIN down'[made + 1] : FALSE
  <2>1. DOMAIN (<<>>) = {}
    OBVIOUS
  <2>2. QED
    BY <1>2, <1>3, <2>1
<1>5. ~Has(up'[made + 1], "transact")
  BY <1>2 DEF Has, OpenFrame
<1>6. ~Established' /\ Warned'
  BY <1>2, <1>4 DEF Established, Restored, Has, Warned, Warns
<1>7. ~Carrying(conn)'
  BY <1>2, <1>3 DEF Carrying, Idle
<1>8. QED
  BY <1>2, <1>5, <1>6, <1>7 DEF LinkInv, Opened1, Begun, Told, NoSessionError

LEMMA LinkClient == ASSUME Typed, HoldInv, LinkInv, Client PROVE LinkInv'
<1>1. conn # 0 => conn \in Conns
  BY ConnOf
<1>2. CASE Transact
  <2>1. UNCHANGED <<conn, phase, down, work, alive, handle, told>>
    BY <1>2 DEF Transact, serverVars
  <2>2. CASE phase = "ready" /\ conn \in Conns
    <3>1. Sends({submitted + 1})
      BY <1>2, <2>2, TransactSends
    <3>2. ~Has(up[conn], "open") => ~Has(up'[conn], "open")
      BY <2>2, <3>1, AddedKeeps DEF Sends
    <3>3. (Established' /\ Established) \/ conn = 0
      BY <2>1, <2>2 DEF Established, Restored
    <3>4. QED
      BY <2>1, <3>2, <3>3 DEF LinkInv, Opened1, Begun, Told, Warned, NoSessionError, Established
  <2>3. CASE ~(phase = "ready" /\ conn \in Conns)
    <3>1. up' = up
      BY <1>2, <2>3, TransactSends
    <3>2. QED
      BY <2>1, <3>1
      DEF LinkInv, Opened1, Begun, Told, Warned, NoSessionError, Established, Restored, Carrying
  <2>4. QED
    BY <2>2, <2>3
<1>3. CASE Connect
  BY <1>3, LinkConnect
<1>4. CASE Lose
  <2>1. conn' = 0 /\ told' = told
    BY <1>4 DEF Lose
  <2>2. QED
    BY <2>1 DEF LinkInv, Opened1, Begun, Told, Warned, NoSessionError, Established
<1>5. CASE ReceiveOpened
  <2>1. /\ Received("opened") /\ UNCHANGED <<conn, serverVars, told>>
        /\ phase' \in {"restoring", "ready"}
    BY <1>5 DEF ReceiveOpened, Settle
  <2>2. \E S : Sends(S)
    BY <1>5, OpenedSends
  <2>3. NoSessionError'
    BY <2>1 DEF LinkInv, NoSessionError
  <2>4. QED
    BY <2>1, <2>2, <2>3, LinkReceived
<1>6. CASE ReceiveRevoked
  <2>1. Received("revoked") /\ UNCHANGED <<conn, up, serverVars>> /\ phase' = "closed"
        /\ told' = [l \in Commits |-> IF l \in outstanding THEN "revoked" ELSE told[l]]
    BY <1>6 DEF ReceiveRevoked
  <2>2. Established' => Established
    BY <2>1, Rest DEF Established, Restored
  <2>3. NoSessionError'
    BY <2>1 DEF LinkInv, NoSessionError
  <2>4. QED
    BY <2>1, <2>2, <2>3 DEF LinkInv, Opened1, Begun, Told, Warned, serverVars
<1>7. CASE ReceiveVerdict
  BY <1>7, LinkVerdict
<1>8. CASE ReceiveEffect
  <2>1. Received("effect") /\ UNCHANGED <<conn, phase, up, serverVars, told>>
    BY <1>8 DEF ReceiveEffect
  <2>2. NoSessionError'
    BY <2>1 DEF LinkInv, NoSessionError
  <2>3. QED
    BY <2>1, <2>2, LinkReceived
<1>9. CASE RivalConnects
  <2>1. /\ up' = [up EXCEPT ![made + 1] = <<OpenFrame(session.token)>>]
        /\ alive' = [alive EXCEPT ![made + 1] = TRUE]
        /\ UNCHANGED <<conn, phase, told, down, handle, work>>
    BY <1>9 DEF RivalConnects, clientVars
  <2>2. conn # 0 => conn # made + 1
    BY ConnOf, BoundsAssumption DEF Typed, ClientTypes, Conns
  <2>3. conn # 0 => up'[conn] = up[conn] /\ alive'[conn] = alive[conn]
    BY <1>1, <2>1, <2>2 DEF Typed, Frames, ServerTypes
  <2>4. QED
    BY <2>1, <2>3
    DEF LinkInv, Opened1, Begun, Told, Warned, NoSessionError, Established, Restored, Carrying
<1>10. QED
  BY <1>2, <1>3, <1>4, <1>5, <1>6, <1>7, <1>8, <1>9 DEF Client

LEMMA LinkStep == ASSUME Typed, HoldInv, LinkInv, [Next]_vars PROVE LinkInv'
<1>1. CASE Crash
  <2>1. /\ UNCHANGED <<clientVars, down>>
        /\ \A c \in Conns : ~alive'[c] /\ work'[c] = Idle /\ up'[c] = <<>>
    BY <1>1 DEF Crash
  <2>2. conn # 0 => conn \in Conns
    BY ConnOf
  <2>3. conn # 0 => /\ work'[conn].at = "idle" /\ ~alive'[conn]
                    /\ ~Has(up'[conn], "open") /\ ~Has(up'[conn], "transact")
    <3>1. DOMAIN (<<>>) = {}
      OBVIOUS
    <3>2. QED
      BY <2>1, <2>2, <3>1 DEF Idle, Has
  <2>4. QED
    BY <2>1, <2>3 DEF LinkInv, Opened1, Begun, Told, Warned, NoSessionError, Established, Restored,
      Carrying, clientVars
<1>2. CASE Expire \/ (\E l \in Commits : Overwrite(l)) \/ UNCHANGED vars
  <2>1. UNCHANGED <<clientVars, up, down, alive, handle, work>>
    BY <1>2 DEF Expire, Overwrite, vars, serverVars
  <2>2. QED
    BY <2>1 DEF LinkInv, Opened1, Begun, Told, Warned, NoSessionError, Established, Restored,
      Carrying, clientVars
<1>3. QED
  BY <1>1, <1>2, LinkClient, LinkOpenSession, LinkFinishOpen, LinkTakeTransact, LinkDecides, LinkRest
  DEF Next, Server

LEMMA InitHeld == Init => HoldInv /\ LinkInv
<1> SUFFICES ASSUME Init PROVE HoldInv /\ LinkInv
  OBVIOUS
<1>1. \A c \in Conns : /\ up[c] = <<>> /\ down[c] = <<>> /\ work[c] = Idle
                       /\ c # 1 => ~alive[c] /\ ~handle[c]
                       /\ c = 1 => alive[c] /\ handle[c]
  BY DEF Init
<1>2. conn = 1 /\ 1 \in Conns /\ made = 1 /\ phase = "ready"
  BY BoundsAssumption DEF Init, Conns
<1>3. session.token = 1 /\ session.owner = 1 /\ session.expiring = FALSE
  BY DEF Init, Absent
<1>4. DOMAIN (<<>>) = {}
  OBVIOUS
<1>5. \A c \in Conns : c > made => c # 1
  BY <1>2
<1>6. Owns /\ Expires /\ Captured
  BY <1>1, <1>3 DEF Owns, Expires, Captured, Holding, Idle
<1>7. Fresh /\ OpenAlone
  BY <1>1, <1>4, <1>5 DEF Fresh, OpenAlone, Has, Idle
<1>8. Opened1 /\ Begun /\ Told /\ Warned
  BY <1>1, <1>2, <1>4 DEF Opened1, Begun, Told, Warned, Warns, Has, Idle, Carrying
<1>9. NoSessionError
  BY DEF Init, NoSessionError
<1>10. QED
  BY <1>6, <1>7, <1>8, <1>9 DEF HoldInv, LinkInv

(* With ACLs active, no caller is told SessionError: a connection that has  *)
(* lost the session to another has sent its client the revocation before,   *)
(* and one that has it finds it in the registry.                            *)
THEOREM NeverWithoutSession == ASSUME AclActive = TRUE PROVE Spec => []NoSessionError
<1>1. Init => Typed /\ HoldInv /\ LinkInv
  BY InitTyped, InitHeld
<1>2. Typed /\ HoldInv /\ LinkInv /\ [Next]_vars => (Typed /\ HoldInv /\ LinkInv)'
  BY NextTyped, HoldStep, LinkStep DEF LinkInv
<1>3. Typed /\ HoldInv /\ LinkInv => NoSessionError
  BY DEF LinkInv
<1>4. QED
  BY <1>1, <1>2, <1>3, PTL DEF Spec

-----------------------------------------------------------------------------
(* What is on its way to the server, one step at a time.                    *)

\* A connection whose frames stay has its commit carried on or settled.
LEMMA KnownStays ==
  ASSUME NEW c \in Conns, up'[c] = up[c], overwritten \subseteq overwritten',
         Carried(c) \subseteq overwritten' \union Carried(c)'
  PROVE  /\ InOrder(c) => InOrder(c)'
         /\ \A n : AllOf(c, n) => AllOf(c, n)'
<1>1. \A i : Known(c, i) \subseteq Known(c, i)'
  BY DEF Known, Ahead
<1>2. QED
  BY <1>1 DEF InOrder, AllOf

\* A connection that has the session takes a commit in hand.
LEMMA KnownTaken ==
  ASSUME Typed, NEW c \in Conns, TakeTransact(c), handle[c]
  PROVE  /\ InOrder(c) => /\ InOrder(c)'
                          /\ 1..(work'[c].commit - 1) \subseteq overwritten
         /\ \A n : AllOf(c, n) => AllOf(c, n)'
<1>1. /\ work[c] = Idle /\ Len(up[c]) \in Nat /\ Len(up[c]) > 0
      /\ Head(up[c]) = up[c][1] /\ up[c][1].type = "transact"
      /\ Len(up'[c]) = Len(up[c]) - 1 /\ DOMAIN up'[c] = 1..(Len(up[c]) - 1)
      /\ DOMAIN up[c] = 1..Len(up[c])
      /\ \A i \in 1..(Len(up[c]) - 1) : up'[c][i] = up[c][i + 1]
      /\ UNCHANGED overwritten
  <2>1. NextFrame(c, "transact") /\ UNCHANGED overwritten
    BY DEF TakeTransact, engineVars
  <2>2. QED
    BY <2>1, TakenShape, UpShape
<1>2. PICK n \in Nat : n = Len(up[c]) /\ n > 0
  BY <1>1
<1>3. work' = [work EXCEPT ![c] = Queued(up[c][1].commit)]
  BY <1>1 DEF TakeTransact
<1>4. work'[c].at = "queued" /\ work'[c].commit = up[c][1].commit
  BY <1>3 DEF Typed, Frames, Queued
<1>5. Carried(c) = {} /\ Carried(c)' = {up[c][1].commit}
  BY <1>1, <1>4 DEF Carried, Carrying, Idle
<1>6. ASSUME NEW i \in 1..n PROVE Known(c, i + 1) \subseteq Known(c, i)'
  <2>1. ASSUME NEW j \in 1..i, j # 1 PROVE up[c][j].commit \in Ahead(c, i)'
    <3>1. j - 1 \in 1..(n - 1) /\ j - 1 \in 1..(i - 1) /\ (j - 1) + 1 = j
      BY <1>2, <2>1
    <3>2. up'[c][j - 1] = up[c][j]
      BY <1>1, <1>2, <3>1
    <3>3. QED
      BY <3>1, <3>2 DEF Ahead
  <2>2. (i + 1) - 1 = i
    OBVIOUS
  <2>3. QED
    BY <1>1, <1>5, <2>1, <2>2 DEF Known, Ahead
<1>7. ASSUME InOrder(c) PROVE InOrder(c)'
  <2>1. ASSUME NEW i \in DOMAIN up'[c], up'[c][i].type = "transact"
        PROVE  1..(up'[c][i].commit - 1) \subseteq Known(c, i)'
    <3>1. i \in 1..n /\ i + 1 \in DOMAIN up[c] /\ up'[c][i] = up[c][i + 1]
      BY <1>1, <1>2
    <3>2. QED
      BY <1>6, <1>7, <2>1, <3>1 DEF InOrder
  <2>2. QED
    BY <2>1 DEF InOrder
<1>8. ASSUME InOrder(c) PROVE 1..(work'[c].commit - 1) \subseteq overwritten
  <2>1. Known(c, 1) = overwritten
    BY <1>5 DEF Known, Ahead
  <2>2. 1 \in DOMAIN up[c]
    BY <1>1
  <2>3. QED
    BY <1>1, <1>4, <1>8, <2>1, <2>2 DEF InOrder
<1>9. \A m : AllOf(c, m) => AllOf(c, m)'
  <2>1. Known(c, n + 1) \subseteq Known(c, n)'
    BY <1>2, <1>6
  <2>2. Len(up'[c]) + 1 = n
    BY <1>1, <1>2
  <2>3. QED
    BY <1>2, <2>1, <2>2 DEF AllOf
<1>10. QED
  BY <1>7, <1>8, <1>9

\* What is added finds before it what it needs, or is added after it.
LEMMA KnownAdded ==
  ASSUME Typed, NEW c \in Conns, NEW S \in SUBSET Commits, Added(up[c], up'[c], S),
         UNCHANGED <<overwritten, work>>
  PROVE  /\ /\ InOrder(c)
            /\ \A k \in S : 1..(k - 1) \subseteq Known(c, Len(up[c]) + 1) \union S
            => InOrder(c)'
         /\ \A n : 1..n \subseteq Known(c, Len(up[c]) + 1) \union S => AllOf(c, n)'
<1>1. PICK a \in Nat : a = Len(up[c]) /\ DOMAIN up[c] = 1..a
  BY UpShape
<1>2. PICK b \in Nat : b = Len(up'[c]) /\ b >= a /\ DOMAIN up'[c] = 1..b
  BY <1>1 DEF Added
<1>3. \A i \in 1..a : i \in 1..b /\ up'[c][i] = up[c][i]
  BY <1>1, <1>2 DEF Added
<1>4. \A i \in (a + 1)..b :
        /\ up'[c][i].type = "transact" /\ up'[c][i].commit \in S
        /\ \A k \in S : k < up'[c][i].commit => \E j \in (a + 1)..(i - 1) : up'[c][j].commit = k
  BY <1>1, <1>2 DEF Added
<1>5. Carried(c)' = Carried(c)
  BY DEF Carried, Carrying
<1>6. ASSUME NEW i \in 1..(b + 1), NEW j \in 1..(a + 1), j <= i PROVE Known(c, j) \subseteq Known(c, i)'
  <2>1. ASSUME NEW h \in 1..(j - 1) PROVE up[c][h].commit \in Ahead(c, i)'
    <3>1. h \in 1..a /\ h \in 1..(i - 1)
      BY <1>6
    <3>2. QED
      BY <1>3, <3>1 DEF Ahead
  <2>2. QED
    BY <1>5, <2>1 DEF Known, Ahead
<1>7. ASSUME InOrder(c), \A k \in S : 1..(k - 1) \subseteq Known(c, a + 1) \union S,
             NEW i \in 1..b, up'[c][i].type = "transact"
      PROVE  1..(up'[c][i].commit - 1) \subseteq Known(c, i)'
  <2>1. CASE i \in 1..a
    <3>1. 1..(up[c][i].commit - 1) \subseteq Known(c, i)
      BY <1>1, <1>3, <1>7, <2>1 DEF InOrder
    <3>2. Known(c, i) \subseteq Known(c, i)'
      BY <1>2, <1>6, <2>1
    <3>3. QED
      BY <1>3, <2>1, <3>1, <3>2
  <2>2. CASE i \in (a + 1)..b
    <3>1. PICK k \in S : k = up'[c][i].commit
      BY <1>4, <2>2
    <3>2. k \in Int
      BY BoundsAssumption DEF Commits
    <3>3. ASSUME NEW m \in 1..(k - 1) PROVE m \in Known(c, i)'
      <4>1. CASE m \in Known(c, a + 1)
        <5>1. Known(c, a + 1) \subseteq Known(c, i)'
          BY <1>2, <1>6, <2>2
        <5>2. QED
          BY <4>1, <5>1
      <4>2. CASE m \in S
        <5>1. m < k
          BY <3>2, <3>3
        <5>2. PICK j \in (a + 1)..(i - 1) : up'[c][j].commit = m
          BY <1>4, <2>2, <3>1, <4>2, <5>1
        <5>3. j \in 1..(i - 1)
          BY <5>2
        <5>4. QED
          BY <5>2, <5>3 DEF Known, Ahead
      <4>3. QED
        BY <1>7, <3>1, <3>3, <4>1, <4>2
    <3>4. QED
      BY <3>1, <3>3
  <2>3. i \in 1..a \/ i \in (a + 1)..b
    BY <1>7
  <2>4. QED
    BY <2>1, <2>2, <2>3
<1>8. ASSUME NEW n, 1..n \subseteq Known(c, a + 1) \union S PROVE AllOf(c, n)'
  <2>1. Known(c, a + 1) \subseteq Known(c, b + 1)'
    BY <1>2, <1>6
  <2>2. ASSUME NEW k \in S PROVE k \in Known(c, b + 1)'
    <3>1. PICK j \in (a + 1)..b : up'[c][j].commit = k
      BY <1>1, <1>2 DEF Added
    <3>2. j \in 1..((b + 1) - 1)
      BY <3>1
    <3>3. QED
      BY <3>1, <3>2 DEF Known, Ahead
  <2>3. 1..n \subseteq Known(c, b + 1)'
    BY <1>8, <2>1, <2>2
  <2>4. QED
    BY <1>2, <2>3 DEF AllOf
<1>9. QED
  BY <1>1, <1>2, <1>7, <1>8 DEF InOrder

\* Nothing is recorded, and what was overwritten stays so.
LEMMA RecordStays ==
  ASSUME OrderInv, applied' = applied, overwritten \subseteq overwritten'
  PROVE  Recorded' /\ RecordedInLocalOrder'
BY DEF OrderInv, Recorded, RecordedInLocalOrder, Applied

\* The frames of a connection that keeps the session stay where they are.
LEMMA PipeStays ==
  ASSUME Typed, OrderInv, overwritten \subseteq overwritten',
         \A c \in Conns : work'[c].at \in {"queued", "deciding"} =>
           Carrying(c) /\ work'[c].commit = work[c].commit,
         \A c \in Conns : alive'[c] /\ handle'[c] =>
           \/ up'[c] = <<>> /\ (c = conn => ~Restored)
           \/ /\ Holding(c) /\ up'[c] = up[c]
              /\ Carried(c) \subseteq overwritten' \union Carried(c)',
         conn' # 0 /\ Restored' => conn' = conn /\ Restored /\ Due' = Due,
         conn' # 0 => conn' \in Conns
  PROVE  Working' /\ Pipeline' /\ AllSent'
<1>1. Working'
  BY DEF OrderInv, Working, Carrying
<1>2. Pipeline'
  <2>1. ASSUME NEW c \in Conns, Holding(c)' PROVE InOrder(c)'
    <3>1. CASE up'[c] = <<>>
      <4>1. DOMAIN (<<>>) = {}
        OBVIOUS
      <4>2. QED
        BY <3>1, <4>1 DEF InOrder
    <3>2. CASE /\ Holding(c) /\ up'[c] = up[c]
               /\ Carried(c) \subseteq overwritten' \union Carried(c)'
      BY <3>2, KnownStays DEF OrderInv, Pipeline
    <3>3. QED
      BY <2>1, <3>1, <3>2 DEF Holding
  <2>2. QED
    BY <2>1 DEF Pipeline
<1>3. AllSent'
  <2>1. SUFFICES ASSUME conn' # 0, Restored', Holding(conn)' PROVE AllOf(conn, Due)'
    BY DEF AllSent
  <2>2. conn' = conn /\ Restored /\ Due' = Due /\ conn \in Conns /\ conn # 0
    BY <2>1
  <2>3. PICK c \in Conns : c = conn
    BY <2>2
  <2>4. PICK n : n = Due
    OBVIOUS
  <2>5. /\ Holding(c) /\ up'[c] = up[c]
        /\ Carried(c) \subseteq overwritten' \union Carried(c)'
    BY <2>1, <2>2, <2>3 DEF Holding
  <2>6. AllOf(c, n)
    BY <2>2, <2>3, <2>4, <2>5 DEF OrderInv, AllSent
  <2>7. AllOf(c, n)'
    BY <2>5, <2>6, KnownStays
  <2>8. QED
    BY <2>2, <2>3, <2>4, <2>7 DEF AllOf, Known, Ahead, Carried, Carrying
<1>4. QED
  BY <1>1, <1>2, <1>3

\* The caller's view stays, or loses nothing that was not overwritten.
LEMMA AnswersStay ==
  ASSUME OrderInv, UNCHANGED <<phase, submitted, outstanding>>, overwritten \subseteq overwritten'
  PROVE  Answered'
BY DEF OrderInv, Answered

LEMMA OrderOpenSession ==
  ASSUME Typed, HoldInv, LinkInv, OrderInv, NEW c \in Conns, OpenSession(c) PROVE OrderInv'
<1>1. /\ work[c] = Idle /\ Has(up[c], "open") /\ up'[c] = <<>>
      /\ \A d \in Conns : d # c => up'[d] = up[d]
      /\ UNCHANGED <<clientVars, alive, engineVars>>
  <2>1. NextFrame(c, "open") /\ UNCHANGED <<clientVars, alive, engineVars>>
    BY DEF OpenSession
  <2>2. QED
    BY <2>1, TakenHas, TakenAlone, TakenShape DEF HoldInv
<1>2. c = conn => ~Restored
  BY <1>1, BoundsAssumption DEF LinkInv, Opened1, Established, Conns
<1>3. /\ \A d \in Conns : d # c => work'[d] = work[d]
      /\ work'[c].at \in {"idle", "opening"}
  BY <1>1 DEF OpenSession, Typed, Frames, Idle
<1>4. \A d \in Conns : handle'[d] => handle[d]
  BY DEF OpenSession, Typed, ServerTypes
<1>5. ASSUME NEW d \in Conns, d # c PROVE Carried(d)' = Carried(d)
  BY <1>3, <1>5 DEF Carried, Carrying
<1>6. Working' /\ Pipeline' /\ AllSent'
  <2>1. conn' = conn /\ phase' = phase /\ submitted' = submitted /\ through' = through
        /\ overwritten' = overwritten
    BY <1>1 DEF clientVars, engineVars
  <2>2. conn' # 0 => conn' \in Conns
    BY <2>1, ConnOf
  <2>3. \A d \in Conns : work'[d].at \in {"queued", "deciding"} =>
           Carrying(d) /\ work'[d].commit = work[d].commit
    BY <1>3 DEF Carrying
  <2>4. \A d \in Conns : alive'[d] /\ handle'[d] =>
           \/ up'[d] = <<>> /\ (d = conn => ~Restored)
           \/ /\ Holding(d) /\ up'[d] = up[d]
              /\ Carried(d) \subseteq overwritten' \union Carried(d)'
    BY <1>1, <1>2, <1>4, <1>5 DEF Holding
  <2>5. QED
    BY <2>1, <2>2, <2>3, <2>4, PipeStays DEF Restored, Due
<1>7. Answered' /\ Recorded' /\ RecordedInLocalOrder'
  BY <1>1, AnswersStay, RecordStays DEF clientVars, engineVars
<1>8. QED
  BY <1>6, <1>7 DEF OrderInv

LEMMA OrderFinishOpen ==
  ASSUME Typed, HoldInv, LinkInv, OrderInv, NEW c \in Conns, FinishOpen(c) PROVE OrderInv'
<1>1. /\ work[c].at = "opening" /\ work' = [work EXCEPT ![c] = Idle]
      /\ UNCHANGED <<clientVars, up, alive, engineVars>>
      /\ handle' = handle \/ handle' = [handle EXCEPT ![c] = TRUE]
  BY DEF FinishOpen
<1>2. up'[c] = <<>> /\ (c = conn => ~Restored)
  BY <1>1, BoundsAssumption DEF HoldInv, OpenAlone, LinkInv, Opened1, Established, Conns
<1>3. work'[c].at = "idle" /\ \A d \in Conns : d # c => work'[d] = work[d]
  BY <1>1 DEF Typed, Frames, Idle
<1>4. \A d \in Conns : d # c => handle'[d] = handle[d]
  BY <1>1 DEF Typed, ServerTypes
<1>5. ASSUME NEW d \in Conns, d # c PROVE Carried(d)' = Carried(d)
  BY <1>3, <1>5 DEF Carried, Carrying
<1>6. Working' /\ Pipeline' /\ AllSent'
  <2>1. conn' = conn /\ phase' = phase /\ submitted' = submitted /\ through' = through
        /\ overwritten' = overwritten
    BY <1>1 DEF clientVars, engineVars
  <2>2. conn' # 0 => conn' \in Conns
    BY <2>1, ConnOf
  <2>3. \A d \in Conns : work'[d].at \in {"queued", "deciding"} =>
           Carrying(d) /\ work'[d].commit = work[d].commit
    BY <1>3 DEF Carrying
  <2>4. \A d \in Conns : alive'[d] /\ handle'[d] =>
           \/ up'[d] = <<>> /\ (d = conn => ~Restored)
           \/ /\ Holding(d) /\ up'[d] = up[d]
              /\ Carried(d) \subseteq overwritten' \union Carried(d)'
    BY <1>1, <1>2, <1>4, <1>5 DEF Holding
  <2>5. QED
    BY <2>1, <2>2, <2>3, <2>4, PipeStays DEF Restored, Due
<1>7. Answered' /\ Recorded' /\ RecordedInLocalOrder'
  BY <1>1, AnswersStay, RecordStays DEF clientVars, engineVars
<1>8. QED
  BY <1>6, <1>7 DEF OrderInv

LEMMA OrderTakeTransact ==
  ASSUME Typed, OrderInv, NEW c \in Conns, TakeTransact(c) PROVE OrderInv'
<1>1. /\ work[c] = Idle /\ alive[c] /\ \A d \in Conns : d # c => up'[d] = up[d]
      /\ UNCHANGED <<clientVars, alive, handle, engineVars>>
  <2>1. NextFrame(c, "transact") /\ UNCHANGED <<clientVars, alive, handle, engineVars>>
    BY DEF TakeTransact
  <2>2. QED
    BY <2>1, TakenShape
<1>2. conn' = conn /\ phase' = phase /\ submitted' = submitted /\ through' = through
      /\ overwritten' = overwritten /\ (conn' # 0 => conn' \in Conns)
  BY <1>1, ConnOf DEF clientVars, engineVars
<1>3. Answered' /\ Recorded' /\ RecordedInLocalOrder'
  BY <1>1, AnswersStay, RecordStays DEF clientVars, engineVars
<1>4. \A d \in Conns : d # c => work'[d] = work[d]
  BY DEF TakeTransact, Typed, Frames
<1>5. ASSUME NEW d \in Conns, d # c PROVE Carried(d)' = Carried(d)
  BY <1>4, <1>5 DEF Carried, Carrying
<1>6. CASE ~handle[c]
  <2>1. work' = work
    BY <1>6 DEF TakeTransact
  <2>2. \A d \in Conns : alive'[d] /\ handle'[d] =>
           /\ Holding(d) /\ up'[d] = up[d] /\ Carried(d) \subseteq overwritten' \union Carried(d)'
    BY <1>1, <1>5, <1>6 DEF Holding
  <2>3. Working' /\ Pipeline' /\ AllSent'
    BY <1>2, <2>1, <2>2, PipeStays DEF Restored, Due, Carrying
  <2>4. QED
    BY <1>3, <2>3 DEF OrderInv
<1>7. CASE handle[c]
  <2>1. Holding(c) /\ \A d \in Conns : Holding(d)' => Holding(d)
    BY <1>1, <1>7 DEF Holding
  <2>2. InOrder(c)
    BY <2>1 DEF OrderInv, Pipeline
  <2>3. InOrder(c)' /\ 1..(work'[c].commit - 1) \subseteq overwritten
    BY <1>7, <2>2, KnownTaken
  <2>4. \A n : AllOf(c, n) => AllOf(c, n)'
    BY <1>7, KnownTaken
  <2>5. ASSUME NEW d \in Conns, d # c
        PROVE  (InOrder(d) => InOrder(d)') /\ \A n : AllOf(d, n) => AllOf(d, n)'
    BY <1>1, <1>2, <1>5, <2>5, KnownStays
  <2>6. Pipeline'
    BY <2>1, <2>3, <2>5 DEF OrderInv, Pipeline
  <2>7. Working'
    BY <1>2, <1>4, <2>3 DEF OrderInv, Working, Carrying
  <2>8. AllSent'
    <3>1. SUFFICES ASSUME conn' # 0, Restored', Holding(conn)' PROVE AllOf(conn, Due)'
      BY DEF AllSent
    <3>2. PICK d \in Conns : d = conn
      BY <1>2, <3>1
    <3>3. PICK n : n = Due
      OBVIOUS
    <3>4. conn # 0 /\ Restored /\ Holding(conn) /\ Due' = Due
      BY <1>1, <1>2, <3>1 DEF Restored, Due, Holding
    <3>5. AllOf(d, n)
      BY <3>2, <3>3, <3>4 DEF OrderInv, AllSent
    <3>6. AllOf(d, n)'
      BY <2>4, <2>5, <3>5
    <3>7. QED
      BY <1>2, <3>2, <3>3, <3>4, <3>6 DEF AllOf, Known, Ahead, Carried, Carrying
  <2>9. QED
    BY <1>3, <2>6, <2>7, <2>8 DEF OrderInv
<1>8. QED
  BY <1>6, <1>7

LEMMA OrderBeginDecide ==
  ASSUME Typed, HoldInv, OrderInv, NEW c \in Conns, BeginDecide(c) PROVE OrderInv'
<1>1. /\ Carrying(c) /\ UNCHANGED <<clientVars, up, alive, handle, engineVars>>
  BY DEF BeginDecide, Carrying
<1>2. conn' = conn /\ phase' = phase /\ submitted' = submitted /\ through' = through
      /\ overwritten' = overwritten /\ (conn' # 0 => conn' \in Conns)
  BY <1>1, ConnOf DEF clientVars, engineVars
<1>3. Answered' /\ Recorded' /\ RecordedInLocalOrder'
  BY <1>1, AnswersStay, RecordStays DEF clientVars, engineVars
<1>4. /\ \A d \in Conns : d # c => work'[d] = work[d]
      /\ Exists => work'[c].at = "deciding" /\ work'[c].commit = work[c].commit
      /\ ~Exists => work'[c].at = "idle"
  <2>1. CASE Exists
    BY <2>1 DEF BeginDecide, Typed, Frames, Works
  <2>2. CASE ~Exists
    <3>1. work' = [work EXCEPT ![c] = Idle]
      BY <2>2 DEF BeginDecide
    <3>2. QED
      BY <2>2, <3>1 DEF Typed, Frames, Idle
  <2>3. QED
    BY <2>1, <2>2
<1>5. Holding(c) => Exists
  BY BoundsAssumption DEF HoldInv, Owns, Exists, Absent, Conns
<1>6. ASSUME NEW d \in Conns, Holding(d) PROVE Carried(d)' = Carried(d)
  BY <1>1, <1>4, <1>5, <1>6 DEF Carried, Carrying
<1>7. \A d \in Conns : alive'[d] /\ handle'[d] =>
         /\ Holding(d) /\ up'[d] = up[d] /\ Carried(d) \subseteq overwritten' \union Carried(d)'
  BY <1>1, <1>6 DEF Holding
<1>8. \A d \in Conns : work'[d].at \in {"queued", "deciding"} =>
         Carrying(d) /\ work'[d].commit = work[d].commit
  BY <1>1, <1>4 DEF Carrying
<1>9. Working' /\ Pipeline' /\ AllSent'
  BY <1>2, <1>7, <1>8, PipeStays DEF Restored, Due
<1>10. QED
  BY <1>3, <1>9 DEF OrderInv

\* The engine decides, and its decision settles the commit.
LEMMA Settles ==
  ASSUME Typed, NEW c \in Conns, Decide(c), session.token = work[c].token
  PROVE  work[c].commit \in overwritten'
<1>1. PICK l \in Commits : l = work[c].commit
  BY DEF Decide, Typed, Frames, Works
<1>2. PICK v \in {"accepted", "conflict"} : v = Outcome(l)
  BY OutcomeType
<1>3. overwritten' = IF v = "accepted" THEN overwritten \union {l} ELSE overwritten
  BY <1>1, <1>2 DEF Decide
<1>4. v = "conflict" => l \in overwritten
  BY <1>2 DEF Outcome
<1>5. QED
  BY <1>1, <1>2, <1>3, <1>4

LEMMA OrderDecide ==
  ASSUME Typed, HoldInv, OrderInv, NEW c \in Conns, Decide(c) PROVE OrderInv'
<1>1. /\ work[c].at = "deciding" /\ Carrying(c) /\ UNCHANGED <<clientVars, up, alive, handle>>
      /\ work' = [work EXCEPT ![c] = Idle]
  BY DEF Decide, Carrying
<1>2. conn' = conn /\ phase' = phase /\ submitted' = submitted /\ through' = through
      /\ outstanding' = outstanding /\ (conn' # 0 => conn' \in Conns)
  BY <1>1, ConnOf DEF clientVars
<1>3. overwritten \subseteq overwritten' /\ Applied \subseteq Applied'
  BY DecideRecords DEF EngineGrows
<1>4. work'[c].at = "idle" /\ \A d \in Conns : d # c => work'[d] = work[d]
  BY <1>1 DEF Typed, Frames, Idle
<1>5. Holding(c) => Carried(c) \subseteq overwritten'
  <2>1. ASSUME Holding(c) PROVE session.token = work[c].token
    BY <1>1, <2>1 DEF HoldInv, Owns, Captured
  <2>2. QED
    BY <1>1, <2>1, Settles DEF Carried
<1>6. ASSUME NEW d \in Conns, Holding(d)
      PROVE  Carried(d) \subseteq overwritten' \union Carried(d)'
  <2>1. d # c => Carried(d)' = Carried(d)
    BY <1>4 DEF Carried, Carrying
  <2>2. QED
    BY <1>5, <1>6, <2>1
<1>7. \A d \in Conns : alive'[d] /\ handle'[d] =>
         /\ Holding(d) /\ up'[d] = up[d] /\ Carried(d) \subseteq overwritten' \union Carried(d)'
  BY <1>1, <1>6 DEF Holding
<1>8. \A d \in Conns : work'[d].at \in {"queued", "deciding"} =>
         Carrying(d) /\ work'[d].commit = work[d].commit
  BY <1>4 DEF Carrying
<1>9. Working' /\ Pipeline' /\ AllSent'
  BY <1>2, <1>3, <1>7, <1>8, PipeStays DEF Restored, Due
<1>10. Answered'
  BY <1>2, <1>3, AnswersStay
<1>11. CASE applied' = applied
  BY <1>3, <1>9, <1>10, <1>11, RecordStays DEF OrderInv
<1>12. CASE applied' # applied
  <2>1. PICK l \in Commits : applied' = Append(applied, l) /\ l \notin Applied /\ l \notin overwritten
    BY <1>12, DecideRecords
  <2>2. l = work[c].commit /\ session.token = work[c].token
    <3>1. session.token = work[c].token
      BY <1>12 DEF Decide, engineVars
    <3>2. PICK k \in Commits : k = work[c].commit
      BY <1>1 DEF Typed, Frames, Works
    <3>3. applied' = Append(applied, k)
      BY <1>12, <3>1, <3>2 DEF Decide
    <3>4. applied \in Seq(Commits)
      BY DEF Typed, ServerTypes
    <3>5. Len(applied) + 1 \in DOMAIN Append(applied, l) /\ Append(applied, l)[Len(applied) + 1] = l
          /\ Append(applied, k)[Len(applied) + 1] = k
      BY <3>4, AppendProperties, LenProperties
    <3>6. QED
      BY <2>1, <3>1, <3>2, <3>3, <3>5
  <2>3. 1..(l - 1) \subseteq overwritten
    BY <1>1, <2>2 DEF OrderInv, Working
  <2>4. Applied' = Applied \union {l}
    BY <2>1, AppendedSet DEF Applied, Typed, ServerTypes
  <2>5. l \in overwritten'
    BY <2>2, Settles
  <2>6. Recorded'
    BY <1>3, <2>3, <2>4, <2>5 DEF OrderInv, Recorded
  <2>7. RecordedInLocalOrder'
    <3>1. PICK n \in Nat : n = Len(applied) /\ DOMAIN applied = 1..n
      BY LenProperties DEF Typed, ServerTypes
    <3>2. /\ DOMAIN applied' = 1..(n + 1) /\ applied'[n + 1] = l
          /\ \A i \in 1..n : applied'[i] = applied[i]
      <4>1. applied \in Seq(Commits) /\ Append(applied, l) \in Seq(Commits)
        BY AppendProperties DEF Typed, ServerTypes
      <4>2. Len(Append(applied, l)) = n + 1 /\ Append(applied, l)[n + 1] = l
            /\ \A i \in 1..n : Append(applied, l)[i] = applied[i]
        BY <3>1, <4>1, AppendProperties
      <4>3. DOMAIN Append(applied, l) = 1..(n + 1)
        BY <4>1, <4>2, LenProperties
      <4>4. QED
        BY <2>1, <4>2, <4>3
    <3>3. ASSUME NEW i \in 1..n PROVE applied[i] < l
      <4>1. PICK x \in Int : x = applied[i]
        BY <3>1, ElementOfSeq, BoundsAssumption DEF Typed, ServerTypes, Commits
      <4>2. x \in Applied
        BY <3>1, <4>1 DEF Applied, ToSet
      <4>3. x # l /\ l \notin 1..(x - 1)
        BY <2>1, <4>2 DEF OrderInv, Recorded
      <4>4. l \in Nat /\ l >= 1
        BY BoundsAssumption DEF Commits
      <4>5. QED
        BY <4>1, <4>3, <4>4
    <3>4. \A i, j \in 1..n : i < j => applied[i] < applied[j]
      BY <3>1 DEF OrderInv, RecordedInLocalOrder
    <3>5. ASSUME NEW i \in 1..(n + 1), NEW j \in 1..(n + 1), i < j PROVE applied'[i] < applied'[j]
      <4>1. i \in 1..n /\ (j \in 1..n \/ j = n + 1)
        BY <3>5
      <4>2. QED
        BY <3>2, <3>3, <3>4, <3>5, <4>1
    <3>6. QED
      BY <3>2, <3>5 DEF RecordedInLocalOrder
  <2>8. QED
    BY <1>9, <1>10, <2>6, <2>7 DEF OrderInv
<1>13. QED
  BY <1>11, <1>12

LEMMA OrderRest ==
  ASSUME Typed, OrderInv,
         \/ \E c \in Conns : Refresh(c) \/ Disconnect(c)
         \/ Expire \/ Crash \/ (\E l \in Commits : Overwrite(l)) \/ UNCHANGED vars
  PROVE  OrderInv'
<1>1. UNCHANGED <<clientVars, applied>> /\ overwritten \subseteq overwritten'
  BY DEF Refresh, Disconnect, Expire, Crash, Overwrite, vars, engineVars
<1>2. conn' = conn /\ phase' = phase /\ submitted' = submitted /\ through' = through
      /\ outstanding' = outstanding /\ (conn' # 0 => conn' \in Conns)
  BY <1>1, ConnOf DEF clientVars
<1>3. Answered' /\ Recorded' /\ RecordedInLocalOrder'
  BY <1>1, <1>2, AnswersStay, RecordStays
<1>4. CASE Crash
  <2>1. \A c \in Conns : ~alive'[c] /\ work'[c] = Idle
    BY <1>4 DEF Crash
  <2>2. Working' /\ Pipeline' /\ AllSent'
    BY <1>1, <1>2, <2>1, PipeStays DEF Restored, Due, Idle
  <2>3. QED
    BY <1>3, <2>2 DEF OrderInv
<1>5. CASE ~Crash
  <2>1. work' = work /\ handle' = handle
    BY <1>5 DEF Refresh, Disconnect, Expire, Overwrite, vars, serverVars
  <2>2. ASSUME NEW c \in Conns, alive'[c] PROVE alive[c] /\ up'[c] = up[c]
    <3>1. CASE UNCHANGED <<alive, up>>
      BY <2>2, <3>1
    <3>2. ASSUME NEW d \in Conns, Disconnect(d) PROVE alive[c] /\ up'[c] = up[c]
      <4>1. alive' = [alive EXCEPT ![d] = FALSE] /\ up' = [up EXCEPT ![d] = <<>>]
        BY <3>2 DEF Disconnect
      <4>2. c # d /\ alive[c]
        BY <2>2, <4>1 DEF Typed, ServerTypes
      <4>3. QED
        BY <4>1, <4>2 DEF Typed, Frames
    <3>3. UNCHANGED <<alive, up>> \/ \E d \in Conns : Disconnect(d)
      BY <1>5 DEF Refresh, Expire, Overwrite, vars, serverVars
    <3>4. QED
      BY <3>1, <3>2, <3>3
  <2>3. \A c \in Conns : Carried(c)' = Carried(c)
    BY <2>1 DEF Carried, Carrying
  <2>4. \A c \in Conns : alive'[c] /\ handle'[c] =>
           /\ Holding(c) /\ up'[c] = up[c] /\ Carried(c) \subseteq overwritten' \union Carried(c)'
    BY <2>1, <2>2, <2>3 DEF Holding
  <2>5. Working' /\ Pipeline' /\ AllSent'
    BY <1>1, <1>2, <2>1, <2>4, PipeStays DEF Restored, Due, Carrying
  <2>6. QED
    BY <1>3, <2>5 DEF OrderInv
<1>6. QED
  BY <1>4, <1>5

\* The client sends commits whose predecessors were sent or are settled.
LEMMA OrderSends ==
  ASSUME Typed, OrderInv, conn \in Conns, conn # 0, UNCHANGED <<conn, serverVars, engineVars>>,
         NEW S \in SUBSET Commits, Sends(S), Answered',
         Holding(conn) => /\ \A k \in S : 1..(k - 1) \subseteq Known(conn, Len(up[conn]) + 1) \union S
                          /\ Restored' => 1..Due' \subseteq Known(conn, Len(up[conn]) + 1) \union S
  PROVE  OrderInv'
<1>1. PICK c \in Conns : c = conn
  OBVIOUS
<1>2. UNCHANGED <<alive, handle, work, applied, overwritten>>
  BY DEF serverVars, engineVars
<1>3. Added(up[c], up'[c], S) /\ \A d \in Conns : d # c => up'[d] = up[d]
  BY <1>1 DEF Sends
<1>4. \A d \in Conns : Carried(d)' = Carried(d) /\ (Holding(d)' => Holding(d))
  BY <1>2 DEF Carried, Carrying, Holding
<1>5. Recorded' /\ RecordedInLocalOrder' /\ Working'
  BY <1>2, RecordStays DEF OrderInv, Working, Carrying
<1>6. ASSUME NEW d \in Conns, Holding(d) PROVE InOrder(d)'
  <2>1. InOrder(d)
    BY <1>6 DEF OrderInv, Pipeline
  <2>2. CASE d = c
    <3>1. InOrder(c) /\ \A k \in S : 1..(k - 1) \subseteq Known(c, Len(up[c]) + 1) \union S
      BY <1>1, <1>6, <2>1, <2>2
    <3>2. InOrder(c)'
      BY <1>2, <1>3, <3>1, KnownAdded
    <3>3. QED
      BY <2>2, <3>2
  <2>3. CASE d # c
    BY <1>2, <1>3, <1>4, <2>1, <2>3, KnownStays
  <2>4. QED
    BY <2>2, <2>3
<1>7. Pipeline'
  BY <1>4, <1>6 DEF Pipeline
<1>8. AllSent'
  <2>1. SUFFICES ASSUME conn' # 0, Restored', Holding(conn)' PROVE AllOf(conn, Due)'
    BY DEF AllSent
  <2>2. Holding(c)
    BY <1>1, <1>2, <2>1 DEF Holding
  <2>3. PICK n : n = Due'
    OBVIOUS
  <2>4. 1..n \subseteq Known(c, Len(up[c]) + 1) \union S
    BY <1>1, <2>1, <2>2, <2>3
  <2>5. AllOf(c, n)'
    BY <1>2, <1>3, <2>4, KnownAdded
  <2>6. QED
    BY <1>1, <2>3, <2>5 DEF AllOf, Known, Ahead, Carried, Carrying
<1>9. QED
  BY <1>5, <1>7, <1>8 DEF OrderInv

LEMMA OrderTransact == ASSUME Typed, OrderInv, Transact PROVE OrderInv'
<1>1. /\ phase # "closed" /\ outstanding' = outstanding \union {submitted + 1}
      /\ UNCHANGED <<conn, phase, through, serverVars, engineVars>>
  BY DEF Transact
<1>2. PICK n \in Nat : n = submitted
  BY DEF Typed, ClientTypes
<1>3. submitted' = n + 1 /\ n + 1 \in Commits
  BY <1>2, TransactSends
<1>4. 1..(n + 1) \subseteq 1..n \union {n + 1}
  OBVIOUS
<1>5. Answered'
  BY <1>1, <1>2, <1>3, <1>4 DEF OrderInv, Answered, engineVars
<1>6. CASE phase = "ready" /\ conn \in Conns
  <2>1. Sends({n + 1}) /\ conn # 0
    BY <1>2, <1>6, TransactSends, BoundsAssumption DEF Conns
  <2>2. Due = n /\ Due' = n + 1 /\ Restored
    BY <1>1, <1>2, <1>3, <1>6 DEF Due, Restored
  <2>3. Holding(conn) => 1..n \subseteq Known(conn, Len(up[conn]) + 1)
    BY <2>1, <2>2 DEF OrderInv, AllSent, AllOf
  <2>4. (n + 1) - 1 = n
    OBVIOUS
  <2>5. Holding(conn) =>
          /\ \A k \in {n + 1} : 1..(k - 1) \subseteq Known(conn, Len(up[conn]) + 1) \union {n + 1}
          /\ Restored' => 1..Due' \subseteq Known(conn, Len(up[conn]) + 1) \union {n + 1}
    BY <1>4, <2>2, <2>3, <2>4
  <2>6. QED
    BY <1>1, <1>3, <1>5, <1>6, <2>1, <2>5, OrderSends
<1>7. CASE ~(phase = "ready" /\ conn \in Conns)
  <2>1. up' = up
    BY <1>7, TransactSends
  <2>2. conn' # 0 /\ Restored' => conn' = conn /\ Restored /\ Due' = Due
    BY <1>1, <1>7, ConnOf DEF Restored, Due
  <2>3. \A c \in Conns : Carried(c)' = Carried(c)
    BY <1>1 DEF Carried, Carrying, serverVars
  <2>4. \A c \in Conns : alive'[c] /\ handle'[c] =>
           /\ Holding(c) /\ up'[c] = up[c] /\ Carried(c) \subseteq overwritten' \union Carried(c)'
    BY <1>1, <2>1, <2>3 DEF Holding, serverVars
  <2>5. UNCHANGED <<work, applied, overwritten>> /\ (conn' # 0 => conn' \in Conns)
    BY <1>1, ConnOf DEF serverVars, engineVars
  <2>6. Working' /\ Pipeline' /\ AllSent'
    BY <2>2, <2>4, <2>5, PipeStays DEF Carrying
  <2>7. Recorded' /\ RecordedInLocalOrder'
    BY <2>5, RecordStays
  <2>8. QED
    BY <1>5, <2>6, <2>7 DEF OrderInv
<1>8. QED
  BY <1>6, <1>7

\* A new connection does not have the session yet.
LEMMA OrderMade == ASSUME Typed, HoldInv, OrderInv, Connect \/ RivalConnects PROVE OrderInv'
<1>1. made + 1 \in Conns /\ made + 1 > made
  BY BoundsAssumption DEF Typed, ClientTypes, Conns, Connect, RivalConnects
<1>2. /\ UNCHANGED <<submitted, outstanding, through, handle, work, engineVars>>
      /\ alive' = [alive EXCEPT ![made + 1] = TRUE]
      /\ \E t : up' = [up EXCEPT ![made + 1] = <<OpenFrame(t)>>]
      /\ \/ conn' = made + 1 /\ phase' = "opening" /\ phase = "offline"
         \/ UNCHANGED <<conn, phase>>
  BY DEF Connect, RivalConnects, clientVars
<1>3. ~handle[made + 1]
  BY <1>1 DEF HoldInv, Fresh
<1>4. \A c \in Conns : c # made + 1 => alive'[c] = alive[c] /\ up'[c] = up[c]
  BY <1>2 DEF Typed, ServerTypes, Frames
<1>5. \A c \in Conns : Carried(c)' = Carried(c)
  BY <1>2 DEF Carried, Carrying
<1>6. \A c \in Conns : alive'[c] /\ handle'[c] =>
         /\ Holding(c) /\ up'[c] = up[c] /\ Carried(c) \subseteq overwritten' \union Carried(c)'
  BY <1>2, <1>3, <1>4, <1>5 DEF Holding
<1>7. /\ conn' # 0 /\ Restored' => conn' = conn /\ Restored /\ Due' = Due
      /\ conn' # 0 => conn' \in Conns
  BY <1>1, <1>2, ConnOf DEF Restored, Due
<1>8. Answered'
  BY <1>2 DEF OrderInv, Answered, engineVars
<1>9. UNCHANGED <<applied, overwritten>>
  BY <1>2 DEF engineVars
<1>10. Recorded' /\ RecordedInLocalOrder' /\ Working' /\ Pipeline' /\ AllSent'
  BY <1>2, <1>6, <1>7, <1>9, PipeStays, RecordStays DEF Carrying
<1>11. QED
  BY <1>8, <1>10 DEF OrderInv

LEMMA OrderLose == ASSUME Typed, OrderInv, Lose PROVE OrderInv'
<1>1. /\ phase # "closed" /\ conn' = 0
      /\ UNCHANGED <<submitted, outstanding, alive, handle, work, applied, overwritten>>
  BY DEF Lose, serverVars, engineVars
<1>2. Answered' /\ Recorded' /\ RecordedInLocalOrder' /\ Working' /\ AllSent'
  BY <1>1, RecordStays DEF OrderInv, Answered, Working, AllSent, Carrying
<1>3. \A c \in Conns : Carried(c)' = Carried(c)
  BY <1>1 DEF Carried, Carrying
<1>4. ASSUME NEW c \in Conns, InOrder(c) PROVE InOrder(c)'
  <2>1. CASE c # conn
    BY <1>1, <1>3, <1>4, <2>1, LostShape, KnownStays
  <2>2. CASE c = conn
    <3>1. PICK n \in 0..Len(up[c]) :
            DOMAIN up'[c] = 1..n /\ \A i \in 1..n : up'[c][i] = up[c][i]
      BY <2>2, LostShape
    <3>2. Len(up[c]) \in Nat /\ DOMAIN up[c] = 1..Len(up[c])
      BY UpShape
    <3>3. ASSUME NEW i \in 1..n PROVE Known(c, i) = Known(c, i)'
      <4>1. \A j \in 1..(i - 1) : up'[c][j] = up[c][j]
        BY <3>1, <3>2
      <4>2. QED
        BY <1>1, <1>3, <4>1 DEF Known, Ahead
    <3>4. \A i \in 1..n : i \in DOMAIN up[c]
      BY <3>1, <3>2
    <3>5. QED
      BY <1>4, <3>1, <3>3, <3>4 DEF InOrder
  <2>3. QED
    BY <2>1, <2>2
<1>5. Pipeline'
  BY <1>1, <1>4 DEF OrderInv, Pipeline, Holding
<1>6. QED
  BY <1>2, <1>5 DEF OrderInv

LEMMA OrderOpened == ASSUME Typed, OrderInv, ReceiveOpened PROVE OrderInv'
<1>1. /\ Received("opened") /\ through' = submitted /\ phase' \in {"restoring", "ready"}
      /\ UNCHANGED <<conn, submitted, outstanding, serverVars, engineVars>>
  BY DEF ReceiveOpened, Settle
<1>2. conn \in Conns /\ conn # 0 /\ phase # "closed"
  BY <1>1, ReceivedShape
<1>3. 1..submitted \subseteq outstanding \union overwritten
  BY <1>2 DEF OrderInv, Answered
<1>4. Answered'
  BY <1>1, <1>3 DEF Answered, engineVars
<1>5. Sends(outstanding) /\ outstanding \in SUBSET Commits
  BY OpenedSends, BoundsAssumption DEF Typed, ClientTypes, Commits
<1>6. Due' = submitted
  BY <1>1 DEF Due
<1>7. overwritten \subseteq Known(conn, Len(up[conn]) + 1)
  BY DEF Known
<1>8. \A k \in outstanding : 1..(k - 1) \subseteq 1..submitted
  BY DEF Typed, ClientTypes
<1>9. /\ \A k \in outstanding :
           1..(k - 1) \subseteq Known(conn, Len(up[conn]) + 1) \union outstanding
      /\ 1..Due' \subseteq Known(conn, Len(up[conn]) + 1) \union outstanding
  BY <1>3, <1>6, <1>7, <1>8
<1>10. QED
  BY <1>1, <1>2, <1>4, <1>5, <1>9, OrderSends

\* The frames the client receives leave what it sent alone.
LEMMA OrderHeard ==
  ASSUME Typed, OrderInv, UNCHANGED <<conn, up, submitted, through, serverVars, engineVars>>,
         phase' = phase \/ phase' = "closed", Answered'
  PROVE  OrderInv'
<1>1. UNCHANGED <<alive, handle, work, applied, overwritten>> /\ (conn' # 0 => conn' \in Conns)
  BY ConnOf DEF serverVars, engineVars
<1>2. \A c \in Conns : Carried(c)' = Carried(c) /\ (alive'[c] /\ handle'[c] => Holding(c))
  BY <1>1 DEF Carried, Carrying, Holding
<1>3. conn' # 0 /\ Restored' => conn' = conn /\ Restored /\ Due' = Due
  BY DEF Restored, Due
<1>4. Recorded' /\ RecordedInLocalOrder' /\ Working' /\ Pipeline' /\ AllSent'
  BY <1>1, <1>2, <1>3, PipeStays, RecordStays DEF Carrying
<1>5. QED
  BY <1>4 DEF OrderInv

LEMMA OrderVerdict ==
  ASSUME Typed, FramesTrue, LinkInv, OrderInv, ReceiveVerdict PROVE OrderInv'
<1>1. /\ Received("verdict")
      /\ UNCHANGED <<conn, submitted, through, serverVars, engineVars>>
  BY DEF ReceiveVerdict
<1>2. /\ conn \in Conns /\ conn # 0 /\ phase # "closed" /\ 1 \in DOMAIN down[conn]
      /\ Head(down[conn]) = down[conn][1] /\ down[conn][1].type = "verdict"
  BY <1>1, ReceivedShape, DownShape
<1>3. PICK f \in TrueFrames : f = Head(down[conn]) /\ f.type = "verdict"
  BY <1>1, ReceivedTrue
<1>4. PICK l \in Commits : l = f.commit
  BY <1>3 DEF TrueFrames, DownFrames
<1>5. l \in overwritten
  <2>1. Warns(down[conn])
    BY <1>2 DEF LinkInv, Warned
  <2>2. ~Refuses(f)
    BY <1>2, <1>3, <2>1 DEF Warns
  <2>3. f.verdict \in {"accepted", "conflict"} /\ Holds(l, f.verdict)
    BY <1>3, <1>4, <2>2 DEF Refuses, TrueFrames, DownFrames
  <2>4. QED
    BY <2>3 DEF Holds, OrderInv, Recorded
<1>6. outstanding' = outstanding \ {l}
  BY <1>3, <1>4 DEF ReceiveVerdict
<1>7. 1..submitted \subseteq outstanding \union overwritten
  BY <1>2 DEF OrderInv, Answered
<1>8. Answered'
  BY <1>1, <1>5, <1>6, <1>7 DEF Answered, engineVars
<1>9. CASE phase # "restoring"
  <2>1. UNCHANGED <<phase, up>>
    BY <1>9 DEF ReceiveVerdict
  <2>2. QED
    BY <1>1, <1>8, <2>1, OrderHeard
<1>10. CASE phase = "restoring"
  <2>1. PICK S \in SUBSET Commits :
          /\ S = IF replaying \ {l} = {} THEN {k \in outstanding \ {l} : k > through} ELSE {}
          /\ Sends(S)
    <3>1. l = Head(down[conn]).commit
      BY <1>3, <1>4
    <3>2. PICK S : S = IF replaying \ {l} = {} THEN {k \in outstanding \ {l} : k > through} ELSE {}
      OBVIOUS
    <3>3. S \in SUBSET Commits
      <4>1. outstanding \subseteq Commits /\ S \subseteq outstanding
        BY <3>2, BoundsAssumption DEF Typed, ClientTypes, Commits
      <4>2. QED
        BY <4>1
    <3>4. QED
      BY <1>10, <3>1, <3>2, <3>3, VerdictSends
  <2>2. phase' = IF replaying \ {l} = {} THEN "ready" ELSE "restoring"
    BY <1>3, <1>4, <1>10 DEF ReceiveVerdict, Settle
  <2>3. ASSUME Holding(conn)
        PROVE  /\ \A k \in S : 1..(k - 1) \subseteq Known(conn, Len(up[conn]) + 1) \union S
               /\ 1..Due' \subseteq Known(conn, Len(up[conn]) + 1) \union S
    <3>1. 1..through \subseteq Known(conn, Len(up[conn]) + 1)
      BY <1>2, <1>10, <2>3 DEF OrderInv, AllSent, AllOf, Restored, Due
    <3>2. overwritten \subseteq Known(conn, Len(up[conn]) + 1)
      BY DEF Known
    <3>3. CASE replaying \ {l} = {}
      <4>1. ASSUME NEW m \in 1..submitted PROVE m \in Known(conn, Len(up[conn]) + 1) \union S
        <5>1. CASE m \in overwritten
          BY <3>2, <5>1
        <5>2. CASE m \notin overwritten /\ m > through
          BY <1>5, <1>7, <2>1, <3>3, <4>1, <5>2
        <5>3. CASE ~(m > through)
          <6>1. m \in 1..through
            BY <4>1, <5>3 DEF Typed, ClientTypes
          <6>2. QED
            BY <3>1, <6>1
        <5>4. QED
          BY <5>1, <5>2, <5>3
      <4>2. \A k \in S : 1..(k - 1) \subseteq 1..submitted
        BY <2>1 DEF Typed, ClientTypes
      <4>3. Due' = submitted
        BY <1>1, <2>2, <3>3 DEF Due
      <4>4. QED
        BY <4>1, <4>2, <4>3
    <3>4. CASE replaying \ {l} # {}
      BY <1>1, <2>1, <2>2, <3>1, <3>4 DEF Due
    <3>5. QED
      BY <3>3, <3>4
  <2>4. QED
    BY <1>1, <1>2, <1>8, <2>1, <2>3, OrderSends
<1>11. QED
  BY <1>9, <1>10

LEMMA OrderClient ==
  ASSUME Typed, FramesTrue, HoldInv, LinkInv, OrderInv, Client PROVE OrderInv'
<1>1. CASE ReceiveRevoked
  <2>1. UNCHANGED <<conn, up, submitted, through, serverVars, engineVars>> /\ phase' = "closed"
    BY <1>1 DEF ReceiveRevoked
  <2>2. Answered'
    BY <2>1 DEF Answered
  <2>3. QED
    BY <2>1, <2>2, OrderHeard
<1>2. CASE ReceiveEffect
  <2>1. UNCHANGED <<conn, up, phase, submitted, outstanding, through, serverVars, engineVars>>
    BY <1>2 DEF ReceiveEffect
  <2>2. Answered'
    BY <2>1 DEF OrderInv, Answered, engineVars
  <2>3. QED
    BY <2>1, <2>2, OrderHeard
<1>3. QED
  BY <1>1, <1>2, OrderTransact, OrderMade, OrderLose, OrderOpened, OrderVerdict DEF Client

LEMMA OrderStep ==
  ASSUME Typed, FramesTrue, HoldInv, LinkInv, OrderInv, [Next]_vars PROVE OrderInv'
BY OrderClient, OrderOpenSession, OrderFinishOpen, OrderTakeTransact, OrderBeginDecide, OrderDecide,
   OrderRest
DEF Next, Server

LEMMA InitOrder == Init => OrderInv
<1> SUFFICES ASSUME Init PROVE OrderInv
  OBVIOUS
<1>1. DOMAIN (<<>>) = {} /\ 1..0 = {}
  OBVIOUS
<1>2. /\ applied = <<>> /\ submitted = 0 /\ phase = "ready"
      /\ \A c \in Conns : up[c] = <<>> /\ work[c] = Idle
  BY DEF Init
<1>3. Answered /\ Recorded /\ RecordedInLocalOrder
  BY <1>1, <1>2 DEF Answered, Recorded, RecordedInLocalOrder, Applied, ToSet
<1>4. Working /\ Pipeline
  BY <1>1, <1>2 DEF Working, Pipeline, InOrder, Carrying, Idle
<1>5. AllSent
  BY <1>1, <1>2 DEF AllSent, AllOf, Due
<1>6. QED
  BY <1>3, <1>4, <1>5 DEF OrderInv

(* With ACLs active, the commits of a session are recorded in their local   *)
(* order, whatever connections carry them: replayed after a loss, submitted *)
(* during a restore, or left behind on a connection the server has not yet  *)
(* found closed.                                                            *)
THEOREM LocalOrder == ASSUME AclActive = TRUE PROVE Spec => []RecordedInLocalOrder
<1>1. Init => TruthInv /\ HoldInv /\ LinkInv /\ OrderInv
  BY InitTruth, InitHeld, InitOrder
<1>2. TruthInv /\ HoldInv /\ LinkInv /\ OrderInv /\ [Next]_vars
        => (TruthInv /\ HoldInv /\ LinkInv /\ OrderInv)'
  BY NextTruth, HoldStep, LinkStep, OrderStep DEF TruthInv, LinkInv
<1>3. OrderInv => RecordedInLocalOrder
  BY DEF OrderInv
<1>4. QED
  BY <1>1, <1>2, <1>3, PTL DEF Spec
=============================================================================
