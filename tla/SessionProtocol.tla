-------------------------- MODULE SessionProtocol --------------------------
(***************************************************************************)
(* One logical session of a memory space across the loss of its connection: *)
(* the SpaceSession of memory/v2/client.ts, which keeps every unanswered    *)
(* commit and replays it when it resumes the session; the registry of       *)
(* memory/v2/session-registry.ts, which gives the session to one connection *)
(* at a time and rotates its token at each open; and the connections and    *)
(* the admission of memory/v2/server.ts, which read the registry, wait, and *)
(* then commit.                                                             *)
(*                                                                          *)
(* A connection opens the session at most once, so the token minted by that *)
(* open, and the registry object it installs, are named by the connection.  *)
(* The hello handshake is part of Connect.  Reading and writing documents   *)
(* is reduced to the one fact admission looks at: whether what a commit     *)
(* read has been overwritten.  Watches are left to other modules.           *)
(***************************************************************************)
EXTENDS Integers, Sequences, FiniteSets, SequencesExt

CONSTANTS MaxCommits,   \* bound on the localSeqs of the session
          MaxConns,     \* bound on the connections ever made
          MaxCrashes,   \* bound on the restarts of the server
          Contested,    \* bound: the commits whose reads others write over
          Rivals,       \* BOOLEAN: another client may resume the session
          AclActive     \* BOOLEAN: the server's ACL mode is not "off"

ASSUME BoundsAssumption ==
  /\ MaxCommits \in Nat \ {0} /\ MaxConns \in Nat \ {0} /\ MaxCrashes \in Nat
  /\ Rivals \in BOOLEAN /\ AclActive \in BOOLEAN
  /\ Contested \subseteq 1..MaxCommits

Commits == 1..MaxCommits
Conns   == 1..MaxConns

VARIABLES
  \* the client
  conn,        \* its live connection, 0 when it has none
  phase,       \* "offline", "opening", "restoring", "ready" or "closed"
  token,       \* #sessionToken
  submitted,   \* highest localSeq handed to transact
  outstanding, \* #outstandingCommits: submitted and not answered
  replaying,   \* the replay tasks that restore still awaits
  through,     \* replayedThroughLocalSeq
  told,        \* told[l]: how the promise of commit l was settled
  caughtUp,    \* #caughtUpLocalSeq
  waiters,     \* answered commits whose catch-up marker is still awaited
  \* the network
  made,        \* connections made so far
  up, down,    \* up[c], down[c]: frames in flight on connection c
  \* the server
  alive,       \* alive[c]: the server has not noticed that c is closed
  handle,      \* handle[c]: Connection.#sessions has the session
  work,        \* work[c]: the frame c is handling, across its awaits
  session,     \* the registry's entry for the session
  crashes,
  \* the engine: durable
  applied,     \* commits recorded under (sessionId, localSeq), in order
  overwritten  \* commits whose reads are stale

clientVars == <<conn, phase, token, submitted, outstanding, replaying, through,
                told, caughtUp, waiters>>
engineVars == <<applied, overwritten>>
serverVars == <<alive, handle, work, session, crashes>>
vars == <<clientVars, made, up, down, serverVars, engineVars>>

Absent == [token |-> 0, owner |-> 0, expiring |-> FALSE, marker |-> 0, owed |-> 0]
Idle   == [at |-> "idle", commit |-> 0, token |-> 0, resumed |-> FALSE, marker |-> 0]
Queued(l) ==
  [at |-> "queued", commit |-> l, token |-> 0, resumed |-> FALSE, marker |-> 0]
Exists == session # Absent
Applied == ToSet(applied)

Higher(x, y) == IF x >= y THEN x ELSE y

OpenFrame(t)     == [type |-> "open", token |-> t, commit |-> 0]
TransactFrame(l) == [type |-> "transact", token |-> 0, commit |-> l]

Opened(c, resumed, marker) ==
  [type |-> "opened", token |-> c, resumed |-> resumed, marker |-> marker,
   commit |-> 0, verdict |-> "none"]
Verdict(l, v) ==
  [type |-> "verdict", token |-> 0, resumed |-> FALSE, marker |-> 0,
   commit |-> l, verdict |-> v]
Effect(m) ==
  [type |-> "effect", token |-> 0, resumed |-> FALSE, marker |-> m,
   commit |-> 0, verdict |-> "none"]
Revoked ==
  [type |-> "revoked", token |-> 0, resumed |-> FALSE, marker |-> 0,
   commit |-> 0, verdict |-> "none"]

\* A closed connection sends nothing, and only the client's is read.
Reaches(c) == alive[c] /\ c = conn
Sent(c, msgs) == IF Reaches(c) THEN [down EXCEPT ![c] = @ \o msgs] ELSE down

\* The commits of a set in the order in which they were submitted, which is
\* the order of the Map that holds them.
Descending(S) ==
  {s \in [1..Cardinality(S) -> S] : \A i, j \in DOMAIN s : i < j => s[i] > s[j]}
Ascending(S) ==
  {s \in [1..Cardinality(S) -> S] : \A i, j \in DOMAIN s : i < j => s[i] < s[j]}
TransactAll(s) == [i \in DOMAIN s |-> TransactFrame(s[i])]

Init ==
  /\ conn = 1 /\ phase = "ready" /\ token = 1
  /\ submitted = 0 /\ outstanding = {} /\ replaying = {} /\ through = 0
  /\ told = [l \in Commits |-> "none"]
  /\ caughtUp = 0 /\ waiters = {}
  /\ made = 1
  /\ up = [c \in Conns |-> <<>>] /\ down = [c \in Conns |-> <<>>]
  /\ alive = [c \in Conns |-> c = 1]
  /\ handle = [c \in Conns |-> c = 1]
  /\ work = [c \in Conns |-> Idle]
  /\ session = [Absent EXCEPT !.token = 1, !.owner = 1]
  /\ crashes = 0
  /\ applied = <<>> /\ overwritten = {}

(***************************************************************************)
(* The client                                                               *)
(***************************************************************************)
\* SpaceSession.transact: the commit is kept until it is answered, and is
\* sent at once only on a connection whose restore has finished.
Transact ==
  /\ phase # "closed" /\ submitted < MaxCommits
  /\ submitted' = submitted + 1
  /\ outstanding' = outstanding \union {submitted + 1}
  /\ up' = IF phase = "ready"
           THEN [up EXCEPT ![conn] = Append(@, TransactFrame(submitted + 1))]
           ELSE up
  /\ UNCHANGED <<conn, phase, token, replaying, through, told, caughtUp,
                 waiters, made, down, serverVars, engineVars>>

\* One turn of the reconnect loop: hello, then restore sends session.open
\* with the token of the last open that was answered.
Connect ==
  /\ phase = "offline" /\ made < MaxConns
  /\ made' = made + 1
  /\ conn' = made + 1 /\ phase' = "opening"
  /\ alive' = [alive EXCEPT ![made + 1] = TRUE]
  /\ up' = [up EXCEPT ![made + 1] = <<OpenFrame(token)>>]
  /\ UNCHANGED <<token, submitted, outstanding, replaying, through, told,
                 caughtUp, waiters, down, handle, work, session, crashes,
                 engineVars>>

\* #onClose: pending requests are rejected, the outstanding commits stay.
\* Frames already on their way to the server may or may not get there.
Lose ==
  /\ conn # 0 /\ phase # "closed" /\ made < MaxConns
  /\ \E n \in 0..Len(up[conn]) : up' = [up EXCEPT ![conn] = SubSeq(@, 1, n)]
  /\ down' = [down EXCEPT ![conn] = <<>>]
  /\ conn' = 0 /\ phase' = "offline" /\ replaying' = {}
  /\ UNCHANGED <<token, submitted, outstanding, through, told, caughtUp,
                 waiters, made, serverVars, engineVars>>

Received(type) ==
  /\ conn # 0 /\ phase # "closed" /\ down[conn] # <<>>
  /\ Head(down[conn]).type = type
  /\ down' = [down EXCEPT ![conn] = Tail(@)]

\* The end of restore: once no replay is awaited, what was submitted in the
\* meantime is sent.
SettleDropsHeld(awaited, kept, last, frames) ==
  /\ replaying' = awaited
  /\ phase' = IF awaited = {} THEN "ready" ELSE "restoring"
  /\ up' = [up EXCEPT ![conn] = @ \o frames]
Settle(awaited, kept, last, frames) ==
  /\ replaying' = awaited
  /\ phase' = IF awaited = {} THEN "ready" ELSE "restoring"
  /\ \E s \in Ascending(IF awaited = {} THEN {l \in kept : l > last} ELSE {}) :
       up' = [up EXCEPT ![conn] = @ \o frames \o TransactAll(s)]

\* restore, from the answer to session.open to the wait for the replays.  A
\* session the server did not know under that id starts a new epoch of
\* markers, which ends every wait for a marker of the old one.
ReceiveOpenedKeepsWaits ==
  /\ Received("opened")
  /\ LET m == Head(down[conn])
     IN /\ token' = m.token
        /\ caughtUp' = Higher(caughtUp, m.marker)
        /\ waiters' = {l \in waiters : l > caughtUp'}
  /\ through' = submitted
  /\ \E s \in Ascending(outstanding) :
       Settle(outstanding, outstanding, submitted, TransactAll(s))
  /\ UNCHANGED <<conn, submitted, outstanding, told, made, serverVars, engineVars>>
ReceiveOpened ==
  /\ Received("opened")
  /\ LET m == Head(down[conn])
         noted == Higher(IF m.resumed THEN caughtUp ELSE 0, m.marker)
     IN /\ token' = m.token
        /\ caughtUp' = noted
        /\ waiters' = IF m.resumed THEN {l \in waiters : l > noted} ELSE {}
  /\ through' = submitted
  /\ \E s \in Ascending(outstanding) :
       Settle(outstanding, outstanding, submitted, TransactAll(s))
  /\ UNCHANGED <<conn, submitted, outstanding, told, made, serverVars, engineVars>>

\* handleRevoked, from the refusal of an open or from a session/revoked
\* message: the session is over and its commits are rejected.
ReceiveRevokedKeepsReplays ==
  /\ Received("revoked")
  /\ phase' = "closed"
  /\ told' = [l \in Commits |-> IF l \in outstanding THEN "revoked" ELSE told[l]]
  /\ outstanding' = {} /\ UNCHANGED replaying /\ waiters' = {}
  /\ UNCHANGED <<conn, token, submitted, through, caughtUp, made, up,
                 serverVars, engineVars>>
ReceiveRevoked ==
  /\ Received("revoked")
  /\ phase' = "closed"
  /\ told' = [l \in Commits |-> IF l \in outstanding THEN "revoked" ELSE told[l]]
  /\ outstanding' = {} /\ replaying' = {} /\ waiters' = {}
  /\ UNCHANGED <<conn, token, submitted, through, caughtUp, made, up,
                 serverVars, engineVars>>

\* The answer to a transact request.  An answered commit awaits its marker:
\* an accepted one for its promotion, a conflicting one for its retry.
ReceiveVerdict ==
  /\ Received("verdict")
  /\ LET l == Head(down[conn]).commit
         v == Head(down[conn]).verdict
     IN /\ outstanding' = outstanding \ {l}
        /\ told' = IF l \in outstanding THEN [told EXCEPT ![l] = v] ELSE told
        /\ waiters' = IF l \in outstanding /\ v # "error" /\ l > caughtUp
                      THEN waiters \union {l} ELSE waiters
        /\ IF phase = "restoring"
           THEN Settle(replaying \ {l}, outstanding \ {l}, through, <<>>)
           ELSE UNCHANGED <<phase, replaying, up>>
  /\ UNCHANGED <<conn, token, submitted, through, caughtUp, made, serverVars,
                 engineVars>>

\* handleEffect: the marker of a frame releases the waits it covers.
ReceiveEffect ==
  /\ Received("effect")
  /\ caughtUp' = Higher(caughtUp, Head(down[conn]).marker)
  /\ waiters' = {l \in waiters : l > caughtUp'}
  /\ UNCHANGED <<conn, phase, token, submitted, outstanding, replaying, through,
                 told, made, up, serverVars, engineVars>>

\* Another client resumes the session with its current token.  It takes the
\* last connection MaxConns allows only from a client that has one, as Lose
\* and Crash leave a last one.
RivalConnects ==
  /\ Rivals /\ Exists /\ made < MaxConns
  /\ made + 1 < MaxConns \/ (conn # 0 /\ alive[conn])
  /\ made' = made + 1
  /\ alive' = [alive EXCEPT ![made + 1] = TRUE]
  /\ up' = [up EXCEPT ![made + 1] = <<OpenFrame(session.token)>>]
  /\ UNCHANGED <<clientVars, down, handle, work, session, crashes, engineVars>>

(***************************************************************************)
(* The server.  A connection handles one frame at a time.                   *)
(***************************************************************************)
NextFrame(c, type) ==
  /\ alive[c] /\ work[c] = Idle /\ up[c] # <<>>
  /\ Head(up[c]).type = type
  /\ up' = [up EXCEPT ![c] = Tail(@)]

\* openSession up to its catch-up.  SessionRegistry.open refuses a token
\* that is not the latest; otherwise the session passes to this connection,
\* and the connection that had it is revoked.
OpenSessionKeepsExpiry(c) ==
  /\ NextFrame(c, "open")
  /\ IF Exists /\ Head(up[c]).token # session.token
     THEN /\ down' = Sent(c, <<Revoked>>)
          /\ UNCHANGED <<session, handle, work>>
     ELSE LET old == session.owner
              taken == old \notin {0, c}
          IN /\ session' = [session EXCEPT !.token = c, !.owner = c]
             /\ work' = [work EXCEPT ![c] =
                  [at |-> "opening", commit |-> 0, token |-> c,
                   resumed |-> Exists, marker |-> session.marker]]
             /\ handle' = IF taken THEN [handle EXCEPT ![old] = FALSE] ELSE handle
             /\ down' = IF taken /\ handle[old] THEN Sent(old, <<Revoked>>) ELSE down
  /\ UNCHANGED <<clientVars, made, alive, crashes, engineVars>>
OpenSession(c) ==
  /\ NextFrame(c, "open")
  /\ IF Exists /\ Head(up[c]).token # session.token
     THEN /\ down' = Sent(c, <<Revoked>>)
          /\ UNCHANGED <<session, handle, work>>
     ELSE LET old == session.owner
              taken == old \notin {0, c}
          IN /\ session' = [session EXCEPT !.token = c, !.owner = c,
                                           !.expiring = FALSE]
             /\ work' = [work EXCEPT ![c] =
                  [at |-> "opening", commit |-> 0, token |-> c,
                   resumed |-> Exists, marker |-> session.marker]]
             /\ handle' = IF taken THEN [handle EXCEPT ![old] = FALSE] ELSE handle
             /\ down' = IF taken /\ handle[old] THEN Sent(old, <<Revoked>>) ELSE down
  /\ UNCHANGED <<clientVars, made, alive, crashes, engineVars>>

\* openSession from its catch-up on.  The catch-up consumes the owed marker
\* of a resumed session.  With ACLs active the open is refused when the
\* session was taken over meanwhile.  A connection that closed during the
\* catch-up takes its handle all the same.
FinishOpen(c) ==
  /\ work[c].at = "opening"
  /\ work' = [work EXCEPT ![c] = Idle]
  /\ LET own == session.token = c
         covered == IF work[c].resumed /\ own THEN Higher(session.marker, session.owed)
                    ELSE work[c].marker
     IN /\ session' = IF work[c].resumed /\ own
                      THEN [session EXCEPT !.marker = covered, !.owed = 0]
                      ELSE session
        /\ IF AclActive /\ ~(own /\ session.owner = c)
           THEN down' = Sent(c, <<Revoked>>) /\ UNCHANGED handle
           ELSE /\ down' = Sent(c, <<Opened(c, work[c].resumed, covered)>>)
                /\ handle' = [handle EXCEPT ![c] = TRUE]
  /\ UNCHANGED <<clientVars, made, up, alive, crashes, engineVars>>

\* A transact frame of a connection that does not have the session is
\* refused; any other waits for the publication lock of the space.
TakeTransact(c) ==
  /\ NextFrame(c, "transact")
  /\ LET l == Head(up[c]).commit
     IN IF handle[c]
        THEN /\ work' = [work EXCEPT ![c] = Queued(l)]
             /\ UNCHANGED down
        ELSE /\ down' = Sent(c, <<Verdict(l, "error")>>)
             /\ UNCHANGED work
  /\ UNCHANGED <<clientVars, made, alive, handle, session, crashes, engineVars>>

LockFree == \A c \in Conns : work[c].at # "deciding"

\* #decideTransaction before its await: the registry object is captured.
BeginDecide(c) ==
  /\ work[c].at = "queued" /\ LockFree
  /\ IF Exists
     THEN /\ work' = [work EXCEPT ![c].at = "deciding", ![c].token = session.token]
          /\ UNCHANGED down
     ELSE /\ work' = [work EXCEPT ![c] = Idle]
          /\ down' = Sent(c, <<Verdict(work[c].commit, "error")>>)
  /\ UNCHANGED <<clientVars, made, up, alive, handle, session, crashes, engineVars>>

\* The engine's decision: a commit recorded before is answered as it was,
\* one whose reads are stale conflicts, any other is recorded.  Its own
\* write then makes its reads stale.
OutcomeUnrecorded(l) == IF l \in overwritten THEN "conflict" ELSE "accepted"
Outcome(l) ==
  IF l \in Applied THEN "accepted"
  ELSE IF l \in overwritten THEN "conflict" ELSE "accepted"

\* #decideTransaction after its await, to the publication of the verdict: a
\* session replaced in the meantime commits nothing; a decided commit owes
\* the session a marker.
Decide(c) ==
  /\ work[c].at = "deciding"
  /\ work' = [work EXCEPT ![c] = Idle]
  /\ LET l == work[c].commit
         v == Outcome(l)
     IN IF session.token # work[c].token
        THEN /\ down' = Sent(c, <<Verdict(l, "error")>>)
             /\ UNCHANGED <<session, engineVars>>
        ELSE /\ down' = Sent(c, <<Verdict(l, v)>>)
             /\ session' = [session EXCEPT !.owed = Higher(@, l)]
             /\ applied' = IF v = "accepted" /\ l \notin Applied
                           THEN Append(applied, l) ELSE applied
             /\ overwritten' = IF v = "accepted" THEN overwritten \union {l}
                               ELSE overwritten
  /\ UNCHANGED <<clientVars, made, up, alive, handle, crashes>>

\* The fan-out reaches the session: the owed marker is consumed and stamped
\* on a frame.  The fan-out holds the publication lock.
Refresh(c) ==
  /\ alive[c] /\ handle[c] /\ Exists /\ LockFree
  /\ session.owed > session.marker
  /\ session' = [session EXCEPT !.marker = session.owed, !.owed = 0]
  /\ down' = Sent(c, <<Effect(session.owed)>>)
  /\ UNCHANGED <<clientVars, made, up, alive, handle, work, crashes, engineVars>>

\* Connection.close, once the server notices: frames not yet begun are
\* dropped, and a session this connection owns is left to expire.
Disconnect(c) ==
  /\ alive[c] /\ c <= made /\ c # conn
  /\ alive' = [alive EXCEPT ![c] = FALSE]
  /\ up' = [up EXCEPT ![c] = <<>>]
  /\ session' = IF handle[c] /\ session.owner = c
                THEN [session EXCEPT !.owner = 0, !.expiring = TRUE] ELSE session
  /\ UNCHANGED <<clientVars, made, down, handle, work, crashes, engineVars>>

\* SessionRegistry.#prune, at the first look after the time to live.
Expire ==
  /\ session.expiring
  /\ session' = Absent
  /\ UNCHANGED <<clientVars, made, up, down, alive, handle, work, crashes, engineVars>>

\* A restart of the server: the registry is in memory, the engine is not.
Crash ==
  /\ crashes < MaxCrashes /\ made < MaxConns
  /\ crashes' = crashes + 1
  /\ session' = Absent
  /\ alive' = [c \in Conns |-> FALSE]
  /\ handle' = [c \in Conns |-> FALSE]
  /\ work' = [c \in Conns |-> Idle]
  /\ up' = [c \in Conns |-> <<>>]
  /\ UNCHANGED <<clientVars, made, down, engineVars>>

\* Another session's commit overwrites what commit l read.
Overwrite(l) ==
  /\ l \in Contested \ overwritten
  /\ overwritten' = overwritten \union {l}
  /\ UNCHANGED <<clientVars, made, up, down, serverVars, applied>>

Client == \/ Transact \/ Connect \/ Lose \/ ReceiveOpened \/ ReceiveRevoked
          \/ ReceiveVerdict \/ ReceiveEffect \/ RivalConnects
Server == \E c \in Conns : \/ OpenSession(c) \/ FinishOpen(c) \/ TakeTransact(c)
                           \/ BeginDecide(c) \/ Decide(c) \/ Refresh(c)
                           \/ Disconnect(c)
Next == Client \/ Server \/ Expire \/ Crash \/ (\E l \in Commits : Overwrite(l))

Spec == Init /\ [][Next]_vars

\* What runs without being asked: the client reconnects when it finds its
\* connection closed and handles what it receives, a connection of the
\* server handles its frames to the end, and the fan-out is rescheduled
\* while a marker is owed.
Fairness ==
  /\ WF_vars(Connect) /\ WF_vars(conn # 0 /\ ~alive[conn] /\ Lose)
  /\ WF_vars(ReceiveOpened) /\ WF_vars(ReceiveRevoked)
  /\ WF_vars(ReceiveVerdict) /\ WF_vars(ReceiveEffect)
  /\ \A c \in Conns :
       /\ WF_vars(OpenSession(c)) /\ WF_vars(FinishOpen(c))
       /\ WF_vars(TakeTransact(c)) /\ WF_vars(BeginDecide(c))
       /\ WF_vars(Decide(c)) /\ WF_vars(Refresh(c))
FairSpec == Spec /\ Fairness

(***************************************************************************)
(* Properties                                                               *)
(***************************************************************************)
Answers == {"none", "accepted", "conflict", "error", "revoked"}

ClientTypes ==
  /\ conn \in 0..made /\ made \in Conns /\ token \in Conns
  /\ phase \in {"offline", "opening", "restoring", "ready", "closed"}
  /\ submitted \in 0..MaxCommits /\ through \in 0..MaxCommits
  /\ caughtUp \in 0..MaxCommits
  /\ outstanding \subseteq 1..submitted /\ replaying \subseteq outstanding
  /\ waiters \subseteq Commits
  /\ told \in [Commits -> Answers]

ServerTypes ==
  /\ alive \in [Conns -> BOOLEAN] /\ handle \in [Conns -> BOOLEAN]
  /\ \A c \in Conns : alive[c] => c <= made
  /\ DOMAIN work = Conns /\ DOMAIN up = Conns /\ DOMAIN down = Conns
  /\ session.owner \in 0..made /\ session.token \in 0..made
  /\ session.marker \in 0..MaxCommits /\ session.owed \in 0..MaxCommits
  /\ applied \in Seq(Commits) /\ overwritten \subseteq Commits

\* The types, and what the names of connections and commits are bounded by.
TypeOK == ClientTypes /\ ServerTypes

\* Whatever is lost, each commit is recorded at most once, and what its
\* caller was told of it stays true: an accepted commit is recorded, a
\* conflicting one never will be.  A replay is answered from the record of
\* the first attempt (engine.ts applyCommit).
Once == INSTANCE OnceSession
ImplementsOnceSession == Once!Spec

\* The durable order of a session's commits is their local order, although
\* commits submitted before, during and after a restore take different ways
\* to the server and two connections may carry the same commit.
RecordedInLocalOrder ==
  \A i, j \in DOMAIN applied : i < j => applied[i] < applied[j]

\* A commit is never refused for want of a session, which its caller would
\* take for a refusal by the space: whoever is told SessionError has been
\* told before that the session is over, or has left.
NoSessionError == \A l \in Commits : told[l] # "error"

\* Every commit is answered in the end.
EveryCommitAnswered ==
  \A l \in Commits : l \in outstanding ~> l \notin outstanding

\* An answered commit does not wait for ever for its catch-up marker: the
\* marker arrives, or the waiter learns that its epoch has ended.
MarkerArrives == \A l \in Commits : l \in waiters ~> l \notin waiters
=============================================================================
