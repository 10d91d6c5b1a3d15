---------------------------- MODULE WatchDelivery ----------------------------
(***************************************************************************)
(* How the commits of a space reach one watching session: the dirty batch   *)
(* and the refresh pass of the memory server, the delivery state it keeps   *)
(* of the session, its rollback and its resumption (memory/v2/server.ts),   *)
(* and the replica that absorbs the frames (runner/src/storage/v2.ts).      *)
(*                                                                          *)
(* A commit writes one document.  A value is the set of the commits that    *)
(* made it: a set keeps itself alone, a patch adds itself to what it found. *)
(* Tokens and takeovers are in SessionProtocol, a session the server forgot *)
(* in WatchReconnect: here every open resumes the session.                  *)
(***************************************************************************)
EXTENDS Integers, Sequences, FiniteSets, FiniteSetsExt, SequencesExt

CONSTANTS Docs,
          Watched,     \* the watches the session may start with
          MaxOwn,      \* bound on the commits of the session
          MaxForeign,  \* bound on the commits of the others
          MaxFaults,   \* bound on the passes that fail
          MaxLosses,   \* bound on the connections lost
          MaxCalls     \* bound on the watch calls

ASSUME BoundsAssumption ==
  /\ Docs # {} /\ IsFiniteSet(Docs) /\ Watched \subseteq SUBSET Docs
  /\ {MaxOwn, MaxForeign, MaxFaults, MaxLosses, MaxCalls} \subseteq Nat

VARIABLES
  log,       \* the durable commits; entry i has the seq i + 1
  due,       \* a refresh of the space is scheduled
  dirty,     \* its dirty documents
  origin,    \* per dirty document, the commit of this session behind it
  pass,      \* the refresh pass: the batch it took, and whether the session
             \* was served
  session,   \* the server's delivery state of the session
  skipped,   \* the last evaluation for the session failed
  link,      \* the connection it is attached to: "live", "dead" or "none"
  up, down,  \* frames in flight
  conn,      \* the client: "up", "down" or "opening"
  wanted,    \* the watches of the client
  call,      \* its watch call in flight
  held,      \* record.confirmed
  delivered, \* #delivered: the seq of the last frame absorbed
  marker,    \* #caughtUpLocalSeq of the client
  mine,      \* its commits, by localSeq
  refused,   \* history: the head over which a commit was first refused, or 0
  faults, losses, calls

dirtyVars  == <<due, dirty, origin>>
serverVars == <<dirtyVars, pass, session, skipped, link>>
clientVars == <<conn, wanted, call, held, delivered, marker, mine>>
bounds     == <<faults, losses, calls>>
vars == <<log, refused, serverVars, up, down, clientVars, bounds>>

Nothing  == -1                     \* a document the delivery state omits
NoOrigin == [seq |-> 0, op |-> "none"]
NoCall   == [op |-> "none"]
NoPass   == [on |-> FALSE, docs |-> {}, origin |-> [d \in Docs |-> NoOrigin], served |-> FALSE]
SpaceSeq     == Len(log) + 1           \* the seq of the space
Larger(a, b) == IF a >= b THEN a ELSE b

\* The head of a document; each is created by the commit 1.
Writes(d) == {i \in DOMAIN log : log[i].doc = d}
HeadSeq(d) == IF Writes(d) = {} THEN 1 ELSE Max(Writes(d)) + 1
Durable(seq) == IF seq <= 1 THEN {} ELSE log[seq - 1].value
Applied(op, base, s) == IF op = "patch" THEN base \union {s} ELSE {s}

Init ==
  /\ log = <<>> /\ refused = [n \in 1..MaxOwn |-> 0]
  /\ due = FALSE /\ dirty = {} /\ origin = [d \in Docs |-> NoOrigin]
  /\ pass = NoPass
  /\ wanted \in Watched
  /\ session = [watches |-> wanted, force |-> FALSE, caught |-> 0, owed |-> 0,
                cached |-> [d \in Docs |-> IF d \in wanted THEN 1 ELSE Nothing]]
  /\ skipped = FALSE /\ link = "live"
  /\ up = <<>> /\ down = <<>>
  /\ conn = "up" /\ call = NoCall
  /\ delivered = [d \in Docs |-> IF d \in wanted THEN 1 ELSE 0]
  /\ held = [d \in Docs |-> [seq |-> delivered[d], value |-> {}]]
  /\ marker = 0 /\ mine = <<>>
  /\ faults = 0 /\ losses = 0 /\ calls = 0

(***************************************************************************)
(* The dirty batch                                                          *)
(***************************************************************************)
\* markSpaceDirty: an origin stands for a document only while every dirtying
\* of it came from this session.
MarkDirty(ds, from) ==
  /\ due' = TRUE
  /\ dirty' = dirty \union ds
  /\ origin' = [d \in Docs |->
       IF d \notin ds THEN origin[d]
       ELSE IF d \in dirty /\ origin[d] = NoOrigin THEN NoOrigin
       ELSE from]

\* #transactCore (a commit of another session) and noteExecutorCommit.  The
\* second takes no lock, so it also falls into a pass; an origin of another
\* session is none for this one.
ForeignCommit(d) ==
  /\ Cardinality({i \in DOMAIN log : log[i].by = 0}) < MaxForeign
  /\ log' = Append(log, [doc |-> d, value |-> {SpaceSeq + 1}, by |-> 0])
  /\ MarkDirty({d}, NoOrigin)
  /\ UNCHANGED <<refused, pass, session, skipped, link, up, down, clientVars, bounds>>

(***************************************************************************)
(* Requests of the client                                                   *)
(***************************************************************************)
\* A send to a socket that died unnoticed vanishes.
Send(frame) == down' = IF link = "live" THEN Append(down, frame) ELSE down
Sync(type, ups, rems, mark) == [type |-> type, ups |-> ups, rems |-> rems, marker |-> mark]
Upserts(ds) == [d \in ds |-> HeadSeq(d)]

Requested(type) == up # <<>> /\ Head(up).type = type /\ up' = Tail(up)
RecordedAt(n) == {i \in DOMAIN log : log[i].by = n}

\* #decideTransaction, under the publication lock of the space: no pass is
\* running.  A commit recorded before is answered as it was; one that read a
\* document since overwritten is refused, and what it names is staged.
ReceiveCommit ==
  /\ ~pass.on /\ Requested("commit")
  /\ LET c   == Head(up)
         new == RecordedAt(c.id) = {}
         ok  == ~new \/ c.op = "patch" \/ c.basis = HeadSeq(c.doc)
         seq == IF new THEN SpaceSeq + 1 ELSE Max(RecordedAt(c.id)) + 1
     IN /\ log' = IF ok /\ new
                  THEN Append(log, [doc |-> c.doc, by |-> c.id,
                         value |-> Applied(c.op, Durable(HeadSeq(c.doc)), seq)])
                  ELSE log
        /\ refused' = IF ok \/ refused[c.id] # 0 THEN refused
                      ELSE [refused EXCEPT ![c.id] = HeadSeq(c.doc)]
        /\ MarkDirty({c.doc}, IF ok THEN [seq |-> seq, op |-> c.op] ELSE NoOrigin)
        /\ session' = [session EXCEPT !.owed = Larger(@, c.id)]
        /\ Send([type |-> "verdict", id |-> c.id, ok |-> ok,
                 seq |-> IF ok THEN seq ELSE HeadSeq(c.doc)])
  /\ UNCHANGED <<pass, skipped, link, clientVars, bounds>>

\* #watchAdd: a watch the session has is answered with an empty sync.
ReceiveAdd ==
  /\ Requested("add")
  /\ LET d   == Head(up).doc
         ups == IF d \in session.watches \/ session.cached[d] = HeadSeq(d) THEN {} ELSE {d}
     IN /\ Send(Sync("added", Upserts(ups), {}, 0))
        /\ session' = IF d \in session.watches THEN session
                      ELSE [session EXCEPT !.watches = @ \union {d},
                                           !.cached[d] = HeadSeq(d)]
  /\ UNCHANGED <<log, refused, dirtyVars, pass, skipped, link, clientVars, bounds>>

\* #watchSet without holdings: the whole union again, and removes for what was
\* cached outside it.
Known == {d \in Docs : session.cached[d] # Nothing}
CachedFor(ws) == [d \in Docs |-> IF d \in ws THEN HeadSeq(d) ELSE Nothing]
ReceiveSet ==
  /\ Requested("set")
  /\ LET ws == Head(up).watches
     IN /\ Send(Sync("replaced", Upserts(ws), Known \ ws, 0))
        /\ session' = [session EXCEPT !.watches = ws, !.cached = CachedFor(ws),
                                      !.force = FALSE]
  /\ UNCHANGED <<log, refused, dirtyVars, pass, skipped, link, clientVars, bounds>>

(***************************************************************************)
(* #syncSessionForConnection                                                *)
(***************************************************************************)
\* The full evaluation, against what the client is known to hold.
Stale(cached, ds) == {d \in ds : cached[d] # HeadSeq(d)}
FullSync(s) ==
  LET known == {d \in Docs : s.cached[d] # Nothing}
  IN [ups |-> Stale(s.cached, s.watches), rems |-> known \ s.watches,
      cached |-> CachedFor(s.watches)]

\* The session provably holds the head: its own set made it.
HeldByWriterAnyHead(from, d) == from[d].op = "set"
HeldByWriter(from, d) == from[d].op = "set" /\ from[d].seq = HeadSeq(d)
DirtySync(s, ds, from) ==
  LET seen == ds \intersect s.watches
  IN [ups |-> {d \in Stale(s.cached, seen) : ~HeldByWriter(from, d)}, rems |-> {},
      cached |-> [d \in Docs |-> IF d \in seen THEN HeadSeq(d) ELSE s.cached[d]]]

\* A session without watches retracts all it knows; a staged marker is
\* consumed into the frame.
Evaluation(full, ds, from) ==
  LET s    == session
      sync == IF full \/ s.watches = {} THEN FullSync(s) ELSE DirtySync(s, ds, from)
      owes == s.owed > s.caught
  IN [ups |-> sync.ups, rems |-> sync.rems, marker |-> IF owes THEN s.owed ELSE 0,
      after |-> [s EXCEPT !.cached = sync.cached, !.force = @ /\ ~full,
                          !.caught = Larger(@, s.owed), !.owed = IF owes THEN 0 ELSE @]]
Empty(e) == e.ups = {} /\ e.rems = {} /\ e.marker = 0

(***************************************************************************)
(* The refresh pass, #refreshLoop and refreshDirty                          *)
(***************************************************************************)
\* It takes the batch under the publication lock, which it keeps to its end.
StartPass ==
  /\ due /\ ~pass.on
  /\ due' = FALSE /\ dirty' = {} /\ origin' = [d \in Docs |-> NoOrigin]
  /\ pass' = [on |-> TRUE, docs |-> dirty, origin |-> origin, served |-> FALSE]
  /\ UNCHANGED <<log, refused, session, skipped, link, up, down, clientVars, bounds>>

\* The evaluation for the session, with its turn in the fan-out taken.
Serving ==
  /\ pass.on /\ ~pass.served /\ link # "none"
  /\ pass' = [pass EXCEPT !.served = TRUE]
ServedBy == Evaluation(session.force, pass.docs, pass.origin)
Fault == faults < MaxFaults /\ faults' = faults + 1

Serve ==
  /\ Serving /\ skipped' = FALSE
  /\ session' = ServedBy.after
  /\ IF Empty(ServedBy) THEN UNCHANGED down
     ELSE Send(Sync("effect", Upserts(ServedBy.ups), ServedBy.rems, ServedBy.marker))
  /\ UNCHANGED <<log, refused, dirtyVars, link, up, clientVars, faults, losses, calls>>

\* The evaluation throws: the frame is skipped, the marker stays staged, and
\* the next evaluation is to be a full one.
EvaluationFailsSilently ==
  /\ Serving /\ Fault /\ skipped' = TRUE
  /\ UNCHANGED <<log, refused, dirtyVars, session, link, up, down, clientVars, losses, calls>>
EvaluationFails ==
  /\ Serving /\ Fault /\ skipped' = TRUE
  /\ session' = [session EXCEPT !.force = TRUE]
  /\ UNCHANGED <<log, refused, dirtyVars, link, up, down, clientVars, losses, calls>>

\* rollbackUndeliveredSync: the delivery state forgets the frame.
RolledBackButMarker(e) ==
  [e.after EXCEPT !.cached = [d \in Docs |-> IF d \in e.ups THEN Nothing
                                             ELSE IF d \in e.rems THEN 0 ELSE @[d]],
                  !.force  = @ \/ e.rems # {}]
RolledBack(e) ==
  LET s == e.after
  IN [s EXCEPT
       !.cached = [d \in Docs |-> IF d \in e.ups THEN Nothing
                                  ELSE IF d \in e.rems THEN 0 ELSE @[d]],
       !.force  = @ \/ e.rems # {},
       !.owed   = Larger(@, e.marker),
       !.caught = IF e.marker > 0 /\ e.marker - 1 < @ THEN e.marker - 1 ELSE @]

\* The frame does not leave: its send throws, or the connection was found
\* closed after the evaluation.
SendFails ==
  /\ Serving /\ ~Empty(ServedBy)
  /\ skipped' = FALSE
  /\ session' = RolledBack(ServedBy)
  /\ MarkDirty(ServedBy.ups \union ServedBy.rems, NoOrigin)
  /\ \/ Fault /\ UNCHANGED link
     \/ link = "dead" /\ link' = "none" /\ UNCHANGED faults
  /\ UNCHANGED <<log, refused, up, down, clientVars, losses, calls>>

EndPass ==
  /\ pass.on /\ (pass.served \/ link = "none")
  /\ pass' = NoPass
  /\ UNCHANGED <<log, refused, dirtyVars, session, skipped, link, up, down, clientVars, bounds>>

\* The fan-out fails, before this session's turn or after it: the batch is
\* merged under what became dirty meanwhile.
FailPass ==
  /\ pass.on /\ Fault
  /\ pass' = NoPass
  /\ due' = TRUE
  /\ dirty' = dirty \union pass.docs
  /\ origin' = [d \in Docs |->
       IF d \notin pass.docs THEN origin[d]
       ELSE IF d \notin dirty THEN pass.origin[d]
       ELSE IF pass.origin[d] = NoOrigin THEN NoOrigin ELSE origin[d]]
  /\ UNCHANGED <<log, refused, session, skipped, link, up, down, clientVars, losses, calls>>

(***************************************************************************)
(* The connection                                                           *)
(***************************************************************************)
Declared(s, holdings) == [s EXCEPT !.cached = holdings, !.force = TRUE]

\* openSession: what the client declares replaces the delivery state, and the
\* answer carries the difference.  A pass may still come to the new
\* connection, or have passed it.
ReceiveOpen ==
  /\ Requested("open")
  /\ LET told == [d \in Docs |-> IF Head(up).holdings[d] > 0
                                 THEN Head(up).holdings[d] ELSE Nothing]
         sync == FullSync(Declared(session, told))
         mark == Larger(session.caught, session.owed)
     IN /\ session' = [session EXCEPT !.cached = sync.cached, !.force = FALSE,
                                      !.caught = mark, !.owed = 0]
        /\ down' = Append(down, Sync("opened", Upserts(sync.ups), sync.rems, mark))
  /\ link' = "live" /\ skipped' = FALSE
  /\ \E served \in BOOLEAN : pass' = [pass EXCEPT !.served = pass.on /\ served]
  /\ UNCHANGED <<log, refused, dirtyVars, clientVars, bounds>>

\* The client finds its connection lost; the server may find out later.
Lose ==
  /\ conn # "down" /\ losses < MaxLosses /\ losses' = losses + 1
  /\ conn' = "down" /\ up' = <<>> /\ down' = <<>> /\ call' = NoCall
  /\ link' = IF link = "live" THEN "dead" ELSE link
  /\ UNCHANGED <<log, refused, dirtyVars, pass, session, skipped, wanted, held, delivered,
                 marker, mine, faults, calls>>
Detach ==
  /\ link = "dead" /\ link' = "none"
  /\ UNCHANGED <<log, refused, dirtyVars, pass, session, skipped, up, down, clientVars, bounds>>

Reconnect ==
  /\ conn = "down" /\ conn' = "opening"
  /\ up' = <<[type |-> "open", holdings |-> delivered]>>
  /\ UNCHANGED <<log, refused, serverVars, down, wanted, call, held, delivered, marker, mine, bounds>>

(***************************************************************************)
(* The replica                                                              *)
(***************************************************************************)
CommitFrame(cs, n) == [type |-> "commit", id |-> n, doc |-> cs[n].doc,
                       op |-> cs[n].op, basis |-> cs[n].basis]

\* A set reads the document it writes, a patch does not.  (A set read from an
\* own layer not yet settled is in OptimisticCommit.)
Commit(d, op) ==
  /\ Len(mine) < MaxOwn /\ d \in wanted
  /\ op = "set" => \A n \in DOMAIN mine : mine[n].doc = d => mine[n].at = "done"
  /\ mine' = Append(mine, [doc |-> d, op |-> op, basis |-> held[d].seq,
                           at |-> "sent", ok |-> FALSE, seq |-> 0])
  /\ up' = IF conn = "up" THEN Append(up, CommitFrame(mine', Len(mine'))) ELSE up
  /\ UNCHANGED <<log, refused, serverVars, down, conn, wanted, call, held, delivered, marker, bounds>>

\* #confirmPending, for the accepted commits ns in their order, each with a seq
\* above the one before: what the record does not hold yet is laid over it, and
\* the last set of it replaces what was below.
Latest(cs, ns) == {n \in ns : \A m \in ns : cs[m].op = "set" => m <= n}
Overlaid(record, cs, ns) ==
  IF ns = {} THEN record
  ELSE [seq   |-> Max({cs[n].seq : n \in ns}),
        value |-> {cs[n].seq : n \in Latest(cs, ns)}
                  \union IF \E n \in ns : cs[n].op = "set" THEN {} ELSE record.value]
PromotedOver(h, cs, ns) ==
  [d \in Docs |-> Overlaid(h[d], cs, {n \in ns : cs[n].doc = d})]
Promoted(h, cs, ns) ==
  [d \in Docs |-> Overlaid(h[d], cs, {n \in ns : cs[n].doc = d /\ h[d].seq < cs[n].seq})]

\* #applySessionSync, then #noteCaughtUpLocalSeq: an upsert never moves a
\* document back; the accepts parked below the marker are promoted in order,
\* and the refused commits below it are free to be tried again.
Absorbed(d, f) == d \in DOMAIN f.ups /\ f.ups[d] >= held[d].seq
HeldAfter(f) == [d \in Docs |->
  IF d \in f.rems THEN [seq |-> 0, value |-> {}]
  ELSE IF Absorbed(d, f) THEN [seq |-> f.ups[d], value |-> Durable(f.ups[d])]
  ELSE held[d]]
DeliveredKept(f) == [d \in Docs |-> IF Absorbed(d, f) THEN f.ups[d] ELSE delivered[d]]
DeliveredAfter(f) == [d \in Docs |->
  IF d \in f.rems THEN 0 ELSE IF Absorbed(d, f) THEN f.ups[d] ELSE delivered[d]]
Covered(mark) == {n \in DOMAIN mine : n <= mark /\ mine[n].at = "parked"}
Absorb(f) ==
  LET mark == Larger(marker, f.marker)
  IN /\ marker' = mark
     /\ held' = Promoted(HeldAfter(f), mine, {n \in Covered(mark) : mine[n].ok})
     /\ delivered' = DeliveredAfter(f)
     /\ mine' = [n \in DOMAIN mine |->
                  IF n \in Covered(mark) THEN [mine[n] EXCEPT !.at = "done"] ELSE mine[n]]

Received == down # <<>> /\ down' = Tail(down)
Effect ==
  /\ Received /\ Head(down).type = "effect"
  /\ Absorb(Head(down))
  /\ UNCHANGED <<log, refused, serverVars, up, conn, wanted, call, bounds>>

\* watchAddSync and watchRemoveSync: a watch added is wanted from the answer
\* on, a watch removed is not from the call on.
Call ==
  /\ conn = "up" /\ call = NoCall /\ calls < MaxCalls /\ calls' = calls + 1
  /\ \/ \E d \in Docs \ wanted :
          /\ call' = [op |-> "add", doc |-> d]
          /\ up' = Append(up, [type |-> "add", doc |-> d])
          /\ UNCHANGED wanted
     \/ \E d \in wanted :
          /\ call' = [op |-> "remove", doc |-> d]
          /\ wanted' = wanted \ {d}
          /\ up' = Append(up, [type |-> "set", watches |-> wanted'])
  /\ UNCHANGED <<log, refused, serverVars, down, conn, held, delivered, marker, mine, faults, losses>>
CallAnswered ==
  /\ Received /\ Head(down).type \in {"added", "replaced"}
  /\ Absorb(Head(down))
  /\ wanted' = IF call.op = "add" THEN wanted \union {call.doc} ELSE wanted
  /\ call' = NoCall
  /\ UNCHANGED <<log, refused, serverVars, up, conn, bounds>>

\* restore: the outstanding commits are sent again in their order (the i-th has
\* i of them up to it), then the sync is absorbed.
Unanswered == {n \in DOMAIN mine : mine[n].at = "sent"}
Outstanding == [i \in 1..Cardinality(Unanswered) |->
  CHOOSE n \in Unanswered : Cardinality({m \in Unanswered : m <= n}) = i]
Restored ==
  /\ Received /\ Head(down).type = "opened"
  /\ conn' = "up"
  /\ up' = up \o [i \in DOMAIN Outstanding |-> CommitFrame(mine, Outstanding[i])]
  /\ Absorb(Head(down))
  /\ UNCHANGED <<log, refused, serverVars, wanted, call, bounds>>

\* A verdict is read at once and its commit settled some microtasks later:
\* further frames may be absorbed between the two.
Verdict ==
  /\ Received /\ Head(down).type = "verdict"
  /\ LET v == Head(down)
     IN mine' = IF mine[v.id].at # "sent" THEN mine
                ELSE [mine EXCEPT ![v.id].at = "answered", ![v.id].ok = v.ok,
                                  ![v.id].seq = v.seq]
  /\ UNCHANGED <<log, refused, serverVars, up, conn, wanted, call, held, delivered, marker, bounds>>
\* An accept is parked, and a refused commit waits for its repair, until the
\* marker is there.
SettleAtVerdict(n) ==
  /\ mine[n].at = "answered"
  /\ mine' = [mine EXCEPT ![n].at = "done"]
  /\ held' = IF mine[n].ok THEN Promoted(held, mine, {n}) ELSE held
  /\ UNCHANGED <<log, refused, serverVars, up, down, conn, wanted, call, delivered, marker, bounds>>
Settle(n) ==
  /\ mine[n].at = "answered"
  /\ \A m \in 1..(n - 1) : mine[m].at # "answered"
  /\ IF n <= marker
     THEN /\ mine' = [mine EXCEPT ![n].at = "done"]
          /\ held' = IF mine[n].ok THEN Promoted(held, mine, {n}) ELSE held
     ELSE mine' = [mine EXCEPT ![n].at = "parked"] /\ UNCHANGED held
  /\ UNCHANGED <<log, refused, serverVars, up, down, conn, wanted, call, delivered, marker, bounds>>

\* #waitForConflictReadRepair: the wait for the repair has an end.
RepairTimesOut(n) ==
  /\ mine[n].at = "parked" /\ ~mine[n].ok
  /\ mine' = [mine EXCEPT ![n].at = "done"]
  /\ UNCHANGED <<log, refused, serverVars, up, down, conn, wanted, call, held, delivered,
                 marker, bounds>>

Resolve(n) == Settle(n) \/ RepairTimesOut(n)

(***************************************************************************)
(* The specification                                                        *)
(***************************************************************************)
ServerStep ==
  \/ ReceiveCommit \/ ReceiveAdd \/ ReceiveSet \/ ReceiveOpen
Next ==
  \/ \E d \in Docs : ForeignCommit(d) \/ \E op \in {"set", "patch"} : Commit(d, op)
  \/ ServerStep
  \/ StartPass \/ Serve \/ EvaluationFails \/ SendFails \/ EndPass \/ FailPass
  \/ Lose \/ Detach \/ Reconnect \/ Call
  \/ Effect \/ CallAnswered \/ Restored \/ Verdict
  \/ \E n \in DOMAIN mine : Resolve(n)

Spec == Init /\ [][Next]_vars

(***************************************************************************)
(* Properties                                                               *)
(***************************************************************************)
\* The delivery state names only heads that were, and the replica claims to
\* the server only what a frame brought.
TypeOK ==
  /\ session.watches \subseteq Docs /\ wanted \subseteq Docs
  /\ \A d \in Docs : session.cached[d] \in Nothing..SpaceSeq /\ held[d].seq \in 0..SpaceSeq
                  /\ delivered[d] \in 0..held[d].seq
  /\ session.caught \in 0..Len(mine) /\ session.owed \in 0..Len(mine)
  /\ marker \in 0..Len(mine)
  /\ dirty \subseteq Docs /\ pass.docs \subseteq Docs
  /\ link \in {"live", "dead", "none"} /\ conn \in {"up", "down", "opening"}
  /\ {mine[n].at : n \in DOMAIN mine} \subseteq {"sent", "answered", "parked", "done"}

\* Nothing is under way between the client and the server.
Quiet ==
  /\ conn = "up" /\ call = NoCall /\ up = <<>> /\ down = <<>>
  /\ ~due /\ ~pass.on
  /\ \A n \in DOMAIN mine : mine[n].at \notin {"sent", "answered"}

Agrees(d) == held[d].value = Durable(HeadSeq(d)) /\ held[d].seq = HeadSeq(d)

\* When nothing is under way, a watched document is at its head in the
\* replica: no failed pass, lost frame, elided write or change of watches has
\* dropped an update.  The session marked for a full evaluation waits for it.
QuietReplicaAgrees ==
  Quiet /\ ~session.force => \A d \in wanted : Agrees(d)

\* Nor is a commit of the session left unsettled then: no marker that covers
\* one was lost with its frame, unless the last evaluation failed.
QuietCommitsSettled ==
  Quiet /\ ~skipped => \A n \in DOMAIN mine : mine[n].at = "done"

\* The value a replica holds of a watched document at a seq is the one the
\* space recorded at that seq, whether a frame brought it or an own write was
\* promoted over what the replica held.
HeldIsDurable == \A d \in wanted : held[d].value = Durable(held[d].seq)

\* A refused commit is tried again only on a replica that has reached the head
\* over which it was refused, unless the wait for its repair timed out.  (One
\* that is sent again and refused anew over a later write is freed by the
\* marker of its first refusal.)
FreedOver(n) ==
  /\ mine[n].at # "done" /\ mine'[n].at = "done"
  /\ ~mine[n].ok /\ mine[n].doc \in wanted
RetryMovesOn ==
  [][\A n \in DOMAIN mine : FreedOver(n) =>
       RepairTimesOut(n) \/ held'[mine[n].doc].seq >= refused[n]]_vars

=============================================================================
