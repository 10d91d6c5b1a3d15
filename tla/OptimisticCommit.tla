-------------------------- MODULE OptimisticCommit --------------------------
(***************************************************************************)
(* Optimistic commits of a memory space: the replicas of                    *)
(* runner/src/storage/v2.ts, which apply a commit locally before the server *)
(* has decided it, the admission of memory/v2/engine.ts, and the verdicts   *)
(* and sync frames by which memory/v2/server.ts answers.                    *)
(*                                                                          *)
(* A document is a record of fields.  A commit carries one operation and at *)
(* most one read: of a field, or of the whole document.  `set` replaces the *)
(* document, `put` patches one field, `add` is a mergeable increment.  Seqs *)
(* are counted from the snapshot at which the watches were opened, so a     *)
(* watched document starts confirmed at 0 and an unwatched one at Unseen.   *)
(* One session per client, whose connection is never lost.                  *)
(***************************************************************************)
EXTENDS Integers, Sequences, FiniteSets, SequencesExt

CONSTANTS Client, Doc, Field,
          Tx,        \* Tx[c]: the transactions c may run, as [op, read]
          Watched,   \* Watched[c]: the documents the view of c covers
          MaxLocal,  \* MaxLocal[c]: bound on the commits of c
          None

ASSUME ConstantsAssumption ==
  /\ None \notin Doc
  /\ \A c \in Client : Watched[c] \subseteq Doc /\ MaxLocal[c] \in Nat

\* An operation writes one document, and a read is of fields of one or none.
ASSUME TransactionsAssumption ==
  \A c \in Client : \A tx \in Tx[c] :
    /\ tx.op.doc \in Doc
    /\ tx.op.kind \in {"set", "put", "add"}
    /\ tx.read.fields \subseteq Field
    /\ \/ tx.read.doc \in Doc
       \/ tx.read.doc = None /\ tx.read.fields = {}

VARIABLES
  log,        \* engine: the accepted commits in seq order, each with the
              \* documents as it left them
  toServer,   \* toServer[c]: transact requests in flight
  toClient,   \* toClient[c]: verdicts and sync frames in flight
  dirty,      \* server: documents dirtied since the last flush
  origin,     \* server: origin[d], the one accepted commit d is dirty from
  scheduled,  \* server: a flush is due
  flushed,    \* server: head seq at the last flush, the seq of every cache
  owed,       \* owed[c]: session.pendingCaughtUpLocalSeq
  confirmed,  \* replica: confirmed[c][d], the base of d
  pending,    \* replica: pending[c][l], the optimistic layer of commit l
  caughtUp,   \* replica: caughtUp[c], the last marker noted
  fate        \* fate[c][l]: what the caller of commit l was told

serverVars  == <<log, dirty, origin, scheduled, flushed, owed>>
replicaVars == <<confirmed, pending, caughtUp, fate>>
vars == <<serverVars, replicaVars, toServer, toClient>>

Unseen == -1
Zero == [f \in Field |-> 0]
NoRead == [doc |-> None, fields |-> {}]
NoGate == [marker |-> 0, drops |-> {}, seq |-> 0]

\* What is left of a layer that was promoted or dropped.
Gone == [commit |-> None, status |-> "gone", seq |-> 0, gate |-> NoGate]

(***************************************************************************)
(* Documents                                                                *)
(***************************************************************************)
Apply(value, op) ==
  CASE op.kind = "set" -> [f \in Field |-> op.val]
    [] op.kind = "put" -> [value EXCEPT ![op.field] = op.val]
    [] op.kind = "add" -> [value EXCEPT ![op.field] = @ + op.val]

\* A set is path-blind: it conflicts with every read of its document.
Overlaps(op, read) ==
  /\ op.doc = read.doc
  /\ read.fields # {}
  /\ op.kind = "set" \/ op.field \in read.fields

\* The counted operations of a sequence of commits, replayed in order.
Replay(value, entries, counted) ==
  FoldLeftDomain(LAMBDA v, i : IF i \in counted THEN Apply(v, entries[i].commit.op)
                               ELSE v,
                 value, entries)

Part(value, fields) == [f \in fields |-> value[f]]

(***************************************************************************)
(* Engine                                                                   *)
(***************************************************************************)
HeadSeq == Len(log)

Wrote(s, d) == ~log[s].elided /\ log[s].commit.op.doc = d

DocAt(d, s) == IF s \in 1..HeadSeq THEN log[s].content[d] ELSE Zero

Stored(d) == DocAt(d, HeadSeq)

\* The seq of the last revision of d.
DocSeq(d) ==
  CHOOSE s \in 0..HeadSeq :
    /\ s = 0 \/ Wrote(s, d)
    /\ \A t \in (s + 1)..HeadSeq : ~Wrote(t, d)

IsRow(s, c, l) == log[s].client = c /\ log[s].commit.localSeq = l

Accepted(c, l) == \E s \in 1..HeadSeq : IsRow(s, c, l)

(* MUTANT: only the top layer of the stack has to be accepted. *)
ResolvedAtTop(c, commit) ==
  \A l \in commit.layers : Accepted(c, l) \/ \E m \in commit.layers : m > l

Resolved(c, commit) == \A l \in commit.layers : Accepted(c, l)

(* MUTANT: the scan of a stacked read starts at its newest layer. *)
StaleAfterTop(c, commit) ==
  \E s \in (commit.basis + 1)..HeadSeq :
    /\ ~log[s].elided
    /\ Overlaps(log[s].commit.op, commit.read)
    /\ \A r \in s..HeadSeq : \A l \in commit.layers : ~IsRow(r, c, l)

\* The scan of (basis, head], without the own layers the read names.  A
\* document never seen is there already, written below the first seq.
Stale(c, commit) ==
  /\ commit.read.fields # {}
  /\ commit.basis # Unseen =>
       \E s \in (commit.basis + 1)..HeadSeq :
         /\ ~log[s].elided
         /\ Overlaps(log[s].commit.op, commit.read)
         /\ \A l \in commit.layers : ~IsRow(s, c, l)

\* The document as the reader saw it, which is what it wrote against.
BasisOf(c, commit) ==
  LET d == commit.op.doc IN
  IF commit.read.doc # d THEN Stored(d)
  ELSE Replay(DocAt(d, commit.basis), log,
              {s \in 1..HeadSeq : /\ log[s].client = c
                                  /\ log[s].commit.localSeq \in commit.layers
                                  /\ log[s].commit.op.doc = d})

IsIdentityCommit(c, commit) ==
  LET op == commit.op IN
  /\ Apply(BasisOf(c, commit), op) = Stored(op.doc)
  /\ Apply(Stored(op.doc), op) = Stored(op.doc)

(***************************************************************************)
(* Server: transact and the batched flush, both under the publication lock  *)
(***************************************************************************)
(* MUTANT: a flush is scheduled only when a document turned dirty. *)
MarkDirtyWithoutPass(docs, from) ==
  /\ dirty' = dirty \cup docs
  /\ origin' = [d \in Doc |-> IF d \in docs THEN from ELSE origin[d]]
  /\ scheduled' = (scheduled \/ docs # {})

\* Documents dirtied without an origin, or from two origins, lose it.
MarkDirty(docs, from) ==
  /\ dirty' = dirty \cup docs
  /\ origin' = [d \in Doc |->
       IF d \notin docs THEN origin[d]
       ELSE IF from = None THEN None
       ELSE IF d \in dirty /\ (origin[d] = None \/ origin[d].client # from.client)
       THEN None
       ELSE from]
  /\ scheduled' = TRUE

Accept(c, commit, elided) ==
  /\ log' = Append(log, [client |-> c, commit |-> commit, elided |-> elided,
                         content |-> [d \in Doc |->
                           IF ~elided /\ d = commit.op.doc
                           THEN Apply(Stored(d), commit.op) ELSE Stored(d)]])
  /\ IF elided THEN MarkDirty({}, None)
     ELSE MarkDirty({commit.op.doc}, [client |-> c, seq |-> Len(log'),
                                      patch |-> commit.op.kind # "set"])
  /\ toClient' = [toClient EXCEPT ![c] =
       Append(@, [type |-> "accept", localSeq |-> commit.localSeq,
                  seq |-> Len(log')])]

\* stageConflictRefreshDirtyIds and the retryable ConflictError.
Refuse(c, commit) ==
  /\ MarkDirty({commit.op.doc} \cup ({commit.read.doc} \ {None}), None)
  /\ toClient' = [toClient EXCEPT ![c] =
       Append(@, [type |-> "reject", localSeq |-> commit.localSeq,
                  seq |-> HeadSeq])]
  /\ UNCHANGED log

Transact(c) ==
  /\ toServer[c] # <<>>
  /\ toServer' = [toServer EXCEPT ![c] = Tail(@)]
  /\ LET commit == Head(toServer[c]) IN
     /\ \/ /\ Resolved(c, commit)
           /\ ~Stale(c, commit)
           /\ Accept(c, commit, FALSE)
        \/ /\ Resolved(c, commit)
           /\ Stale(c, commit)
           /\ IsIdentityCommit(c, commit)
           /\ Accept(c, commit, TRUE)
        \/ /\ ~Resolved(c, commit) \/ Stale(c, commit)
           /\ ~(Resolved(c, commit) /\ IsIdentityCommit(c, commit))
           /\ Refuse(c, commit)
     /\ owed' = [owed EXCEPT ![c] = commit.localSeq]
  /\ UNCHANGED <<flushed, replicaVars>>

(* MUTANT: a set head is held from everyone, not only from its writer. *)
HeldByAnyone(c, d) ==
  origin[d] # None /\ origin[d].seq = DocSeq(d) /\ ~origin[d].patch

\* The writer holds its own set; a patched head is echoed in full.
Held(c, d) ==
  /\ origin[d] # None
  /\ origin[d].client = c
  /\ origin[d].seq = DocSeq(d)
  /\ ~origin[d].patch

Upserts(c) ==
  {[doc |-> d, seq |-> DocSeq(d), value |-> Stored(d)] :
     d \in {e \in Watched[c] \cap dirty : DocSeq(e) > flushed /\ ~Held(c, e)}}

Frame(c) == [type |-> "sync", upserts |-> Upserts(c), marker |-> owed[c]]

Flush ==
  /\ scheduled
  /\ toClient' = [c \in Client |->
       IF Upserts(c) = {} /\ owed[c] = 0 THEN toClient[c]
       ELSE Append(toClient[c], Frame(c))]
  /\ owed' = [c \in Client |-> 0]
  /\ dirty' = {}
  /\ origin' = [d \in Doc |-> None]
  /\ flushed' = HeadSeq
  /\ scheduled' = FALSE
  /\ UNCHANGED <<log, toServer, replicaVars>>

(***************************************************************************)
(* Replica                                                                  *)
(***************************************************************************)
WithStatus(c, statuses) == {l \in DOMAIN pending[c] : pending[c][l].status \in statuses}

Standing(c) == {l \in DOMAIN pending[c] : pending[c][l].status # "gone"}

LayersOn(c, d) == {l \in Standing(c) : pending[c][l].commit.op.doc = d}

View(c, d) == Replay(confirmed[c][d].value, pending[c], LayersOn(c, d))

RejectedLayers(c) == WithStatus(c, {"repairing"})

NextLocal(c) == Len(fate[c]) + 1

\* buildReads: every standing layer of the document, over its confirmed seq.
Built(c, op, read) ==
  [localSeq |-> NextLocal(c), op |-> op, read |-> read,
   layers |-> IF read.fields = {} THEN {} ELSE LayersOn(c, read.doc),
   basis |-> IF read.fields = {} THEN 0 ELSE confirmed[c][read.doc].seq,
   saw |-> IF read.fields = {} THEN <<>>
           ELSE Part(View(c, read.doc), read.fields)]

Repairing(p, gate) == [p EXCEPT !.status = "repairing", !.gate = gate]

\* A commit read through a layer whose rejection is known: sealed unsent.
DeadGate(c, commit) ==
  [NoGate EXCEPT !.drops = commit.layers \cap RejectedLayers(c)]

\* commitOperations and the first pre-send check of pushCommit.  A patch is a
\* diff against a base the replica has.
Commit(c, tx) ==
  /\ NextLocal(c) <= MaxLocal[c]
  /\ tx.op.kind = "put" => confirmed[c][tx.op.doc].seq # Unseen
  /\ LET commit == Built(c, tx.op, tx.read)
         entry == [commit |-> commit, status |-> "queued", seq |-> 0,
                   gate |-> NoGate]
         dead == commit.layers \cap RejectedLayers(c) # {}
     IN  /\ pending' = [pending EXCEPT ![c] = Append(@,
              IF dead THEN Repairing(entry, DeadGate(c, commit)) ELSE entry)]
         /\ fate' = [fate EXCEPT ![c] =
              Append(@, IF dead THEN "rejected" ELSE "open")]
  /\ UNCHANGED <<serverVars, toServer, toClient, confirmed, caughtUp>>

Unsent(c) == WithStatus(c, {"queued", "doomed"})

\* The session handle resolves in queue order; the second pre-send check.
Send(c) ==
  \E l \in Unsent(c) :
    /\ \A m \in Unsent(c) : l <= m
    /\ LET p == pending[c][l]
           sealed == \/ p.status = "doomed"
                     \/ p.commit.layers \cap RejectedLayers(c) # {}
           gate == IF p.status = "doomed" THEN NoGate ELSE DeadGate(c, p.commit)
       IN  IF sealed
           THEN /\ pending' = [pending EXCEPT ![c][l] = Repairing(p, gate)]
                /\ fate' = [fate EXCEPT ![c][l] = "rejected"]
                /\ UNCHANGED toServer
           ELSE /\ pending' = [pending EXCEPT ![c][l].status = "sent"]
                /\ toServer' = [toServer EXCEPT ![c] = Append(@, p.commit)]
                /\ UNCHANGED fate
    /\ UNCHANGED <<serverVars, toClient, confirmed, caughtUp>>

\* A dropped layer dooms what read through it: commits not yet sent at their
\* next check, commits in flight by their local rejection.
Cascaded(l, p) ==
  CASE p.status = "queued" /\ l \in p.commit.layers -> [p EXCEPT !.status = "doomed"]
    [] p.status = "sent" /\ l \in p.commit.layers -> Repairing(p, NoGate)
    [] OTHER -> p

\* dropPending and cascadeDroppedDependency.
Drop(c, l) ==
  /\ pending' = [pending EXCEPT ![c] =
       [m \in DOMAIN @ |-> IF m = l THEN Gone ELSE Cascaded(l, @[m])]]
  /\ fate' = [fate EXCEPT ![c] =
       [m \in DOMAIN @ |->
          IF m \in WithStatus(c, {"sent"}) /\ l \in pending[c][m].commit.layers
          THEN "rejected" ELSE @[m]]]
  /\ UNCHANGED <<serverVars, toServer, toClient, confirmed, caughtUp>>

(* MUTANT: the repair does not wait for the marker. *)
RepairedAtOnce(c, p) == p.gate.drops \cap Standing(c) = {}

Repaired(c, p) ==
  /\ caughtUp[c] >= p.gate.marker
  /\ p.gate.drops \cap Standing(c) = {}

FinishRejection(c) ==
  \E l \in RejectedLayers(c) : Repaired(c, pending[c][l]) /\ Drop(c, l)

\* CONFLICT_READ_REPAIR_TIMEOUT_MS passes before the marker arrives.
RepairTimeout(c) ==
  \E l \in RejectedLayers(c) : ~Repaired(c, pending[c][l]) /\ Drop(c, l)

(* MUTANTS: promotion is left to the frames; it records the next seq. *)
PromoteByFrame(bases, p) == bases

PromotePast(bases, p) ==
  [bases EXCEPT ![p.commit.op.doc] =
     [seq |-> p.seq + 1, value |-> Apply(@.value, p.commit.op)]]

\* confirmPending: the accepted operation over the base, at its seq.
Promote(bases, p) ==
  LET d == p.commit.op.doc IN
  IF bases[d].seq >= p.seq THEN bases
  ELSE [bases EXCEPT ![d] = [seq |-> p.seq, value |-> Apply(@.value, p.commit.op)]]

Parkable(c) == Watched[c] # {}

(* MUTANT: an accept is promoted at its verdict, before its marker. *)
ReceiveAcceptUnparked(c, l, seq) ==
  /\ fate' = [fate EXCEPT ![c][l] = "accepted"]
  /\ confirmed' = [confirmed EXCEPT ![c] =
       Promote(@, [pending[c][l] EXCEPT !.seq = seq])]
  /\ pending' = [pending EXCEPT ![c][l] = Gone]
  /\ UNCHANGED caughtUp

\* settleAccept.
ReceiveAccept(c, l, seq) ==
  LET p == [pending[c][l] EXCEPT !.status = "parked", !.seq = seq] IN
  /\ fate' = [fate EXCEPT ![c][l] = "accepted"]
  /\ IF Parkable(c) /\ caughtUp[c] < l
     THEN /\ pending' = [pending EXCEPT ![c][l] = p]
          /\ UNCHANGED confirmed
     ELSE /\ confirmed' = [confirmed EXCEPT ![c] = Promote(@, p)]
          /\ pending' = [pending EXCEPT ![c][l] = Gone]
  /\ UNCHANGED caughtUp

ReceiveReject(c, l, seq) ==
  /\ fate' = [fate EXCEPT ![c][l] = "rejected"]
  /\ pending' = [pending EXCEPT ![c][l] =
       Repairing(@, [NoGate EXCEPT !.marker = l, !.seq = seq])]
  /\ UNCHANGED <<confirmed, caughtUp>>

\* A verdict that a local rejection outran is discarded.
ReceiveVerdict(c, m) ==
  IF pending[c][m.localSeq].status # "sent" THEN UNCHANGED replicaVars
  ELSE IF m.type = "accept" THEN ReceiveAccept(c, m.localSeq, m.seq)
  ELSE ReceiveReject(c, m.localSeq, m.seq)

\* The base of d after the upserts of a frame: never moved backwards.
Integrated(c, d, upserts) ==
  LET newer == {u \in upserts : u.doc = d /\ u.seq >= confirmed[c][d].seq} IN
  IF newer = {} THEN confirmed[c][d]
  ELSE LET u == CHOOSE u \in newer : TRUE IN [seq |-> u.seq, value |-> u.value]

\* applySessionSyncFrame, then noteCaughtUpLocalSeq.
ReceiveSync(c, m) ==
  IF ~Parkable(c)
  THEN UNCHANGED replicaVars
  ELSE LET caught == IF m.marker > caughtUp[c] THEN m.marker ELSE caughtUp[c]
           isDue(p) == p.status = "parked" /\ p.commit.localSeq <= caught
           bases == [d \in Doc |-> Integrated(c, d, m.upserts)]
       IN  /\ caughtUp' = [caughtUp EXCEPT ![c] = caught]
           /\ confirmed' = [confirmed EXCEPT ![c] =
                FoldLeft(LAMBDA b, p : IF isDue(p) THEN Promote(b, p) ELSE b,
                         bases, pending[c])]
           /\ pending' = [pending EXCEPT ![c] =
                [l \in DOMAIN @ |-> IF isDue(@[l]) THEN Gone ELSE @[l]]]
           /\ UNCHANGED fate

Receive(c) ==
  /\ toClient[c] # <<>>
  /\ toClient' = [toClient EXCEPT ![c] = Tail(@)]
  /\ LET m == Head(toClient[c]) IN
     IF m.type = "sync" THEN ReceiveSync(c, m) ELSE ReceiveVerdict(c, m)
  /\ UNCHANGED <<serverVars, toServer>>

(***************************************************************************)
(* Specification                                                            *)
(***************************************************************************)
Init ==
  /\ log = <<>>
  /\ toServer = [c \in Client |-> <<>>]
  /\ toClient = [c \in Client |-> <<>>]
  /\ dirty = {}
  /\ origin = [d \in Doc |-> None]
  /\ scheduled = FALSE
  /\ flushed = 0
  /\ owed = [c \in Client |-> 0]
  /\ confirmed = [c \in Client |-> [d \in Doc |->
       [seq |-> IF d \in Watched[c] THEN 0 ELSE Unseen, value |-> Zero]]]
  /\ pending = [c \in Client |-> <<>>]
  /\ caughtUp = [c \in Client |-> 0]
  /\ fate = [c \in Client |-> <<>>]

Next ==
  \/ \E c \in Client : \E tx \in Tx[c] : Commit(c, tx)
  \/ \E c \in Client : Send(c)
  \/ \E c \in Client : Transact(c)
  \/ \E c \in Client : Receive(c)
  \/ \E c \in Client : FinishRejection(c)
  \/ \E c \in Client : RepairTimeout(c)
  \/ Flush

Spec == Init /\ [][Next]_vars

\* Queues drain and a scheduled flush runs; nobody has to commit, and no
\* repair has to time out.
Fairness ==
  /\ \A c \in Client : /\ WF_vars(Send(c))
                       /\ WF_vars(Transact(c))
                       /\ WF_vars(Receive(c))
                       /\ WF_vars(FinishRejection(c))
  /\ WF_vars(Flush)

LiveSpec == Spec /\ Fairness

(***************************************************************************)
(* Properties                                                               *)
(***************************************************************************)
Status == {"queued", "doomed", "sent", "parked", "repairing", "gone"}

\* Queues, layers and fates have their shapes, one fate for each layer.
TypeOK ==
  /\ dirty \subseteq Doc
  /\ scheduled \in BOOLEAN
  /\ flushed \in 0..HeadSeq
  /\ \A c \in Client :
       /\ owed[c] \in 0..MaxLocal[c]
       /\ caughtUp[c] \in 0..MaxLocal[c]
       /\ fate[c] \in Seq({"open", "accepted", "rejected"})
       /\ \A d \in Doc : confirmed[c][d].seq \in -1..HeadSeq
       /\ DOMAIN pending[c] = DOMAIN fate[c]
       /\ \A l \in DOMAIN pending[c] : pending[c][l].status \in Status
       /\ \A l \in Standing(c) : pending[c][l].commit.localSeq = l

\* INV-1, read coherence: a commit that wrote was admitted on exactly what
\* the space held when it was admitted, whatever stack of its own layers and
\* whatever base its replica read it through.
ReadCoherence ==
  \A s \in 1..HeadSeq :
    LET commit == log[s].commit IN
    ~log[s].elided /\ commit.read.fields # {} =>
      commit.saw = Part(DocAt(commit.read.doc, s - 1), commit.read.fields)

\* The base of a watched document is the document the space held at the seq
\* it is recorded under: promotion, echo suppression and frames agree.
BaseIsDurable ==
  \A c \in Client : \A d \in Watched[c] :
    confirmed[c][d].value = DocAt(d, confirmed[c][d].seq)

\* A commit whose caller was told it failed is not in the log and never gets
\* there, and one whose caller was told it succeeded is (suppressLateVerdict
\* calls a late accept impossible).
FatesAgree ==
  \A c \in Client : \A l \in 1..Len(fate[c]) :
    /\ fate[c][l] = "accepted" => Accepted(c, l)
    /\ fate[c][l] = "rejected" => ~Accepted(c, l)

\* An accepted write never leaves its writer's view: it stands as a layer
\* until the base of its document is at least as new.
OwnWriteStays ==
  \A c \in Client : \A s \in 1..HeadSeq :
    LET commit == log[s].commit IN
    log[s].client = c /\ fate[c][commit.localSeq] = "accepted" =>
      \/ commit.localSeq \in Standing(c)
      \/ confirmed[c][commit.op.doc].seq >= s

\* A rejection whose repair gate opened is retried on a base that no longer
\* lacks what refused it: the base of the watched document it read is as new
\* as every revision the server had when it refused.
RepairedBaseIsFresh ==
  \A c \in Client : \A l \in RejectedLayers(c) :
    LET p == pending[c][l]
        d == p.commit.read.doc
    IN  p.gate.marker > 0 /\ Repaired(c, p) /\ d \in Watched[c] =>
          \A s \in 1..p.gate.seq : Wrote(s, d) => confirmed[c][d].seq >= s

Quiet(c) ==
  /\ toServer[c] = <<>> /\ toClient[c] = <<>> /\ Standing(c) = {}
  /\ ~scheduled

\* When nothing is queued, pending or due, a replica shows what the space holds.
QuietReplicasAgree ==
  \A c \in Client : \A d \in Watched[c] : Quiet(c) => View(c, d) = Stored(d)

Undecided(c) ==
  {l \in WithStatus(c, {"queued", "doomed", "sent"}) : ~Accepted(c, l)}

Serial == INSTANCE SerialSpace WITH
  Outcome <- Apply,
  content <- [d \in Doc |-> Stored(d)],
  open <- UNION {{[client |-> c, commit |-> pending[c][l].commit] :
                    l \in Undecided(c)} : c \in Client},
  committed <- {<<log[s].client, log[s].commit.localSeq>> : s \in 1..HeadSeq},
  aborted <- UNION {{<<c, l>> : l \in {m \in 1..Len(fate[c]) :
                                        fate[c][m] = "rejected"}} : c \in Client}

\* Seen through what the space holds and what callers are told, the protocol
\* is SerialSpace: optimism, stacking, cascades and identity commits leave
\* every transaction decided once, at an instant its observation was current.
ImplementsSerialSpace == Serial!Spec

\* Every commit settles: its layer goes, by promotion or by drop, without
\* the repair timeout ever being needed.
CommitsSettle ==
  \A c \in Client : <>[](Standing(c) = {})
=============================================================================
