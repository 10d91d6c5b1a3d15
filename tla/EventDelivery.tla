---------------------------- MODULE EventDelivery ----------------------------
(***************************************************************************)
(* An event from the click to its last consequence: the queue of the client *)
(* (runner/src/storage/event-append-queue.ts), the stream it is appended to, *)
(* the waves that process it, the outbox of the appends a handler makes to  *)
(* the stream of another space (runner/src/executor/outbox.ts and            *)
(* memory/v2/execution-outbox.ts), and that stream.                         *)
(*                                                                          *)
(* One client fires at one stream; every handler of it makes one append to  *)
(* one stream of another space, with the id of its event.  Leases and the   *)
(* fence of a wave are in ExecutionLease, the replay of a commit on the     *)
(* same session in SessionProtocol.                                         *)
(***************************************************************************)
EXTENDS EventStream

CONSTANTS MaxFires,    \* bound on the events
          MaxLosses,   \* bound on the attempts that end without an answer
          MaxTenures,  \* bound on the serving tenures
          MaxFaults,   \* bound on the deliveries that fail in transport
          Refused,     \* the events whose append the target refuses for good
          Lapses       \* a tenure may end with its process still running

ASSUME BoundsAssumption ==
  /\ {MaxFires, MaxLosses, MaxTenures, MaxFaults} \subseteq Nat
  /\ Refused \subseteq 1..MaxFires /\ Lapses \in BOOLEAN

VARIABLES
  fired,    \* the number of events fired
  queue,    \* #queue of the client
  attempt,  \* the append commit it awaits
  told,     \* per event, what its outcome promise resolved with
  unfit,    \* the events whose append breaks a rule of the server
  dropped,  \* history: the events dropped from the queue as refused
  issued,   \* a write was issued on the route of the replica
  swapped,  \* the provisional replica was replaced
  allowed,  \* the ACL lets the client append
  source,   \* the stream of the space
  target,   \* the stream of the other space
  holder,   \* the tenure that serves the space, 0 for none
  tenures,  \* the tenures there have been
  drains,   \* per tenure, the rows its drain still has to deliver
  owed,     \* #outboxDrainOwed of the serving tenure
  outbox,   \* execution_outbox: row id and event
  noticed,  \* the events whose entry carries a failure notice
  losses, faults

clientVars == <<fired, queue, attempt, told, unfit, dropped, issued, swapped>>
serverVars == <<holder, tenures, drains, owed, outbox, noticed, faults>>
vars == <<clientVars, allowed, source, target, serverVars, losses>>

Events  == 1..MaxFires
Tenures == 1..MaxTenures
NoAttempt == [id |-> 0, at |-> "none"]
Idle == [rows |-> {}, at |-> "send"]

Init ==
  /\ fired = 0 /\ queue = <<>> /\ attempt = NoAttempt
  /\ told = [e \in Events |-> "pending"] /\ unfit = {} /\ dropped = {}
  /\ issued = FALSE /\ swapped = FALSE /\ allowed = TRUE
  /\ source = EmptyStream /\ target = EmptyStream
  /\ holder = 0 /\ tenures = 0 /\ drains = [t \in Tenures |-> Idle] /\ owed = FALSE
  /\ outbox = {} /\ noticed = {}
  /\ losses = 0 /\ faults = 0

(***************************************************************************)
(* The client                                                               *)
(***************************************************************************)
Fire ==
  /\ fired < MaxFires
  /\ fired' = fired + 1
  /\ queue' = Append(queue, fired + 1)
  /\ unfit' \in {unfit, unfit \union {fired + 1}}
  /\ UNCHANGED <<attempt, told, dropped, issued, swapped, allowed, source, target,
                 serverVars, losses>>

\* The earliest entry of the stream is sent, as a new commit each time.
Send ==
  /\ attempt = NoAttempt /\ queue # <<>>
  /\ attempt' = [id |-> Head(queue), at |-> "sent"]
  /\ issued' = TRUE
  /\ UNCHANGED <<fired, queue, told, unfit, dropped, swapped, allowed, source, target,
                 serverVars, losses>>

\* A provisional replica is replaced only while no write was issued on its
\* route.  The successor loads the queue the store has kept; the promises of
\* the predecessor are settled as if refused.
Replace ==
  /\ ~issued /\ ~swapped /\ queue # <<>>
  /\ swapped' = TRUE
  /\ told' = [e \in Events |-> IF e <= fired THEN "closed" ELSE told[e]]
  /\ UNCHANGED <<fired, queue, attempt, unfit, dropped, issued, allowed, source, target,
                 serverVars, losses>>

\* The server authorizes the request before it looks at the stream; an append
\* that breaks a rule is refused each time, and never enters the stream.
Admit ==
  /\ attempt.at = "sent"
  /\ LET answer == IF ~allowed \/ attempt.id \in unfit THEN "refused"
                   ELSE IF Duplicate(source, attempt.id) THEN "duplicate" ELSE "ok"
     IN /\ attempt' = [attempt EXCEPT !.at = answer]
        /\ source' = IF answer = "ok" THEN Admitted(source, attempt.id) ELSE source
  /\ UNCHANGED <<fired, queue, told, unfit, dropped, issued, swapped, allowed, target,
                 serverVars, losses>>

\* The session is replaced under an attempt: it is tried again, whether it
\* had been admitted or not.
LoseRequeued ==
  /\ attempt # NoAttempt /\ losses < MaxLosses
  /\ losses' = losses + 1
  /\ attempt' = NoAttempt /\ queue' = Append(Tail(queue), Head(queue))
  /\ UNCHANGED <<fired, told, unfit, dropped, issued, swapped, allowed, source, target,
                 serverVars>>
Lose ==
  /\ attempt # NoAttempt /\ losses < MaxLosses
  /\ losses' = losses + 1
  /\ attempt' = NoAttempt
  /\ UNCHANGED <<fired, queue, told, unfit, dropped, issued, swapped, allowed, source, target,
                 serverVars>>

\* A duplicate is a delivery; a refusal drops the entry, and the queue goes on.
Settle ==
  /\ attempt.at \in {"ok", "duplicate", "refused"}
  /\ queue' = Tail(queue)
  /\ dropped' = IF attempt.at = "refused" THEN dropped \union {attempt.id} ELSE dropped
  /\ told' = IF told[attempt.id] = "closed" THEN told
             ELSE [told EXCEPT ![attempt.id] =
                     IF attempt.at = "refused" THEN "refused" ELSE "delivered"]
  /\ attempt' = NoAttempt
  /\ UNCHANGED <<fired, unfit, issued, swapped, allowed, source, target, serverVars, losses>>

\* The ACL takes the right to append from the client, or gives it back.
SetAcl ==
  /\ allowed' = ~allowed
  /\ UNCHANGED <<clientVars, source, target, serverVars, losses>>

(***************************************************************************)
(* The space that serves the stream                                         *)
(***************************************************************************)
\* A drain selects all rows.  A row id is the largest in the table plus one:
\* an empty table starts over.
DrainOf(rows) == [rows |-> rows, at |-> "send"]
NextRowsFromZero == {Cardinality(outbox)}
NextRows == IF outbox = {} THEN {1}
            ELSE {n \in {r.row + 1 : r \in outbox} : \A r \in outbox : r.row < n}
RowFor(ran, next, n) == [row |-> next + Cardinality({m \in ran : m < n}),
                         id  |-> source.entries[n].id]

\* Activation sends again what a tenure before left.
ActivateBare ==
  /\ holder = 0 /\ tenures < MaxTenures
  /\ tenures' = tenures + 1 /\ holder' = tenures + 1 /\ owed' = FALSE
  /\ UNCHANGED <<clientVars, allowed, source, target, drains, outbox, noticed, faults, losses>>
Activate ==
  /\ holder = 0 /\ tenures < MaxTenures
  /\ tenures' = tenures + 1 /\ holder' = tenures + 1
  /\ drains' = [drains EXCEPT ![tenures + 1] = DrainOf(outbox)]
  /\ owed' = FALSE
  /\ UNCHANGED <<clientVars, allowed, source, target, outbox, noticed,
                 faults, losses>>

\* The process dies, or its lease lapses while a delivery of it is under way.
EndTenure ==
  /\ holder # 0 /\ tenures < MaxTenures
  /\ \E survives \in {FALSE, Lapses} :
       drains' = IF survives THEN drains ELSE [drains EXCEPT ![holder] = Idle]
  /\ holder' = 0 /\ owed' = FALSE
  /\ UNCHANGED <<clientVars, allowed, source, target, tenures, outbox,
                 noticed, faults, losses>>

\* A wave takes any of the pending entries, a contribution may be put back.
\* Marks, horizon and rows are one commit, and then the outbox is drained.
Wave ==
  /\ holder # 0 /\ drains[holder] = Idle
  /\ \E W \in SUBSET Pending(source) \ {{}} :
       LET ran == Ran(source, W)
       IN /\ source' \in Waved(source, W)
          /\ \E next \in NextRows : outbox' = outbox \union {RowFor(ran, next, n) : n \in ran}
          /\ IF ran # {} \/ owed
             THEN drains' = [drains EXCEPT ![holder] = DrainOf(outbox')] /\ owed' = FALSE
             ELSE UNCHANGED <<drains, owed>>
  /\ UNCHANGED <<clientVars, allowed, target, holder, tenures, noticed, faults, losses>>

\* Rows a drain left behind ride the next cycle; an idle space has one when
\* its wait for input ends.
Redrain ==
  /\ holder # 0 /\ drains[holder] = Idle /\ owed
  /\ drains' = [drains EXCEPT ![holder] = DrainOf(outbox)] /\ owed' = FALSE
  /\ UNCHANGED <<clientVars, allowed, source, target, holder, tenures, outbox,
                 noticed, faults, losses>>

(***************************************************************************)
(* The drain of the outbox                                                  *)
(***************************************************************************)
\* Rows go in the order of their ids.
First(t, r) == r \in drains[t].rows /\ \A q \in drains[t].rows : r.row <= q.row
Sent(t)     == drains' = [drains EXCEPT ![t].at = "retire"] /\ UNCHANGED owed
Stopped(t)  == drains' = [drains EXCEPT ![t] = Idle] /\ owed' = (owed \/ t = holder)

\* The append is admitted at the target, or found there.
Deliver(t, r) ==
  /\ drains[t].at = "send" /\ First(t, r) /\ r.id \notin Refused
  /\ target' = IF Duplicate(target, r.id) THEN target ELSE Admitted(target, r.id)
  /\ Sent(t)
  /\ UNCHANGED <<clientVars, allowed, source, holder, tenures, outbox, noticed, faults, losses>>

\* A refusal is noticed on the entry of the event, by a derived commit that
\* only the holder may make; one that cannot be written stops the drain.
Notice(t, r) ==
  /\ drains[t].at = "send" /\ First(t, r) /\ r.id \in Refused
  /\ IF t = holder \/ r.id \in noticed
     THEN noticed' = noticed \union {r.id} /\ Sent(t)
     ELSE UNCHANGED noticed /\ Stopped(t)
  /\ UNCHANGED <<clientVars, allowed, source, target, holder, tenures, outbox, faults, losses>>

\* A transport failure keeps the row and all rows behind it.
DeliverFailsSkips(t, r) ==
  /\ drains[t].at = "send" /\ First(t, r) /\ faults < MaxFaults
  /\ faults' = faults + 1 /\ owed' = TRUE
  /\ drains' = [drains EXCEPT ![t] = DrainOf(@.rows \ {r})]
  /\ UNCHANGED <<clientVars, allowed, source, target, holder, tenures, outbox, noticed, losses>>
DeliverFailsRetires(t, r) ==
  /\ drains[t].at = "send" /\ First(t, r) /\ faults < MaxFaults
  /\ faults' = faults + 1 /\ Sent(t)
  /\ UNCHANGED <<clientVars, allowed, source, target, holder, tenures, outbox, noticed, losses>>
DeliverFails(t, r) ==
  /\ drains[t].at = "send" /\ First(t, r) /\ faults < MaxFaults
  /\ faults' = faults + 1 /\ Stopped(t)
  /\ UNCHANGED <<clientVars, allowed, source, target, holder, tenures, outbox, noticed, losses>>

\* The row is deleted by its id, in a write that no lease fences.
Retire(t, r) ==
  /\ drains[t].at = "retire" /\ First(t, r)
  /\ outbox' = {q \in outbox : q.row # r.row}
  /\ drains' = [drains EXCEPT ![t] = DrainOf(@.rows \ {r})]
  /\ UNCHANGED <<clientVars, allowed, source, target, holder, tenures, owed, noticed,
                 faults, losses>>

\* The space of the other stream is served too.
TargetWave ==
  /\ \E W \in SUBSET Pending(target) \ {{}} : target' \in Waved(target, W)
  /\ UNCHANGED <<clientVars, allowed, source, serverVars, losses>>

Next ==
  \/ Fire \/ Send \/ Replace \/ Admit \/ Lose \/ Settle \/ SetAcl
  \/ Activate \/ EndTenure \/ Wave \/ Redrain \/ TargetWave
  \/ \E t \in Tenures : \E r \in drains[t].rows :
       Deliver(t, r) \/ Notice(t, r) \/ DeliverFails(t, r) \/ Retire(t, r)

Spec == Init /\ [][Next]_vars

\* The queue retries, answers come, a space with work is served, its waves
\* land, a drain goes on, and one that left rows behind is followed by another.
Serves == \E t \in Tenures : \E r \in drains[t].rows :
            t = holder /\ (Deliver(t, r) \/ Notice(t, r) \/ Retire(t, r))
FairSpec ==
  /\ Spec
  /\ WF_vars(Send) /\ WF_vars(Admit) /\ WF_vars(Settle)
  /\ WF_vars(Activate) /\ WF_vars(Wave) /\ WF_vars(TargetWave)
  /\ WF_vars(Serves) /\ WF_vars(Redrain)

(***************************************************************************)
(* Properties                                                               *)
(***************************************************************************)
Rows    == [row : Nat \ {0}, id : Events]
Streams == [entries : Seq([id : Events, done : BOOLEAN, ran : BOOLEAN]), horizon : Nat]
TypeOK ==
  /\ fired \in 0..MaxFires /\ queue \in Seq(Events)
  /\ attempt \in [id : 0..MaxFires, at : {"none", "sent", "ok", "duplicate", "refused"}]
  /\ told \in [Events -> {"pending", "closed", "delivered", "refused"}]
  /\ unfit \subseteq Events /\ dropped \subseteq Events
  /\ issued \in BOOLEAN /\ swapped \in BOOLEAN /\ allowed \in BOOLEAN /\ owed \in BOOLEAN
  /\ source \in Streams /\ target \in Streams
  /\ holder \in 0..MaxTenures /\ tenures \in 0..MaxTenures
  /\ drains \in [Tenures -> [rows : SUBSET Rows, at : {"send", "retire"}]]
  /\ outbox \subseteq Rows /\ noticed \subseteq Events
  /\ losses \in 0..MaxLosses /\ faults \in 0..MaxFaults

\* No event has its handler run twice, at the stream it was fired at or at
\* the one it is passed on to: not when a lost answer has it appended again
\* after the horizon passed it, nor when a crash has its row sent again.
HandledOnce == RanOnce(source) /\ RanOnce(target)

\* Events enter the stream in the order they were fired, whatever attempt was
\* retried: of all fired before one that is in the log, each is in the log
\* before it, or was refused and never enters it.
FiredOrder ==
  \A n \in DOMAIN source.entries : \A e \in 1..(source.entries[n].id - 1) :
    \/ \E k \in 1..(n - 1) : source.entries[k].id = e
    \/ e \in dropped \ Logged(source)

\* The append of a handler that ran is at its target, in the outbox, or was
\* refused there with a notice on the event: "no schedule loses an append"
\* (executor/outbox.ts).
Waiting == {r.id : r \in outbox}
NoAppendLost == Handled(source) \subseteq Logged(target) \union noticed \union Waiting

\* An append enters its target only when those of the rows before its own
\* are there, or were refused.
Arrives(r) == r.id \notin Logged(target) /\ r.id \in Logged(target)'
SentOrder ==
  [][\A r \in outbox : Arrives(r) =>
       \A q \in outbox : q.row < r.row => q.id \in Logged(target) \union noticed]_vars

\* An event told to be delivered is handled.
DeliveredIsHandled ==
  \A e \in Events : told[e] = "delivered" ~> e \in Handled(source)

\* What its handler appends is handled at the target or refused with a
\* notice, whatever delivery of it failed.
AppendsHandled ==
  \A e \in Events : e \in Handled(source) ~> e \in Handled(target) \union noticed

=============================================================================
