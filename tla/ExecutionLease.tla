--------------------------- MODULE ExecutionLease ---------------------------
(***************************************************************************)
(* The single-deriver lease of one space and the tenures built on it.      *)
(*                                                                         *)
(* The store keeps one row (holder, expires_at) per space.  A process      *)
(* (toolshed instance) serves the space through a SpaceServer object, which *)
(* owns an ExecutionLeaseCycle: an in-memory `held` flag and a `tenure`    *)
(* counter.  Commits of the derived class reach the store in four ways:    *)
(*   - a wave collects what runs seal and remembers the tenure it was      *)
(*     opened under; it commits only if that tenure is still the current   *)
(*     one AND the engine finds a live row naming the wave's holder;       *)
(*   - a bookkeeping run stamped for a direct commit, and the completion   *)
(*     of a served effect, each commit on their own behind the seals; they *)
(*     check that the space is active when their turn comes, and the       *)
(*     engine checks the row, but no tenure is looked at;                  *)
(*   - the drain of the outbox notes the refusal of an append on the event *)
(*     that made it, in one synchronous step; only the row is looked at.   *)
(*                                                                         *)
(* packages/memory/v2/execution-lease.ts      the row and the cycle        *)
(* packages/runner/src/executor/space-server.ts  activation, renewal, park, *)
(*                                            direct commits, completions  *)
(* packages/runner/src/executor/wave.ts       the tenure checks            *)
(* packages/runner/src/executor/outbox.ts     the notice of a refusal      *)
(* packages/memory/v2/engine.ts               the admission check          *)
(*                                                                         *)
(* Time is the remaining life of the row: expires_at - now, so the row is  *)
(* live iff left > 0.  All processes of a host judge it by the same clock. *)
(***************************************************************************)
EXTENDS Naturals, Sequences

CONSTANTS
  Process,    \* process instances; a restarted process is a new element
  Server,     \* SpaceServer objects, each used for one activation
  HostOf,     \* the process whose ExecutorHost creates the object
  None,
  TTL,        \* EXECUTION_LEASE_TTL_MS in clock ticks
  Alone,      \* bound: the kinds of commit on its own each SpaceServer makes
  MaxTenure,  \* bound: tenures of each SpaceServer
  MaxLog      \* bound: derived commits

ASSUME HostOfAssumption    == HostOf \in [Server -> Process]
ASSUME NoneAssumption      == None \notin Process /\ None \notin Server
ASSUME TTLAssumption       == TTL \in Nat \ {0}
ASSUME AloneAssumption     ==
  Alone \in [Server -> SUBSET {"direct", "completion", "notice"}]
ASSUME MaxTenureAssumption == MaxTenure \in [Server -> Nat]
ASSUME MaxLogAssumption    == MaxLog \in Nat

VARIABLES
  holder,      \* execution_lease.holder, None when there is no row
  left,        \* expires_at - now, 0 once expired
  up,          \* the process is running
  registered,  \* ExecutorHost.#spaces entry of the space
  phase,       \* life cycle of a SpaceServer
  held,        \* ExecutionLeaseCycle.#held
  tenure,      \* ExecutionLeaseCycle.#tenure
  open,        \* SpaceServer.#currentWave
  closing,     \* the wave inside commitWave
  stamped,     \* SpaceServer.#directCommits: the tenure of a run on its way
  solo,        \* the commit on its own that #sealChain is running
  log          \* derived commits admitted for the space

lease  == <<holder, left>>
hosts  == <<up, registered>>
cycles == <<phase, held, tenure>>
waves  == <<open, closing>>
solos  == <<stamped, solo>>
vars   == <<lease, hosts, cycles, waves, solos, log>>

Phase == {"unborn", "initializing", "active", "parking", "parked", "dead"}
Kind  == {"wave", "direct", "completion", "notice"}
Wave  == [tenure : Nat, basis : Nat]
Solo  == [kind : {"direct", "completion"}, tenure : Nat]
NoWave == [tenure |-> 0, basis |-> 0]
NoSolo == [kind |-> "none", tenure |-> 0]

(* `from` is the tenure the work was sealed or stamped under, `tenure` the *)
(* one the server was in when the engine admitted it.  `basis` is what a   *)
(* wave may have read.  The others have 0: the engine holds the first two  *)
(* to the documents they read and wrote, and a notice reads as it writes.  *)
Entry == [kind : Kind, server : Server, from : Nat, tenure : Nat, basis : Nat]

TypeOK ==
  /\ holder \in Process \cup {None}
  /\ left \in 0..TTL
  /\ up \in [Process -> BOOLEAN]
  /\ registered \in [Process -> Server \cup {None}]
  /\ phase \in [Server -> Phase]
  /\ held \in [Server -> BOOLEAN]
  /\ tenure \in [Server -> Nat]
  /\ open \in [Server -> Wave]
  /\ closing \in [Server -> Wave]
  /\ stamped \in [Server -> Nat]
  /\ solo \in [Server -> Solo \cup {NoSolo}]
  /\ log \in Seq(Entry)

Init ==
  /\ holder = None
  /\ left = 0
  /\ up = [p \in Process |-> TRUE]
  /\ registered = [p \in Process |-> None]
  /\ phase = [s \in Server |-> "unborn"]
  /\ held = [s \in Server |-> FALSE]
  /\ tenure = [s \in Server |-> 0]
  /\ open = [s \in Server |-> NoWave]
  /\ closing = [s \in Server |-> NoWave]
  /\ stamped = [s \in Server |-> 0]
  /\ solo = [s \in Server |-> NoSolo]
  /\ log = << >>

-----------------------------------------------------------------------------
(* The row.  A wave sealed under a real tenure has tenure >= 1, so NoWave  *)
(* (tenure 0) never passes for one.                                        *)

Acquirable(p) == holder \in {None, p} \/ left = 0

LiveHolder(p) == holder = p /\ left > 0

(* MUTANT: the commit step checks only that the lease is held. *)
IsCurrentTenureWhileHeld(s, t) == held[s]

IsCurrentTenure(s, t) == held[s] /\ t = tenure[s]

Hold(p) == holder' = p /\ left' = TTL

(* MUTANT: the DELETE has no holder condition. *)
DropAnyRow(p) == holder' = None /\ left' = 0

Drop(p) == IF holder = p THEN holder' = None /\ left' = 0 ELSE UNCHANGED lease

StartTenure(s) ==
  /\ tenure[s] < MaxTenure[s]
  /\ Hold(HostOf[s])
  /\ tenure' = [tenure EXCEPT ![s] = @ + 1]
  /\ held' = [held EXCEPT ![s] = TRUE]

(* A park first detaches the open wave, which is then abandoned; a wave    *)
(* already inside commitWave goes on.                                      *)
BeginPark(s) ==
  /\ phase' = [phase EXCEPT ![s] = "parking"]
  /\ open' = [open EXCEPT ![s] = NoWave]

-----------------------------------------------------------------------------
(* MUTANT: a host activates while its previous server is still parking. *)
ActivateWhileParking(s) ==
  LET p == HostOf[s] IN
  /\ up[p] /\ \A t \in Server : HostOf[t] = p => phase[t] # "active"
  /\ phase[s] = "unborn"
  /\ Acquirable(p)
  /\ StartTenure(s)
  /\ registered' = [registered EXCEPT ![p] = s]
  /\ phase' = [phase EXCEPT ![s] = "initializing"]
  /\ UNCHANGED <<up, waves, solos, log>>

(* A host activates the space only when no SpaceServer is registered: one  *)
(* activation is in flight at a time and a parking server is waited for.   *)
(* A failed acquire leaves nothing behind.                                 *)
Activate(s) ==
  LET p == HostOf[s] IN
  /\ up[p] /\ registered[p] = None
  /\ phase[s] = "unborn"
  /\ Acquirable(p)
  /\ StartTenure(s)
  /\ registered' = [registered EXCEPT ![p] = s]
  /\ phase' = [phase EXCEPT ![s] = "initializing"]
  /\ UNCHANGED <<up, waves, solos, log>>

(* MUTANT: the renewal's UPDATE has no holder condition. *)
RenewOkAnyHolder(s) == held[s] /\ left > 0 /\ left' = TTL /\ UNCHANGED holder

RenewOk(s) ==
  /\ held[s] /\ LiveHolder(HostOf[s])
  /\ Hold(HostOf[s])

(* A renewal during initialization; a failed one only ends the tenure.     *)
RenewInitializing(s) ==
  /\ phase[s] = "initializing" /\ held[s]
  /\ \/ RenewOk(s) /\ UNCHANGED held
     \/ /\ ~LiveHolder(HostOf[s])
        /\ held' = [held EXCEPT ![s] = FALSE]
        /\ UNCHANGED lease
  /\ UNCHANGED <<hosts, phase, tenure, waves, solos, log>>

(* The lease store throws while initializing: release() ends the tenure    *)
(* whether or not the row could be deleted.                                *)
RenewThrows(s) ==
  /\ phase[s] = "initializing" /\ held[s]
  /\ held' = [held EXCEPT ![s] = FALSE]
  /\ Drop(HostOf[s]) \/ UNCHANGED lease
  /\ UNCHANGED <<hosts, phase, tenure, waves, solos, log>>

(* The last renewal of an activation succeeds and the loop starts.         *)
Install(s) ==
  /\ phase[s] = "initializing"
  /\ RenewOk(s)
  /\ phase' = [phase EXCEPT ![s] = "active"]
  /\ UNCHANGED <<hosts, held, tenure, waves, solos, log>>

(* The lease was lost during initialization, or building the runtime threw. *)
ActivationFailed(s) ==
  /\ phase[s] = "initializing"
  /\ BeginPark(s)
  /\ UNCHANGED <<lease, hosts, held, tenure, closing, solos, log>>

(* MUTANT: a server that can neither renew nor re-acquire does not park. *)
RenewActiveNoPark(s) ==
  LET p == HostOf[s] IN
  /\ phase[s] = "active" /\ held[s]
  /\ \/ RenewOk(s) /\ UNCHANGED <<cycles, waves>>
     \/ ~LiveHolder(p) /\ Acquirable(p) /\ StartTenure(s) /\ UNCHANGED <<phase, waves>>
     \/ /\ ~LiveHolder(p) /\ ~Acquirable(p)
        /\ held' = [held EXCEPT ![s] = FALSE]
        /\ UNCHANGED <<lease, phase, tenure, waves>>
  /\ UNCHANGED <<hosts, solos, log>>

(* The renewal timer of a serving space.  When the row is not ours and live *)
(* the tenure ends, and in the same call the server re-acquires or parks.  *)
RenewActive(s) ==
  LET p == HostOf[s] IN
  /\ phase[s] = "active" /\ held[s]
  /\ \/ RenewOk(s) /\ UNCHANGED <<cycles, waves>>
     \/ ~LiveHolder(p) /\ Acquirable(p) /\ StartTenure(s) /\ UNCHANGED <<phase, waves>>
     \/ /\ ~LiveHolder(p) /\ ~Acquirable(p)
        /\ held' = [held EXCEPT ![s] = FALSE]
        /\ BeginPark(s)
        /\ UNCHANGED <<lease, tenure, closing>>
  /\ UNCHANGED <<hosts, solos, log>>

(* Idle, a failed loop, or host close. *)
Park(s) ==
  /\ phase[s] = "active"
  /\ BeginPark(s)
  /\ UNCHANGED <<lease, hosts, held, tenure, closing, solos, log>>

(* The end of a park: #sealChain has been awaited, so no commit on its own *)
(* is under way; the lease is released (the delete may throw), the host    *)
(* forgets this server, by identity, and whoever waits on whenParked may   *)
(* activate another one.                                                   *)
ParkDone(s) ==
  LET p == HostOf[s] IN
  /\ phase[s] = "parking" /\ solo[s] = NoSolo
  /\ Drop(p) \/ UNCHANGED lease
  /\ held' = [held EXCEPT ![s] = FALSE]
  /\ phase' = [phase EXCEPT ![s] = "parked"]
  /\ registered' = [registered EXCEPT ![p] = IF @ = s THEN None ELSE @]
  /\ UNCHANGED <<up, tenure, waves, solos, log>>

-----------------------------------------------------------------------------
Admit(kind, s, from, basis) ==
  /\ LiveHolder(HostOf[s])
  /\ Len(log) < MaxLog
  /\ log' = Append(log, [kind |-> kind, server |-> s, from |-> from,
                         tenure |-> tenure[s], basis |-> basis])

(* A seal opens a wave when none is open, over the store as it is then; the *)
(* run that seals has read before, and what it read is held per document   *)
(* by the engine (a conflict, the refusal of CommitWave).  A seal can come *)
(* while a park is still draining: its destination is cleared late.        *)
OpenWave(s) ==
  /\ phase[s] \in {"active", "parking"}
  /\ open[s] = NoWave
  /\ open' = [open EXCEPT ![s] = [tenure |-> tenure[s], basis |-> Len(log)]]
  /\ UNCHANGED <<lease, hosts, cycles, closing, solos, log>>

(* The cycle detaches the open wave and enters commitWave.  One cycle runs *)
(* at a time.  The check on entry refuses lapsed work at once.             *)
CloseWave(s) ==
  /\ open[s] # NoWave /\ closing[s] = NoWave
  /\ IsCurrentTenure(s, open[s].tenure)
  /\ closing' = [closing EXCEPT ![s] = open[s]]
  /\ open' = [open EXCEPT ![s] = NoWave]
  /\ UNCHANGED <<lease, hosts, cycles, solos, log>>

(* A wave sealed under a lapsed tenure is withdrawn, and the loop parks.   *)
ParkOnAbort(s) ==
  phase' = IF phase[s] = "active" THEN [phase EXCEPT ![s] = "parking"] ELSE phase

AbortAtEntry(s) ==
  /\ open[s] # NoWave /\ closing[s] = NoWave
  /\ ~IsCurrentTenure(s, open[s].tenure)
  /\ open' = [open EXCEPT ![s] = NoWave]
  /\ ParkOnAbort(s)
  /\ UNCHANGED <<lease, hosts, held, tenure, closing, solos, log>>

AbortAtHome(s) ==
  /\ closing[s] # NoWave
  /\ ~IsCurrentTenure(s, closing[s].tenure)
  /\ closing' = [closing EXCEPT ![s] = NoWave]
  /\ open' = IF phase[s] = "active" THEN [open EXCEPT ![s] = NoWave] ELSE open
  /\ ParkOnAbort(s)
  /\ UNCHANGED <<lease, hosts, held, tenure, solos, log>>

(* The home attempt: the tenure is re-checked right before the synchronous *)
(* sink call, and the engine admits the commit only if the live row names  *)
(* the declared holder; a commit refused for that or for a conflict is     *)
(* withdrawn without parking.                                              *)
CommitWave(s) ==
  LET wave == closing[s] IN
  /\ wave # NoWave /\ IsCurrentTenure(s, wave.tenure)
  /\ Admit("wave", s, wave.tenure, wave.basis) \/ UNCHANGED log
  /\ closing' = [closing EXCEPT ![s] = NoWave]
  /\ UNCHANGED <<lease, hosts, cycles, open, solos>>

(* A bookkeeping run that will commit directly begins.                     *)
StampDirect(s) ==
  /\ phase[s] \in {"active", "parking"} /\ "direct" \in Alone[s]
  /\ stamped[s] = 0
  /\ stamped' = [stamped EXCEPT ![s] = tenure[s]]
  /\ UNCHANGED <<lease, hosts, cycles, waves, solo, log>>

(* Its turn on #sealChain: refused unless the space is active.  Nothing    *)
(* compares the tenure it was stamped under with the current one.          *)
BeginDirect(s) ==
  /\ stamped[s] # 0 /\ solo[s] = NoSolo
  /\ solo' = IF phase[s] = "active"
               THEN [solo EXCEPT ![s] = [kind |-> "direct", tenure |-> stamped[s]]]
               ELSE solo
  /\ stamped' = [stamped EXCEPT ![s] = 0]
  /\ UNCHANGED <<lease, hosts, cycles, waves, log>>

(* The writeback of a served effect has its turn.                          *)
BeginCompletion(s) ==
  /\ phase[s] = "active" /\ "completion" \in Alone[s] /\ solo[s] = NoSolo
  /\ solo' = [solo EXCEPT ![s] = [kind |-> "completion", tenure |-> tenure[s]]]
  /\ UNCHANGED <<lease, hosts, cycles, waves, stamped, log>>

(* After the await of the seal: by now the tenure, the row or the activity *)
(* of the space may have changed, and only the row is looked at.  A refusal *)
(* (of the lease, a conflict, a seal that fails or is empty) leaves nothing. *)
CommitSolo(s) ==
  /\ solo[s] # NoSolo
  /\ Admit(solo[s].kind, s, solo[s].tenure, 0) \/ UNCHANGED log
  /\ solo' = [solo EXCEPT ![s] = NoSolo]
  /\ UNCHANGED <<lease, hosts, cycles, waves, stamped>>

(* A drain that awaited its target was told of a refusal: the note is read, *)
(* extended and committed at once.  A park does not wait for a drain, so   *)
(* its server may be parked, and another of its process in its place.      *)
Notice(s) ==
  /\ phase[s] \notin {"unborn", "dead"} /\ "notice" \in Alone[s]
  /\ Admit("notice", s, tenure[s], 0)
  /\ UNCHANGED <<lease, hosts, cycles, waves, solos>>

-----------------------------------------------------------------------------
(* A crash loses everything in memory; the row stays until it expires.     *)
Crash(p) ==
  /\ up[p]
  /\ up' = [up EXCEPT ![p] = FALSE]
  /\ registered' = [registered EXCEPT ![p] = None]
  /\ phase' = [s \in Server |-> IF HostOf[s] = p THEN "dead" ELSE phase[s]]
  /\ held' = [s \in Server |-> IF HostOf[s] = p THEN FALSE ELSE held[s]]
  /\ open' = [s \in Server |-> IF HostOf[s] = p THEN NoWave ELSE open[s]]
  /\ closing' = [s \in Server |-> IF HostOf[s] = p THEN NoWave ELSE closing[s]]
  /\ stamped' = [s \in Server |-> IF HostOf[s] = p THEN 0 ELSE stamped[s]]
  /\ solo' = [s \in Server |-> IF HostOf[s] = p THEN NoSolo ELSE solo[s]]
  /\ UNCHANGED <<lease, tenure, log>>

(* MUTANT: the clock runs past the expiry of a row. *)
TickPastExpiry == left' = left - 1 /\ UNCHANGED <<holder, hosts, cycles, waves, solos, log>>

Tick == left > 0 /\ left' = left - 1 /\ UNCHANGED <<holder, hosts, cycles, waves, solos, log>>

Cycle(s) ==
  \/ Activate(s) \/ RenewInitializing(s) \/ RenewThrows(s) \/ Install(s)
  \/ ActivationFailed(s) \/ RenewActive(s) \/ Park(s) \/ ParkDone(s)

Work(s) ==
  \/ OpenWave(s) \/ CloseWave(s) \/ AbortAtEntry(s) \/ AbortAtHome(s)
  \/ CommitWave(s) \/ StampDirect(s) \/ BeginDirect(s) \/ BeginCompletion(s)
  \/ CommitSolo(s) \/ Notice(s)

Next ==
  \/ Tick
  \/ \E p \in Process : Crash(p)
  \/ \E s \in Server : Cycle(s) \/ Work(s)

Spec == Init /\ [][Next]_vars

(* The renewal timer fires while a space is served, a park is driven to its *)
(* end (the runtime's disposal is under a deadline) once #sealChain has    *)
(* settled, and time passes.                                               *)
Fairness ==
  /\ WF_vars(Tick)
  /\ \A s \in Server :
       WF_vars(RenewActive(s)) /\ WF_vars(ParkDone(s)) /\ WF_vars(CommitSolo(s))

FairSpec == Spec /\ Fairness

-----------------------------------------------------------------------------
(* Between the moment a wave takes its basis and the moment it commits,    *)
(* nobody but the same server in the same tenure derives into the space,   *)
(* by another wave, a direct commit or a completion (wave.ts, the check of *)
(* the tenure; engine.ts, the check of the row).  A notice derives nothing. *)
SingleDeriver ==
  \A i \in 1..Len(log) : \A j \in 1..(i - 1) :
    log[i].kind = "wave" /\ log[i].basis < j /\ log[j].kind # "notice" =>
      log[j].server = log[i].server /\ log[j].tenure = log[i].from

(* "On renewal failure or expiry: the SpaceServer MUST stop committing     *)
(* immediately (in-flight transaction aborts), then re-acquire or park"    *)
(* (serving-loop.md): a direct commit lands in the tenure its run began in. *)
(* #commitDirect compares no tenure, and breaks it.                        *)
LapsedDirectAborts ==
  \A i \in 1..Len(log) : log[i].kind = "direct" => log[i].tenure = log[i].from

(* A release deletes the row by holder identity, which two SpaceServers of *)
(* one process share: it must never take the row from under a tenure of    *)
(* the same process other than the one being released.                     *)
ReleaseSparesSuccessor ==
  [][\A s \in Server :
       holder = HostOf[s] /\ holder' = None /\ held[s] => ~held'[s]]_vars

(* A server whose row has passed to another process or lapsed notices: it  *)
(* parks or starts a new tenure.                                           *)
LostHolderStops ==
  \A s \in Server :
    (phase[s] = "active" /\ ~LiveHolder(HostOf[s]))
      ~> (phase[s] # "active" \/ LiveHolder(HostOf[s]) \/ tenure[s] = MaxTenure[s])

(* The row of a crashed process does not fence the space forever.          *)
CrashedLeaseLapses ==
  \A p \in Process : ~up[p] ~> (holder # p \/ left = 0)
=============================================================================
