------------------------ MODULE ExecutionLeaseProofs ------------------------
(***************************************************************************)
(* SingleDeriver for every set of processes and servers.                   *)
(*                                                                         *)
(* It is not inductive: what makes a commit safe is the history of the row *)
(* since the wave was opened.  Inv records that history.  A server that    *)
(* holds is the one its host has registered (OneHolder), so two holding    *)
(* servers are of different processes; and while a server holds and the    *)
(* row names its process, nothing but its own tenure was logged since any  *)
(* of its waves of that tenure was opened (Undisturbed).  The row can come *)
(* back to a process only through an acquire, which starts a tenure no     *)
(* wave was opened under.  A commit on its own names the tenure it is       *)
(* admitted in, because its server stays registered while it is under way.  *)
(***************************************************************************)
EXTENDS ExecutionLease, TLAPS

OneHolder ==
  /\ \A s \in Server :
       phase[s] \in {"initializing", "active", "parking"} =>
         registered[HostOf[s]] = s /\ tenure[s] > 0
  /\ \A s \in Server : held[s] => phase[s] \in {"initializing", "active", "parking"}
  /\ \A s \in Server : phase[s] = "active" => held[s]
  /\ \A s \in Server : solo[s] # NoSolo => phase[s] \in {"active", "parking"}

SealedEarlier ==
  \A s \in Server :
    /\ open[s].tenure <= tenure[s] /\ open[s].basis <= Len(log)
    /\ closing[s].tenure <= tenure[s] /\ closing[s].basis <= Len(log)

OnlySince(s, basis) ==
  \A j \in 1..Len(log) :
    basis < j /\ log[j].kind # "notice" => log[j].server = s /\ log[j].tenure = tenure[s]

Undisturbed ==
  \A s \in Server : held[s] /\ holder = HostOf[s] =>
    /\ open[s].tenure = tenure[s] => OnlySince(s, open[s].basis)
    /\ closing[s].tenure = tenure[s] => OnlySince(s, closing[s].basis)

Inv == TypeOK /\ OneHolder /\ SealedEarlier /\ Undisturbed /\ SingleDeriver

(* What one step may do to the facts the invariant is about, whatever the  *)
(* action.  A server that holds with the row naming its process, in the    *)
(* same tenure as before the step, did so before it.                       *)
Continuity(t) ==
  held'[t] /\ holder' = HostOf[t] /\ tenure'[t] = tenure[t] => held[t] /\ holder = HostOf[t]

NewWave(t) == [tenure |-> tenure[t], basis |-> Len(log)]

WavesAreNewer(t) ==
  /\ open'[t] \in {open[t], NoWave, NewWave(t)}
  /\ closing'[t] \in {closing[t], open[t], NoWave}

TenureGrows(t) ==
  \/ tenure'[t] = tenure[t]
  \/ tenure'[t] = tenure[t] + 1 /\ open'[t] = open[t] /\ closing'[t] = closing[t]

LoggedBy(s, e) ==
  /\ log' = Append(log, e)
  /\ e.server = s /\ e.tenure = tenure[s] /\ holder = HostOf[s]
  /\ e.kind # "notice" => registered[HostOf[s]] = s
  /\ e.kind = "wave" =>
       /\ held[s] /\ e.from = tenure[s]
       /\ e.basis = closing[s].basis /\ closing[s].tenure = tenure[s]

LoggedWell == log' = log \/ \E s \in Server, e \in Entry : LoggedBy(s, e)

(* Every step of the protocol preserves the declared types. *)
LEMMA TypeInductive ==
  ASSUME TypeOK, [Next]_vars
  PROVE  TypeOK'
<1> USE HostOfAssumption, NoneAssumption, TTLAssumption, MaxTenureAssumption
<1> USE DEF TypeOK, vars, lease, hosts, cycles, waves, solos
<1>a. 0 \in 0..TTL /\ TTL \in 0..TTL
  OBVIOUS
<1>b. NoWave \in Wave
  BY DEF NoWave, Wave
<1>c. {"initializing", "active", "parking", "parked", "dead"} \subseteq Phase
  BY DEF Phase

<1>1. CASE Tick
  BY <1>1, <1>a, <1>b, <1>c DEF Tick
<1>2. ASSUME NEW p \in Process, Crash(p) PROVE TypeOK'
  BY <1>2, <1>a, <1>b, <1>c DEF Crash
<1>3. ASSUME NEW s \in Server, Activate(s) PROVE TypeOK'
  BY <1>3, <1>a, <1>b, <1>c DEF Activate, Acquirable, StartTenure, Hold
<1>4. ASSUME NEW s \in Server, RenewInitializing(s) PROVE TypeOK'
  BY <1>4, <1>a, <1>b, <1>c DEF RenewInitializing, RenewOk, LiveHolder, Hold
<1>5. ASSUME NEW s \in Server, RenewThrows(s) PROVE TypeOK'
  BY <1>5, <1>a, <1>b, <1>c DEF RenewThrows, Drop
<1>6. ASSUME NEW s \in Server, Install(s) PROVE TypeOK'
  BY <1>6, <1>a, <1>b, <1>c DEF Install, RenewOk, LiveHolder, Hold
<1>7. ASSUME NEW s \in Server, ActivationFailed(s) PROVE TypeOK'
  BY <1>7, <1>a, <1>b, <1>c DEF ActivationFailed, BeginPark
<1>8. ASSUME NEW s \in Server, RenewActive(s) PROVE TypeOK'
  <2>1. TypeOK' \/ ~LiveHolder(HostOf[s])
    BY <1>8, <1>a DEF RenewActive, RenewOk, Hold
  <2>2. CASE Acquirable(HostOf[s]) /\ StartTenure(s) /\ UNCHANGED <<phase, waves>>
    BY <1>8, <2>2, <1>a DEF RenewActive, StartTenure, Hold
  <2>3. CASE BeginPark(s) /\ held' = [held EXCEPT ![s] = FALSE] /\ UNCHANGED <<lease, tenure, closing>>
    BY <1>8, <2>3, <1>b, <1>c DEF RenewActive, BeginPark
  <2>4. QED
    BY <1>8, <2>1, <2>2, <2>3 DEF RenewActive, RenewOk
<1>9. ASSUME NEW s \in Server, Park(s) PROVE TypeOK'
  BY <1>9, <1>a, <1>b, <1>c DEF Park, BeginPark
<1>10. ASSUME NEW s \in Server, ParkDone(s) PROVE TypeOK'
  BY <1>10, <1>a, <1>b, <1>c DEF ParkDone, Drop
<1>11. ASSUME NEW s \in Server, OpenWave(s) PROVE TypeOK'
  <2>1. [tenure |-> tenure[s], basis |-> Len(log)] \in Wave
    BY DEF Wave
  <2>2. QED
    BY <1>11, <2>1 DEF OpenWave
<1>12. ASSUME NEW s \in Server, CloseWave(s) PROVE TypeOK'
  BY <1>12, <1>a, <1>b, <1>c DEF CloseWave, IsCurrentTenure
<1>13. ASSUME NEW s \in Server, AbortAtEntry(s) PROVE TypeOK'
  BY <1>13, <1>a, <1>b, <1>c DEF AbortAtEntry, IsCurrentTenure, ParkOnAbort
<1>14. ASSUME NEW s \in Server, AbortAtHome(s) PROVE TypeOK'
  BY <1>14, <1>a, <1>b, <1>c DEF AbortAtHome, IsCurrentTenure, ParkOnAbort
<1>e. ASSUME NEW s \in Server, NEW k \in Kind, NEW t \in Nat, NEW b \in Nat, Admit(k, s, t, b)
      PROVE  log' \in Seq(Entry)
  <2>1. [kind |-> k, server |-> s, from |-> t, tenure |-> tenure[s], basis |-> b] \in Entry
    BY DEF Entry
  <2>2. \A x \in Entry : Append(log, x) \in Seq(Entry)
    OBVIOUS
  <2>3. QED
    BY <1>e, <2>1, <2>2 DEF Admit
<1>15. ASSUME NEW s \in Server, CommitWave(s) PROVE TypeOK'
  <2>1. "wave" \in Kind /\ closing[s].tenure \in Nat /\ closing[s].basis \in Nat
    BY DEF Wave, Kind
  <2>2. log' \in Seq(Entry)
    BY <1>15, <1>e, <2>1 DEF CommitWave
  <2>3. QED
    BY <1>15, <2>2, <1>b DEF CommitWave
<1>16. ASSUME NEW s \in Server, StampDirect(s) PROVE TypeOK'
  BY <1>16 DEF StampDirect
<1>17. ASSUME NEW s \in Server, BeginDirect(s) PROVE TypeOK'
  <2>1. [kind |-> "direct", tenure |-> stamped[s]] \in Solo
    BY DEF Solo
  <2>2. QED
    BY <1>17, <2>1 DEF BeginDirect
<1>18. ASSUME NEW s \in Server, BeginCompletion(s) PROVE TypeOK'
  <2>1. [kind |-> "completion", tenure |-> tenure[s]] \in Solo
    BY DEF Solo
  <2>2. QED
    BY <1>18, <2>1 DEF BeginCompletion
<1>19. ASSUME NEW s \in Server, CommitSolo(s) PROVE TypeOK'
  <2>1. solo[s].kind \in Kind
    BY <1>19 DEF CommitSolo, Solo, Kind
  <2>2. solo[s].tenure \in Nat /\ 0 \in Nat
    BY <1>19 DEF CommitSolo, Solo
  <2>3. CASE log' = log
    BY <1>19, <2>3 DEF CommitSolo
  <2>4. CASE Admit(solo[s].kind, s, solo[s].tenure, 0)
    <3>1. log' \in Seq(Entry)
      BY <1>e, <2>1, <2>2, <2>4
    <3>2. QED
      BY <1>19, <3>1 DEF CommitSolo
  <2>5. QED
    BY <1>19, <2>3, <2>4 DEF CommitSolo
<1>20. ASSUME NEW s \in Server, Notice(s) PROVE TypeOK'
  <2>1. "notice" \in Kind /\ 0 \in Nat /\ tenure[s] \in Nat
    BY DEF Kind
  <2>2. log' \in Seq(Entry)
    BY <1>20, <1>e, <2>1 DEF Notice
  <2>3. QED
    BY <1>20, <2>2 DEF Notice
<1>21. CASE UNCHANGED vars
  BY <1>21
<1>22. QED
  BY <1>1, <1>2, <1>3, <1>4, <1>5, <1>6, <1>7, <1>8, <1>9, <1>10,
     <1>11, <1>12, <1>13, <1>14, <1>15, <1>16, <1>17, <1>18, <1>19, <1>20, <1>21
  DEF Next, Cycle, Work

(* A server that holds the lease stays the one its host has registered. *)
LEMMA OneHolderInductive ==
  ASSUME TypeOK, OneHolder, [Next]_vars
  PROVE  OneHolder'
<1> USE HostOfAssumption, NoneAssumption, TTLAssumption, MaxTenureAssumption
<1> USE DEF TypeOK, OneHolder, vars, lease, hosts, cycles, waves, solos
<1>1. CASE Tick
  BY <1>1 DEF Tick
<1>2. ASSUME NEW p \in Process, Crash(p) PROVE OneHolder'
  BY <1>2 DEF Crash
<1>3. ASSUME NEW s \in Server, Activate(s) PROVE OneHolder'
  BY <1>3 DEF Activate, Acquirable, StartTenure, Hold
<1>4. ASSUME NEW s \in Server, RenewInitializing(s) PROVE OneHolder'
  BY <1>4 DEF RenewInitializing, RenewOk, LiveHolder, Hold
<1>5. ASSUME NEW s \in Server, RenewThrows(s) PROVE OneHolder'
  BY <1>5 DEF RenewThrows, Drop
<1>6. ASSUME NEW s \in Server, Install(s) PROVE OneHolder'
  BY <1>6 DEF Install, RenewOk, LiveHolder, Hold
<1>7. ASSUME NEW s \in Server, ActivationFailed(s) PROVE OneHolder'
  BY <1>7 DEF ActivationFailed, BeginPark
<1>8. ASSUME NEW s \in Server, RenewActive(s) PROVE OneHolder'
  <2>1. CASE RenewOk(s) /\ UNCHANGED <<cycles, waves>>
    BY <1>8, <2>1 DEF RenewActive, RenewOk, LiveHolder, Hold
  <2>2. CASE Acquirable(HostOf[s]) /\ StartTenure(s) /\ UNCHANGED <<phase, waves>>
    BY <1>8, <2>2 DEF RenewActive, StartTenure, Hold
  <2>3. CASE BeginPark(s) /\ held' = [held EXCEPT ![s] = FALSE] /\ UNCHANGED <<lease, tenure, closing>>
    BY <1>8, <2>3 DEF RenewActive, BeginPark
  <2>4. QED
    BY <1>8, <2>1, <2>2, <2>3 DEF RenewActive
<1>9. ASSUME NEW s \in Server, Park(s) PROVE OneHolder'
  BY <1>9 DEF Park, BeginPark
<1>10. ASSUME NEW s \in Server, ParkDone(s) PROVE OneHolder'
  BY <1>10 DEF ParkDone, Drop
<1>11. ASSUME NEW s \in Server, OpenWave(s) PROVE OneHolder'
  BY <1>11 DEF OpenWave
<1>12. ASSUME NEW s \in Server, CloseWave(s) PROVE OneHolder'
  BY <1>12 DEF CloseWave, IsCurrentTenure
<1>13. ASSUME NEW s \in Server, AbortAtEntry(s) PROVE OneHolder'
  BY <1>13 DEF AbortAtEntry, IsCurrentTenure, ParkOnAbort
<1>14. ASSUME NEW s \in Server, AbortAtHome(s) PROVE OneHolder'
  BY <1>14 DEF AbortAtHome, IsCurrentTenure, ParkOnAbort
<1>15. ASSUME NEW s \in Server, CommitWave(s) PROVE OneHolder'
  BY <1>15 DEF CommitWave
<1>16. ASSUME NEW s \in Server, StampDirect(s) PROVE OneHolder'
  BY <1>16 DEF StampDirect
<1>17. ASSUME NEW s \in Server, BeginDirect(s) PROVE OneHolder'
  BY <1>17 DEF BeginDirect
<1>18. ASSUME NEW s \in Server, BeginCompletion(s) PROVE OneHolder'
  BY <1>18 DEF BeginCompletion
<1>19. ASSUME NEW s \in Server, CommitSolo(s) PROVE OneHolder'
  BY <1>19 DEF CommitSolo
<1>20. ASSUME NEW s \in Server, Notice(s) PROVE OneHolder'
  BY <1>20 DEF Notice
<1>21. CASE UNCHANGED vars
  BY <1>21
<1>22. QED
  BY <1>1, <1>2, <1>3, <1>4, <1>5, <1>6, <1>7, <1>8, <1>9, <1>10,
     <1>11, <1>12, <1>13, <1>14, <1>15, <1>16, <1>17, <1>18, <1>19, <1>20, <1>21
  DEF Next, Cycle, Work

(* A row that names a server's process, while the server keeps its tenure,  *)
(* already named it before the step: only an acquire brings a row back.     *)
LEMMA StepContinuity ==
  ASSUME NEW t \in Server, TypeOK, OneHolder, [Next]_vars
  PROVE  Continuity(t)
<1> USE HostOfAssumption, NoneAssumption, TTLAssumption, MaxTenureAssumption
<1> USE DEF TypeOK, OneHolder, Continuity, vars, lease, hosts, cycles, waves, solos
<1>1. CASE Tick
  BY <1>1 DEF Tick
<1>2. ASSUME NEW p \in Process, Crash(p) PROVE Continuity(t)
  BY <1>2 DEF Crash
<1>3. ASSUME NEW s \in Server, Activate(s) PROVE Continuity(t)
  <2>1. t # s /\ HostOf[t] = HostOf[s] => ~held[t]
    BY <1>3, ZenonT(30) DEF Activate
  <2>2. tenure'[s] # tenure[s]
    BY <1>3 DEF Activate, StartTenure
  <2>3. t # s => held'[t] = held[t] /\ holder' = HostOf[s]
    BY <1>3 DEF Activate, StartTenure, Hold
  <2>4. QED
    BY <2>1, <2>2, <2>3
<1>4. ASSUME NEW s \in Server, RenewInitializing(s) PROVE Continuity(t)
  BY <1>4 DEF RenewInitializing, RenewOk, LiveHolder, Hold
<1>5. ASSUME NEW s \in Server, RenewThrows(s) PROVE Continuity(t)
  BY <1>5 DEF RenewThrows, Drop
<1>6. ASSUME NEW s \in Server, Install(s) PROVE Continuity(t)
  BY <1>6 DEF Install, RenewOk, LiveHolder, Hold
<1>7. ASSUME NEW s \in Server, ActivationFailed(s) PROVE Continuity(t)
  BY <1>7 DEF ActivationFailed, BeginPark
<1>8. ASSUME NEW s \in Server, RenewActive(s) PROVE Continuity(t)
  <2>1. CASE RenewOk(s) /\ UNCHANGED <<cycles, waves>>
    BY <1>8, <2>1 DEF RenewActive, RenewOk, LiveHolder, Hold
  <2>2. CASE Acquirable(HostOf[s]) /\ StartTenure(s) /\ UNCHANGED <<phase, waves>>
    <3>1. t # s /\ HostOf[t] = HostOf[s] => ~held[t]
      BY <1>8 DEF RenewActive
    <3>2. tenure'[s] # tenure[s]
      BY <2>2 DEF StartTenure
    <3>3. t # s => held'[t] = held[t] /\ holder' = HostOf[s]
      BY <2>2 DEF StartTenure, Hold
    <3>4. QED
      BY <3>1, <3>2, <3>3
  <2>3. CASE BeginPark(s) /\ held' = [held EXCEPT ![s] = FALSE] /\ UNCHANGED <<lease, tenure, closing>>
    BY <1>8, <2>3 DEF RenewActive, BeginPark
  <2>4. QED
    BY <1>8, <2>1, <2>2, <2>3 DEF RenewActive
<1>9. ASSUME NEW s \in Server, Park(s) PROVE Continuity(t)
  BY <1>9 DEF Park, BeginPark
<1>10. ASSUME NEW s \in Server, ParkDone(s) PROVE Continuity(t)
  BY <1>10 DEF ParkDone, Drop
<1>11. ASSUME NEW s \in Server, OpenWave(s) PROVE Continuity(t)
  BY <1>11 DEF OpenWave
<1>12. ASSUME NEW s \in Server, CloseWave(s) PROVE Continuity(t)
  BY <1>12 DEF CloseWave, IsCurrentTenure
<1>13. ASSUME NEW s \in Server, AbortAtEntry(s) PROVE Continuity(t)
  BY <1>13 DEF AbortAtEntry, IsCurrentTenure, ParkOnAbort
<1>14. ASSUME NEW s \in Server, AbortAtHome(s) PROVE Continuity(t)
  BY <1>14 DEF AbortAtHome, IsCurrentTenure, ParkOnAbort
<1>15. ASSUME NEW s \in Server, CommitWave(s) PROVE Continuity(t)
  BY <1>15 DEF CommitWave
<1>16. ASSUME NEW s \in Server, StampDirect(s) PROVE Continuity(t)
  BY <1>16 DEF StampDirect
<1>17. ASSUME NEW s \in Server, BeginDirect(s) PROVE Continuity(t)
  BY <1>17 DEF BeginDirect
<1>18. ASSUME NEW s \in Server, BeginCompletion(s) PROVE Continuity(t)
  BY <1>18 DEF BeginCompletion
<1>19. ASSUME NEW s \in Server, CommitSolo(s) PROVE Continuity(t)
  BY <1>19 DEF CommitSolo
<1>20. ASSUME NEW s \in Server, Notice(s) PROVE Continuity(t)
  BY <1>20 DEF Notice
<1>21. CASE UNCHANGED vars
  BY <1>21
<1>22. QED
  BY <1>1, <1>2, <1>3, <1>4, <1>5, <1>6, <1>7, <1>8, <1>9, <1>10,
     <1>11, <1>12, <1>13, <1>14, <1>15, <1>16, <1>17, <1>18, <1>19, <1>20, <1>21
  DEF Next, Cycle, Work

(* A step leaves a wave as it is, detaches the open one, ends one, or opens *)
(* one under the current tenure and over the whole log.                     *)
LEMMA StepWaves ==
  ASSUME NEW t \in Server, TypeOK, [Next]_vars
  PROVE  WavesAreNewer(t)
<1> USE HostOfAssumption, NoneAssumption, TTLAssumption, MaxTenureAssumption
<1> USE DEF TypeOK, WavesAreNewer, NewWave, vars, lease, hosts, cycles, waves, solos
<1>1. CASE Tick
  BY <1>1 DEF Tick
<1>2. ASSUME NEW p \in Process, Crash(p) PROVE WavesAreNewer(t)
  BY <1>2 DEF Crash
<1>3. ASSUME NEW s \in Server, Activate(s) PROVE WavesAreNewer(t)
  BY <1>3 DEF Activate, Acquirable, StartTenure, Hold
<1>4. ASSUME NEW s \in Server, RenewInitializing(s) PROVE WavesAreNewer(t)
  BY <1>4 DEF RenewInitializing, RenewOk, LiveHolder, Hold
<1>5. ASSUME NEW s \in Server, RenewThrows(s) PROVE WavesAreNewer(t)
  BY <1>5 DEF RenewThrows, Drop
<1>6. ASSUME NEW s \in Server, Install(s) PROVE WavesAreNewer(t)
  BY <1>6 DEF Install, RenewOk, LiveHolder, Hold
<1>7. ASSUME NEW s \in Server, ActivationFailed(s) PROVE WavesAreNewer(t)
  BY <1>7 DEF ActivationFailed, BeginPark
<1>8. ASSUME NEW s \in Server, RenewActive(s) PROVE WavesAreNewer(t)
  BY <1>8 DEF RenewActive, RenewOk, LiveHolder, Acquirable, Hold, StartTenure, BeginPark
<1>9. ASSUME NEW s \in Server, Park(s) PROVE WavesAreNewer(t)
  BY <1>9 DEF Park, BeginPark
<1>10. ASSUME NEW s \in Server, ParkDone(s) PROVE WavesAreNewer(t)
  BY <1>10 DEF ParkDone, Drop
<1>11. ASSUME NEW s \in Server, OpenWave(s) PROVE WavesAreNewer(t)
  BY <1>11 DEF OpenWave
<1>12. ASSUME NEW s \in Server, CloseWave(s) PROVE WavesAreNewer(t)
  BY <1>12 DEF CloseWave, IsCurrentTenure
<1>13. ASSUME NEW s \in Server, AbortAtEntry(s) PROVE WavesAreNewer(t)
  BY <1>13 DEF AbortAtEntry, IsCurrentTenure, ParkOnAbort
<1>14. ASSUME NEW s \in Server, AbortAtHome(s) PROVE WavesAreNewer(t)
  BY <1>14 DEF AbortAtHome, IsCurrentTenure, ParkOnAbort
<1>15. ASSUME NEW s \in Server, CommitWave(s) PROVE WavesAreNewer(t)
  BY <1>15 DEF CommitWave
<1>16. ASSUME NEW s \in Server, StampDirect(s) PROVE WavesAreNewer(t)
  BY <1>16 DEF StampDirect
<1>17. ASSUME NEW s \in Server, BeginDirect(s) PROVE WavesAreNewer(t)
  BY <1>17 DEF BeginDirect
<1>18. ASSUME NEW s \in Server, BeginCompletion(s) PROVE WavesAreNewer(t)
  BY <1>18 DEF BeginCompletion
<1>19. ASSUME NEW s \in Server, CommitSolo(s) PROVE WavesAreNewer(t)
  BY <1>19 DEF CommitSolo
<1>20. ASSUME NEW s \in Server, Notice(s) PROVE WavesAreNewer(t)
  BY <1>20 DEF Notice
<1>21. CASE UNCHANGED vars
  BY <1>21
<1>22. QED
  BY <1>1, <1>2, <1>3, <1>4, <1>5, <1>6, <1>7, <1>8, <1>9, <1>10,
     <1>11, <1>12, <1>13, <1>14, <1>15, <1>16, <1>17, <1>18, <1>19, <1>20, <1>21
  DEF Next, Cycle, Work

(* Tenures grow by one at a time, and starting one touches no wave.         *)
LEMMA StepTenure ==
  ASSUME NEW t \in Server, TypeOK, [Next]_vars
  PROVE  TenureGrows(t)
<1> USE HostOfAssumption, NoneAssumption, TTLAssumption, MaxTenureAssumption
<1> USE DEF TypeOK, TenureGrows, vars, lease, hosts, cycles, waves, solos
<1>1. CASE Tick
  BY <1>1 DEF Tick
<1>2. ASSUME NEW p \in Process, Crash(p) PROVE TenureGrows(t)
  BY <1>2 DEF Crash
<1>3. ASSUME NEW s \in Server, Activate(s) PROVE TenureGrows(t)
  BY <1>3 DEF Activate, Acquirable, StartTenure, Hold
<1>4. ASSUME NEW s \in Server, RenewInitializing(s) PROVE TenureGrows(t)
  BY <1>4 DEF RenewInitializing, RenewOk, LiveHolder, Hold
<1>5. ASSUME NEW s \in Server, RenewThrows(s) PROVE TenureGrows(t)
  BY <1>5 DEF RenewThrows, Drop
<1>6. ASSUME NEW s \in Server, Install(s) PROVE TenureGrows(t)
  BY <1>6 DEF Install, RenewOk, LiveHolder, Hold
<1>7. ASSUME NEW s \in Server, ActivationFailed(s) PROVE TenureGrows(t)
  BY <1>7 DEF ActivationFailed, BeginPark
<1>8. ASSUME NEW s \in Server, RenewActive(s) PROVE TenureGrows(t)
  BY <1>8 DEF RenewActive, RenewOk, LiveHolder, Acquirable, Hold, StartTenure, BeginPark
<1>9. ASSUME NEW s \in Server, Park(s) PROVE TenureGrows(t)
  BY <1>9 DEF Park, BeginPark
<1>10. ASSUME NEW s \in Server, ParkDone(s) PROVE TenureGrows(t)
  BY <1>10 DEF ParkDone, Drop
<1>11. ASSUME NEW s \in Server, OpenWave(s) PROVE TenureGrows(t)
  BY <1>11 DEF OpenWave
<1>12. ASSUME NEW s \in Server, CloseWave(s) PROVE TenureGrows(t)
  BY <1>12 DEF CloseWave, IsCurrentTenure
<1>13. ASSUME NEW s \in Server, AbortAtEntry(s) PROVE TenureGrows(t)
  BY <1>13 DEF AbortAtEntry, IsCurrentTenure, ParkOnAbort
<1>14. ASSUME NEW s \in Server, AbortAtHome(s) PROVE TenureGrows(t)
  BY <1>14 DEF AbortAtHome, IsCurrentTenure, ParkOnAbort
<1>15. ASSUME NEW s \in Server, CommitWave(s) PROVE TenureGrows(t)
  BY <1>15 DEF CommitWave
<1>16. ASSUME NEW s \in Server, StampDirect(s) PROVE TenureGrows(t)
  BY <1>16 DEF StampDirect
<1>17. ASSUME NEW s \in Server, BeginDirect(s) PROVE TenureGrows(t)
  BY <1>17 DEF BeginDirect
<1>18. ASSUME NEW s \in Server, BeginCompletion(s) PROVE TenureGrows(t)
  BY <1>18 DEF BeginCompletion
<1>19. ASSUME NEW s \in Server, CommitSolo(s) PROVE TenureGrows(t)
  BY <1>19 DEF CommitSolo
<1>20. ASSUME NEW s \in Server, Notice(s) PROVE TenureGrows(t)
  BY <1>20 DEF Notice
<1>21. CASE UNCHANGED vars
  BY <1>21
<1>22. QED
  BY <1>1, <1>2, <1>3, <1>4, <1>5, <1>6, <1>7, <1>8, <1>9, <1>10,
     <1>11, <1>12, <1>13, <1>14, <1>15, <1>16, <1>17, <1>18, <1>19, <1>20, <1>21
  DEF Next, Cycle, Work

(* A step that extends the derived log is a commit by a server while the   *)
(* row names its process; but for a notice, its host has it registered, and *)
(* a wave is of the current tenure.                                         *)
LEMMA StepLog ==
  ASSUME TypeOK, OneHolder, [Next]_vars
  PROVE  LoggedWell
<1> USE HostOfAssumption, NoneAssumption, TTLAssumption, MaxTenureAssumption
<1> USE DEF TypeOK, OneHolder, LoggedWell, vars, lease, hosts, cycles, waves, solos
<1>1. CASE Tick
  BY <1>1 DEF Tick
<1>2. ASSUME NEW p \in Process, Crash(p) PROVE LoggedWell
  BY <1>2 DEF Crash
<1>3. ASSUME NEW s \in Server, Activate(s) PROVE LoggedWell
  BY <1>3 DEF Activate, Acquirable, StartTenure, Hold
<1>4. ASSUME NEW s \in Server, RenewInitializing(s) PROVE LoggedWell
  BY <1>4 DEF RenewInitializing, RenewOk, LiveHolder, Hold
<1>5. ASSUME NEW s \in Server, RenewThrows(s) PROVE LoggedWell
  BY <1>5 DEF RenewThrows, Drop
<1>6. ASSUME NEW s \in Server, Install(s) PROVE LoggedWell
  BY <1>6 DEF Install, RenewOk, LiveHolder, Hold
<1>7. ASSUME NEW s \in Server, ActivationFailed(s) PROVE LoggedWell
  BY <1>7 DEF ActivationFailed, BeginPark
<1>8. ASSUME NEW s \in Server, RenewActive(s) PROVE LoggedWell
  BY <1>8 DEF RenewActive, RenewOk, LiveHolder, Acquirable, Hold, StartTenure, BeginPark
<1>9. ASSUME NEW s \in Server, Park(s) PROVE LoggedWell
  BY <1>9 DEF Park, BeginPark
<1>10. ASSUME NEW s \in Server, ParkDone(s) PROVE LoggedWell
  BY <1>10 DEF ParkDone, Drop
<1>11. ASSUME NEW s \in Server, OpenWave(s) PROVE LoggedWell
  BY <1>11 DEF OpenWave
<1>12. ASSUME NEW s \in Server, CloseWave(s) PROVE LoggedWell
  BY <1>12 DEF CloseWave, IsCurrentTenure
<1>13. ASSUME NEW s \in Server, AbortAtEntry(s) PROVE LoggedWell
  BY <1>13 DEF AbortAtEntry, IsCurrentTenure, ParkOnAbort
<1>14. ASSUME NEW s \in Server, AbortAtHome(s) PROVE LoggedWell
  BY <1>14 DEF AbortAtHome, IsCurrentTenure, ParkOnAbort
<1>e. ASSUME NEW s \in Server, NEW k \in Kind, NEW f \in Nat, NEW b \in Nat, Admit(k, s, f, b)
      PROVE  \E e \in Entry :
               /\ log' = Append(log, e) /\ e.server = s /\ e.tenure = tenure[s]
               /\ holder = HostOf[s] /\ e.kind = k /\ e.from = f /\ e.basis = b
  <2> DEFINE e == [kind |-> k, server |-> s, from |-> f, tenure |-> tenure[s], basis |-> b]
  <2>1. e \in Entry
    BY DEF Entry
  <2>2. QED
    BY <1>e, <2>1 DEF Admit, LiveHolder
<1>15. ASSUME NEW s \in Server, CommitWave(s) PROVE LoggedWell
  <2>1. CASE log' = log
    BY <2>1
  <2>2. CASE Admit("wave", s, closing[s].tenure, closing[s].basis)
    <3>1. "wave" \in Kind /\ closing[s].tenure \in Nat /\ closing[s].basis \in Nat
      BY DEF Wave, Kind
    <3>2. held[s] /\ closing[s].tenure = tenure[s] /\ registered[HostOf[s]] = s
      BY <1>15 DEF CommitWave, IsCurrentTenure
    <3>3. QED
      BY <1>e, <2>2, <3>1, <3>2 DEF LoggedBy
  <2>3. QED
    BY <1>15, <2>1, <2>2 DEF CommitWave
<1>16. ASSUME NEW s \in Server, StampDirect(s) PROVE LoggedWell
  BY <1>16 DEF StampDirect
<1>17. ASSUME NEW s \in Server, BeginDirect(s) PROVE LoggedWell
  BY <1>17 DEF BeginDirect
<1>18. ASSUME NEW s \in Server, BeginCompletion(s) PROVE LoggedWell
  BY <1>18 DEF BeginCompletion
<1>19. ASSUME NEW s \in Server, CommitSolo(s) PROVE LoggedWell
  <2>1. CASE log' = log
    BY <2>1
  <2>2. CASE Admit(solo[s].kind, s, solo[s].tenure, 0)
    <3>1. solo[s].kind \in {"direct", "completion"} /\ solo[s].tenure \in Nat
      BY <1>19 DEF CommitSolo, Solo
    <3>2. registered[HostOf[s]] = s
      BY <1>19 DEF CommitSolo
    <3>3. solo[s].kind \in Kind /\ solo[s].kind # "wave" /\ 0 \in Nat
      BY <3>1 DEF Kind
    <3>4. QED
      BY <1>e, <2>2, <3>1, <3>2, <3>3 DEF LoggedBy
  <2>3. QED
    BY <1>19, <2>1, <2>2 DEF CommitSolo
<1>20. ASSUME NEW s \in Server, Notice(s) PROVE LoggedWell
  <2>1. "notice" \in Kind /\ 0 \in Nat /\ tenure[s] \in Nat
    BY DEF Kind
  <2>2. Admit("notice", s, tenure[s], 0)
    BY <1>20 DEF Notice
  <2>3. QED
    BY <1>e, <2>1, <2>2 DEF LoggedWell, LoggedBy
<1>21. CASE UNCHANGED vars
  BY <1>21
<1>22. QED
  BY <1>1, <1>2, <1>3, <1>4, <1>5, <1>6, <1>7, <1>8, <1>9, <1>10,
     <1>11, <1>12, <1>13, <1>14, <1>15, <1>16, <1>17, <1>18, <1>19, <1>20, <1>21
  DEF Next, Cycle, Work

(* Waves stay sealed under the current or an earlier tenure.                *)
LEMMA SealedEarlierInductive ==
  ASSUME TypeOK, OneHolder, SealedEarlier, [Next]_vars
  PROVE  SealedEarlier'
<1>1. TypeOK'
  BY TypeInductive
<1>2. Len(log) \in Nat /\ Len(log') \in Nat /\ Len(log) <= Len(log')
  <2>1. Len(log) \in Nat /\ Len(log') \in Nat
    BY <1>1 DEF TypeOK
  <2>2. ASSUME NEW s \in Server, NEW e \in Entry, LoggedBy(s, e)
        PROVE  Len(log') = Len(log) + 1
    BY <2>2 DEF TypeOK, LoggedBy
  <2>3. QED
    BY <2>1, <2>2, StepLog DEF LoggedWell
<1>3. SUFFICES ASSUME NEW t \in Server
               PROVE  /\ open'[t].tenure <= tenure'[t] /\ open'[t].basis <= Len(log')
                      /\ closing'[t].tenure <= tenure'[t] /\ closing'[t].basis <= Len(log')
  BY DEF SealedEarlier
<1>4. /\ open[t].tenure <= tenure[t] /\ open[t].basis <= Len(log)
      /\ closing[t].tenure <= tenure[t] /\ closing[t].basis <= Len(log)
  BY DEF SealedEarlier
<1>5. WavesAreNewer(t) /\ TenureGrows(t)
  BY StepWaves, StepTenure
<1>6. /\ tenure[t] \in Nat /\ tenure'[t] \in Nat
      /\ open[t] \in Wave /\ closing[t] \in Wave
  BY <1>1 DEF TypeOK
<1>7. tenure[t] <= tenure'[t]
  BY <1>5, <1>6 DEF TenureGrows
<1>8. \A w \in {open[t], closing[t], NoWave, NewWave(t)} :
        w.tenure <= tenure'[t] /\ w.basis <= Len(log')
  <2>1. \A w \in {open[t], closing[t]} : w.tenure <= tenure'[t] /\ w.basis <= Len(log')
    BY <1>2, <1>4, <1>6, <1>7, SMTT(30) DEF Wave
  <2>2. \A w \in {NoWave, NewWave(t)} : w.tenure <= tenure'[t] /\ w.basis <= Len(log')
    BY <1>2, <1>6, <1>7 DEF NoWave, NewWave
  <2>3. QED
    BY <2>1, <2>2
<1>9. QED
  BY <1>5, <1>8 DEF WavesAreNewer

(* While a tenure lasts, what was derived since its waves opened stays its  *)
(* own.                                                                     *)
LEMMA UndisturbedInductive ==
  ASSUME TypeOK, OneHolder, SealedEarlier, Undisturbed, [Next]_vars
  PROVE  Undisturbed'
<1>1. SUFFICES ASSUME NEW t \in Server, held'[t], holder' = HostOf[t],
                      NEW w \in {open'[t], closing'[t]}, w.tenure = tenure'[t],
                      NEW j \in 1..Len(log'), w.basis < j, log'[j].kind # "notice"
               PROVE  log'[j].server = t /\ log'[j].tenure = tenure'[t]
  BY DEF Undisturbed, OnlySince
<1>2. TypeOK' /\ Continuity(t) /\ WavesAreNewer(t) /\ TenureGrows(t) /\ LoggedWell
  BY TypeInductive, StepContinuity, StepWaves, StepTenure, StepLog
<1>3. OneHolder'
  BY OneHolderInductive
<1>4. /\ tenure[t] \in Nat /\ tenure'[t] \in Nat /\ Len(log) \in Nat
      /\ open[t] \in Wave /\ closing[t] \in Wave
  BY <1>2 DEF TypeOK
<1>5. tenure'[t] = tenure[t]
  <2>1. open[t].tenure <= tenure[t] /\ closing[t].tenure <= tenure[t]
    BY DEF SealedEarlier
  <2>2. w \in {open[t], closing[t]} => w.tenure # tenure[t] + 1
    BY <1>4, <2>1 DEF Wave
  <2>3. QED
    BY <1>1, <1>2, <1>4, <2>2 DEF TenureGrows
<1>6. held[t] /\ holder = HostOf[t]
  BY <1>1, <1>2, <1>5 DEF Continuity
<1>7. tenure'[t] > 0
  BY <1>1, <1>3 DEF OneHolder
<1>8. w \in {open[t], closing[t], NewWave(t)}
  BY <1>1, <1>2, <1>4, <1>7 DEF WavesAreNewer, NoWave
<1>9. w # NewWave(t) =>
        \A i \in 1..Len(log) :
          w.basis < i /\ log[i].kind # "notice" => log[i].server = t /\ log[i].tenure = tenure[t]
  BY <1>1, <1>5, <1>6, <1>8 DEF Undisturbed, OnlySince
<1>10. \A i \in 1..Len(log) :
          w.basis < i /\ log[i].kind # "notice" => log[i].server = t /\ log[i].tenure = tenure[t]
  BY <1>4, <1>9 DEF NewWave
<1>11. CASE log' = log
  BY <1>1, <1>5, <1>10, <1>11
<1>12. ASSUME NEW s \in Server, NEW e \in Entry, LoggedBy(s, e)
       PROVE  log'[j].server = t /\ log'[j].tenure = tenure'[t]
  <2>1. e.kind # "notice" => s = t
    <3>1. registered[HostOf[t]] = t
      BY <1>6 DEF OneHolder
    <3>2. QED
      BY <1>6, <1>12, <3>1 DEF LoggedBy
  <2>2. /\ Len(log') = Len(log) + 1 /\ log'[Len(log) + 1] = e
        /\ \A i \in 1..Len(log) : log'[i] = log[i]
    BY <1>12 DEF TypeOK, LoggedBy
  <2>3. CASE j \in 1..Len(log)
    BY <1>1, <1>5, <1>10, <2>2, <2>3
  <2>4. CASE j = Len(log) + 1
    BY <1>1, <1>5, <1>12, <2>1, <2>2, <2>4 DEF LoggedBy
  <2>5. QED
    BY <1>1, <1>4, <2>2, <2>3, <2>4
<1>13. QED
  BY <1>2, <1>11, <1>12 DEF LoggedWell

(* A wave admitted by a step was not overtaken by another tenure.           *)
LEMMA SingleDeriverInductive ==
  ASSUME TypeOK, OneHolder, SealedEarlier, Undisturbed, SingleDeriver, [Next]_vars
  PROVE  SingleDeriver'
<1>1. LoggedWell /\ Len(log) \in Nat
  BY StepLog DEF TypeOK
<1>2. CASE log' = log
  BY <1>2 DEF SingleDeriver
<1>3. ASSUME NEW s \in Server, NEW e \in Entry, LoggedBy(s, e)
      PROVE  SingleDeriver'
  <2>0. e.kind = "wave" => e.basis = closing[s].basis /\ e.from = tenure[s]
    BY <1>3 DEF LoggedBy
  <2>1. e.kind = "wave" =>
          \A j \in 1..Len(log) :
            e.basis < j /\ log[j].kind # "notice" =>
              log[j].server = s /\ log[j].tenure = tenure[s]
    BY <1>1, <1>3, <2>0 DEF Undisturbed, OnlySince, LoggedBy
  <2>2. /\ Len(log') = Len(log) + 1
        /\ \A i \in 1..Len(log) : log'[i] = log[i]
        /\ log'[Len(log) + 1] = e
    BY <1>3 DEF TypeOK, LoggedBy
  <2>3. SUFFICES ASSUME NEW i \in 1..Len(log'), NEW j \in 1..(i - 1),
                        log'[i].kind = "wave", log'[i].basis < j,
                        log'[j].kind # "notice"
                 PROVE  log'[j].server = log'[i].server /\ log'[j].tenure = log'[i].from
    BY DEF SingleDeriver
  <2>4. CASE i \in 1..Len(log)
    BY <1>1, <2>2, <2>3, <2>4 DEF SingleDeriver
  <2>5. CASE i = Len(log) + 1
    <3>1. j \in 1..Len(log) /\ log'[j] = log[j] /\ log'[i] = e
      BY <1>1, <2>2, <2>5
    <3>2. e.server = s /\ e.from = tenure[s]
      BY <1>3, <2>0, <2>3, <3>1 DEF LoggedBy
    <3>3. QED
      BY <2>1, <2>3, <3>1, <3>2
  <2>6. QED
    BY <1>1, <2>2, <2>4, <2>5
<1>4. QED
  BY <1>1, <1>2, <1>3 DEF LoggedWell

-----------------------------------------------------------------------------
(* The inductive invariant holds initially.                                 *)
LEMMA InitInv == Init => Inv
<1> SUFFICES ASSUME Init PROVE Inv
  OBVIOUS
<1> USE NoneAssumption, TTLAssumption DEF Init, NoWave
<1>1. TypeOK
  BY DEF TypeOK, Phase, Wave, Entry
<1>2. OneHolder /\ SealedEarlier
  BY DEF OneHolder, SealedEarlier
<1>3. Undisturbed /\ SingleDeriver
  BY DEF Undisturbed, SingleDeriver
<1>4. QED
  BY <1>1, <1>2, <1>3 DEF Inv

(* The inductive invariant is preserved by every step.                      *)
LEMMA InvInductive == Inv /\ [Next]_vars => Inv'
  BY TypeInductive, OneHolderInductive, SealedEarlierInductive, UndisturbedInductive,
     SingleDeriverInductive DEF Inv

(* The inductive invariant holds in every reachable state: type, one holder *)
(* per host, the age of waves, and undisturbed tenures (wave.ts, host.ts).  *)
THEOREM InvHolds == Spec => []Inv
  BY InitInv, InvInductive, PTL DEF Spec

(* The state of the lease, the hosts and the waves has the declared types. *)
THEOREM TypeCorrect == Spec => []TypeOK
<1>1. Inv => TypeOK
  BY DEF Inv
<1>2. QED
  BY <1>1, InvHolds, PTL

(* No derived commit of another tenure or server, by a wave, a direct      *)
(* commit or a completion, lands between the opening of a wave and its     *)
(* commit: the tenure check of wave.ts together with the engine's check of *)
(* the live row is enough, for any number of processes, activations and    *)
(* tenures.                                                                *)
THEOREM DeriverIsSingle == Spec => []SingleDeriver
<1>1. Inv => SingleDeriver
  BY DEF Inv
<1>2. QED
  BY <1>1, InvHolds, PTL

(* Releasing by holder identity never removes the row under another tenure *)
(* of the same process, because the host waits for a park to complete.     *)
THEOREM ReleaseIsOwn == Spec => ReleaseSparesSuccessor
<1> USE HostOfAssumption, NoneAssumption DEF vars, lease, hosts, cycles, waves, solos
<1> DEFINE Spared == \A s \in Server : holder = HostOf[s] /\ holder' = None /\ held[s] => ~held'[s]
<1>1. ASSUME Inv, [Next]_vars PROVE Spared
  <2>1. SUFFICES ASSUME NEW t \in Server, holder = HostOf[t], holder' = None, held[t]
                 PROVE  ~held'[t]
    OBVIOUS
  <2>2. TypeOK /\ OneHolder /\ holder # None /\ holder \in Process
    BY <1>1, <2>1 DEF Inv, TypeOK
  <2>3. ASSUME NEW s \in Server, RenewThrows(s) \/ ParkDone(s) PROVE ~held'[t]
    <3>1. HostOf[s] = holder
      BY <2>1, <2>2, <2>3 DEF RenewThrows, ParkDone, Drop
    <3>2. phase[s] \in {"initializing", "parking"}
      BY <2>3 DEF RenewThrows, ParkDone
    <3>3. s = t
      BY <2>1, <2>2, <3>1, <3>2 DEF OneHolder
    <3>4. QED
      BY <2>2, <2>3, <3>3 DEF RenewThrows, ParkDone, TypeOK
  <2>4. holder' = holder \/ holder' \in Process
        \/ \E s \in Server : RenewThrows(s) \/ ParkDone(s)
    <3>1. ASSUME NEW s \in Server, Cycle(s) \/ Work(s)
          PROVE  holder' = holder \/ holder' \in Process \/ RenewThrows(s) \/ ParkDone(s)
      BY <3>1 DEF Cycle, Work, Activate, StartTenure, Hold, RenewInitializing, RenewOk,
           Install, ActivationFailed, RenewActive, Park, OpenWave, CloseWave,
           AbortAtEntry, AbortAtHome, CommitWave,
           StampDirect, BeginDirect, BeginCompletion, CommitSolo, Notice
    <3>2. Tick \/ (\E p \in Process : Crash(p)) \/ UNCHANGED vars => holder' = holder
      BY DEF Tick, Crash
    <3>3. QED
      BY <1>1, <3>1, <3>2 DEF Next
  <2>5. QED
    BY <2>1, <2>2, <2>3, <2>4
<1>2. Spec => [][Spared]_vars
  BY <1>1, InvHolds, PTL DEF Spec
<1>3. QED
  BY <1>2 DEF ReleaseSparesSuccessor
=============================================================================
