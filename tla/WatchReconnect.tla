--------------------------- MODULE WatchReconnect ---------------------------
(***************************************************************************)
(* The watches of a session across the loss of its connection: the          *)
(* reconnect loop of MemoryClient, the restore of its SpaceSession, and the *)
(* chain of watch mutations both share (memory/v2/client.ts).               *)
(*                                                                          *)
(* The client is one JavaScript thread.  A task (a call, a message, a timer,*)
(* a close event, the completion of a signature) is followed by the         *)
(* continuations it makes ready, and the next task starts after them: every *)
(* action but the continuations waits for Quiet.  Replayed commits and      *)
(* takeovers are in SessionProtocol, from which only the one refusal of an  *)
(* open is kept: of a token that the server has replaced by one the client  *)
(* never received.                                                          *)
(***************************************************************************)
EXTENDS Integers, Sequences, SequencesExt

CONSTANTS MaxCalls,    \* bound on the watch mutations of the callers
          MaxLosses,   \* bound on the connections lost
          Signs,       \* an openAuthFactory signs each open: it takes a task
          Forgets,     \* the server may have forgotten a session it lost
          Calm,        \* the situations in which the client fails are left out
          Modes        \* the values of #concurrentWatchRefresh

ASSUME BoundsAssumption ==
  /\ MaxCalls \in Nat /\ MaxLosses \in Nat
  /\ {Signs, Forgets, Calm} \union Modes \subseteq BOOLEAN

VARIABLES
  connected,  \* #connected
  loop,       \* what #reconnecting is at; "none" when it is null
  chain,      \* the watch mutations not yet settled, in call order
  specs,      \* #watchSpecs: the watches to re-establish
  closed,     \* #closed: the session was terminated
  concurrent, \* #concurrentWatchRefresh, set before the first watch
  calls, losses,
  up, down,   \* frames in flight on the connection
  opened,     \* what became of session.open on this connection, if it came:
              \* "no", "refused" or "yes"
  known,      \* its registry has the session
  rotated,    \* under a token the client has not received
  watching,   \* the watches of the session there
  bare        \* a connection was lost between the opening of a fresh session
              \* and the answer to the re-establishment of its watches

clientVars == <<connected, loop, chain, specs, closed, concurrent>>
serverVars == <<opened, known, rotated, watching, bare>>
vars == <<clientVars, calls, losses, up, down, serverVars>>

\* Call n adds the watch n, or removes an earlier one; restore's own
\* mutation has the number 0.
Mutation(n, op, w) ==
  [id |-> n, op |-> op, watch |-> w, at |-> "queued", set |-> {}]
Frame(e) == [type |-> IF e.op = "add" THEN "add" ELSE "set", id |-> e.id, set |-> e.set]
Open     == [type |-> "open", id |-> 0, set |-> {}]
Answer(type, n, ok) == [type |-> type, id |-> n, ok |-> ok]

Init ==
  /\ connected = TRUE /\ loop = "none" /\ chain = <<>> /\ specs = {}
  /\ closed = FALSE /\ concurrent \in Modes
  /\ calls = 0 /\ losses = 0
  /\ up = <<>> /\ down = <<>>
  /\ opened = "yes" /\ known = TRUE /\ rotated = FALSE /\ watching = {}
  /\ bare = FALSE

(***************************************************************************)
(* The continuations of the mutation chain, #runWatchMutation               *)
(***************************************************************************)
\* One at a time, a mutation is sent when it is the first.  Concurrently, it
\* is sent when those before it are, unless it replaces the whole set: that
\* set is taken when all of them are applied.
ReadyTooEarly(i) ==
  /\ chain[i].at = "queued"
  /\ IF concurrent THEN \A j \in 1..(i - 1) : chain[j].at # "queued" ELSE i = 1
Ready(i) ==
  /\ chain[i].at = "queued"
  /\ IF concurrent /\ chain[i].op = "add"
     THEN \A j \in 1..(i - 1) : chain[j].at # "queued"
     ELSE i = 1

Settled == chain # <<>> /\ Head(chain).at \in {"answered", "failed"}
Quiet == ~Settled /\ \A i \in DOMAIN chain : ~Ready(i)

\* send: the request goes out at once on a live connection, and waits for
\* the reconnect loop to end on a lost one.
Issue(i) ==
  /\ Ready(i)
  /\ LET e    == chain[i]
         kept == IF e.op = "remove" THEN specs \ {e.watch} ELSE specs
         sent == [e EXCEPT !.at = IF connected THEN "sent" ELSE "waiting",
                           !.set = IF e.op = "add" THEN {e.watch} ELSE kept]
     IN /\ specs' = kept
        /\ chain' = [chain EXCEPT ![i] = sent]
        /\ up' = IF connected THEN Append(up, Frame(sent)) ELSE up
  /\ UNCHANGED <<connected, loop, closed, concurrent, calls, losses, down, serverVars>>

\* The loop ends, and the requests that waited for it go out.
Released(es) == [i \in DOMAIN es |->
  IF es[i].at = "waiting" THEN [es[i] EXCEPT !.at = "sent"] ELSE es[i]]
Late(es) ==
  FoldLeft(LAMBDA fs, e : IF e.at = "waiting" THEN Append(fs, Frame(e)) ELSE fs, <<>>, es)
EndLoop(es) ==
  /\ loop' = "none"
  /\ chain' = Released(es)
  /\ up' = up \o Late(es)

\* apply, and for restore's own mutation the end of restore.
ApplyFirst ==
  /\ Settled /\ Head(chain).at = "answered"
  /\ LET e == Head(chain)
     IN /\ specs' = IF e.op = "add" THEN specs \union {e.watch}
                    ELSE IF e.op = "restore" THEN e.set ELSE specs
        /\ IF e.op = "restore" THEN EndLoop(Tail(chain))
           ELSE chain' = Tail(chain) /\ UNCHANGED <<loop, up>>
  /\ UNCHANGED <<connected, closed, concurrent, calls, losses, down, serverVars>>

\* A failed mutation leaves the chain; restore's own fails the loop's turn.
FailFirst ==
  /\ Settled /\ Head(chain).at = "failed"
  /\ chain' = Tail(chain)
  /\ IF Head(chain).op = "restore"
     THEN loop' = "delay" /\ connected' = FALSE
     ELSE UNCHANGED <<loop, connected>>
  /\ UNCHANGED <<specs, closed, concurrent, calls, losses, up, down, serverVars>>

(***************************************************************************)
(* The tasks of the client                                                  *)
(***************************************************************************)
\* What the client fails on: a loss while an open is being signed; a call that
\* waits for the loop, or a loss while the loop's own mutation still queues
\* behind calls, when the server has forgotten the session; and a removal that
\* waits for the loop in concurrent mode.
MayCall == Calm => connected \/ known
MayRemove == Calm /\ concurrent => connected
MayLose == Calm =>
  /\ loop # "sign"
  /\ \A i \in DOMAIN chain : chain[i].at = "queued" =>
       chain[i].op # "restore" /\ (concurrent => chain[i].op # "remove")
  /\ known' \/ \A i \in DOMAIN chain : chain[i].at = "sent"

\* watchAddSync and watchRemoveSync.
Call ==
  /\ Quiet /\ ~closed /\ calls < MaxCalls
  /\ MayCall
  /\ calls' = calls + 1
  /\ \/ chain' = Append(chain, Mutation(calls + 1, "add", calls + 1))
     \/ MayRemove /\ \E w \in 1..calls : chain' = Append(chain, Mutation(calls + 1, "remove", w))
  /\ UNCHANGED <<connected, loop, specs, closed, concurrent, losses, up, down, serverVars>>

\* #onClose: what was sent is rejected, which fails the turn of a loop that
\* awaits an answer; a loop that awaits something else does not notice.
FreshOpen == \E i \in DOMAIN down : down[i].type = "opened" /\ ~down[i].ok
Loses(awaiting, rejected) ==
  /\ Quiet /\ ~closed /\ losses < MaxLosses
  /\ connected \/ loop = "hello"
  /\ losses' = losses + 1
  /\ connected' = FALSE
  /\ chain' = [i \in DOMAIN chain |->
       IF chain[i].at \in rejected THEN [chain[i] EXCEPT !.at = "failed"] ELSE chain[i]]
  /\ loop' = CASE loop = "none" -> "hello"
               [] loop \in awaiting -> "delay"
               [] OTHER -> loop
  /\ up' = <<>> /\ down' = <<>> /\ opened' = "no"
  /\ known' \in {known} \union (IF Forgets THEN {FALSE} ELSE {})
  /\ MayLose
  /\ watching' = IF known' THEN watching ELSE {}
  /\ bare' = (known' /\ (bare \/ loop = "rewatch" \/ FreshOpen))
  /\ UNCHANGED <<specs, closed, concurrent, calls, rotated>>
CloseEventStrandsOpen  == Loses({"hello"}, {"sent"})
CloseEventStrandsCalls == Loses({"hello", "open"}, {})
CloseEventFailsRewatch == Loses({"hello", "open", "rewatch"}, {"sent"})
CloseEvent == Loses({"hello", "open"}, {"sent"})

DelayOver ==
  /\ Quiet /\ loop = "delay"
  /\ loop' = "hello"
  /\ UNCHANGED <<connected, chain, specs, closed, concurrent, calls, losses, up, down, serverVars>>

\* hello.ok, and restore up to its first wait.
HelloOkWatchesFirst ==
  /\ Quiet /\ loop = "hello"
  /\ connected' = TRUE /\ loop' = "rewatch"
  /\ chain' = Append(chain, Mutation(0, "restore", 0))
  /\ UNCHANGED <<specs, closed, concurrent, calls, losses, up, down, serverVars>>
HelloOk ==
  /\ Quiet /\ loop = "hello"
  /\ connected' = TRUE
  /\ IF Signs THEN loop' = "sign" /\ UNCHANGED up
     ELSE loop' = "open" /\ up' = Append(up, Open)
  /\ UNCHANGED <<chain, specs, closed, concurrent, calls, losses, down, serverVars>>

\* The signature is there and openSession is called: its request waits for
\* the loop when the connection was lost in the meantime, and the loop waits
\* for the request.
Signed ==
  /\ Quiet /\ loop = "sign"
  /\ IF connected THEN loop' = "open" /\ up' = Append(up, Open)
     ELSE loop' = "itself" /\ UNCHANGED up
  /\ UNCHANGED <<connected, chain, specs, closed, concurrent, calls, losses, down, serverVars>>

\* The rest of restore.  A session the server had forgotten has its watches
\* set again, by a mutation that takes its place in the chain.
ReceiveOpenedTrusts ==
  /\ Quiet /\ down # <<>> /\ Head(down).type = "opened"
  /\ down' = Tail(down) /\ rotated' = FALSE
  /\ EndLoop(chain)
  /\ UNCHANGED <<connected, specs, closed, concurrent, calls, losses, opened, known, watching, bare>>
ReceiveOpened ==
  /\ Quiet /\ down # <<>> /\ Head(down).type = "opened"
  /\ down' = Tail(down) /\ rotated' = FALSE
  /\ IF Head(down).ok \/ specs = {}
     THEN EndLoop(chain)
     ELSE /\ loop' = "rewatch"
          /\ chain' = Append(chain, Mutation(0, "restore", 0))
          /\ UNCHANGED up
  /\ UNCHANGED <<connected, specs, closed, concurrent, calls, losses, opened, known, watching, bare>>

\* A refused open ends the session, and the loop has nothing left to restore.
ReceiveRevoked ==
  /\ Quiet /\ down # <<>> /\ Head(down).type = "revoked"
  /\ down' = Tail(down)
  /\ closed' = TRUE /\ specs' = {}
  /\ EndLoop(chain)
  /\ UNCHANGED <<connected, concurrent, calls, losses, serverVars>>

ReceiveAnswer ==
  /\ Quiet /\ down # <<>> /\ Head(down).type = "answer"
  /\ down' = Tail(down)
  /\ chain' = [i \in DOMAIN chain |->
       IF chain[i].id = Head(down).id
       THEN [chain[i] EXCEPT !.at = IF Head(down).ok THEN "answered" ELSE "failed"]
       ELSE chain[i]]
  /\ UNCHANGED <<connected, loop, specs, closed, concurrent, calls, losses, up, serverVars>>

(***************************************************************************)
(* The server, in another process                                           *)
(***************************************************************************)
NextFrame(types) == up # <<>> /\ Head(up).type \in types /\ up' = Tail(up)

ServeOpen ==
  /\ NextFrame({"open"})
  /\ IF known /\ rotated
     THEN down' = Append(down, Answer("revoked", 0, FALSE))
          /\ opened' = "refused" /\ UNCHANGED <<known, rotated>>
     ELSE down' = Append(down, Answer("opened", 0, known))
          /\ opened' = "yes" /\ known' = TRUE /\ rotated' = TRUE
  /\ UNCHANGED <<clientVars, calls, losses, watching, bare>>

\* session.watch.add and session.watch.set need a session on the connection.
ServeWatch ==
  /\ NextFrame({"add", "set"})
  /\ down' = Append(down, Answer("answer", Head(up).id, opened = "yes"))
  /\ watching' = IF opened # "yes" THEN watching
                 ELSE IF Head(up).type = "add" THEN watching \union Head(up).set
                 ELSE Head(up).set
  /\ UNCHANGED <<clientVars, calls, losses, opened, known, rotated, bare>>

Continuation == (\E i \in DOMAIN chain : Issue(i)) \/ ApplyFirst \/ FailFirst
LoopTask == DelayOver \/ HelloOk \/ Signed \/ ReceiveOpened \/ ReceiveRevoked
Next == \/ Continuation \/ Call \/ CloseEvent \/ LoopTask \/ ReceiveAnswer
        \/ ServeOpen \/ ServeWatch

Spec == Init /\ [][Next]_vars

\* Continuations run, timers fire, signatures complete, a server that is
\* reached answers, and answers are handled.  Nobody has to call, and
\* connections are lost at most MaxLosses times.
FairSpec ==
  /\ Spec
  /\ WF_vars(Continuation) /\ WF_vars(LoopTask) /\ WF_vars(ReceiveAnswer)
  /\ WF_vars(ServeOpen \/ ServeWatch)

(***************************************************************************)
(* Properties                                                               *)
(***************************************************************************)
Watches == 0..MaxCalls

TypeOK ==
  /\ {connected, closed, concurrent, known, rotated, bare} \subseteq BOOLEAN
  /\ opened \in {"no", "refused", "yes"}
  /\ loop \in {"none", "delay", "hello", "sign", "open", "rewatch", "itself"}
  /\ \A i \in DOMAIN chain :
       /\ chain[i].op \in {"add", "remove", "restore"}
       /\ chain[i].at \in {"queued", "waiting", "sent", "answered", "failed"}
       /\ chain[i].set \subseteq Watches
       /\ chain[i].op = "restore" => loop = "rewatch"
  /\ specs \subseteq Watches /\ watching \subseteq Watches
  /\ calls \in 0..MaxCalls /\ losses \in 0..MaxLosses

\* Once restored and at rest, the server watches for the session all that the
\* client was told is watched: an acquisition answered before a loss survives
\* it, whatever was lost with the connection and whether or not the server
\* kept the session.  Excepted is a session that the client opened afresh and
\* whose watches it had not yet set when the connection was lost again: the
\* next open resumes it without them (restore looks only at that open).
IntentServed ==
  loop = "none" /\ connected /\ chain = <<>> /\ ~bare => specs \subseteq watching

\* A call that is sent between hello and session.open is refused, for the
\* server has no session on that connection yet, and its caller is told so.
\* The restore of the watches never is: it fails only with its connection.
RewatchHeard == \A i \in DOMAIN chain :
  chain[i].op = "restore" /\ chain[i].at = "failed" => ~connected

\* The loss of a connection is healed: the loop ends (docs/specs/memory-v2/
\* 04-protocol.md: every transport-level disconnect retries).
Reconnects == loop # "none" ~> loop = "none"

\* Every call of a watch mutation returns, with a result or an error.
CallsReturn == chain # <<>> ~> chain = <<>>
=============================================================================
