------------------------- MODULE EventDeliveryProofs -------------------------
(***************************************************************************)
(* For any number of events, lost answers, tenures and failed deliveries:   *)
(* no handler runs twice for an event, and no append of a handler is lost   *)
(* while a tenure ends with its process.                                    *)
(*                                                                          *)
(* The first rests on the horizon alone.  Above it an event has one entry   *)
(* (the CAS), and only entries above it are processed; of two entries of an *)
(* event that are processed in turn, the second finds the first done.       *)
(*                                                                          *)
(* The second needs that the rows a drain remembers are the rows of the     *)
(* table: a row is deleted by an id, and ids are used again.  They are as   *)
(* long as only the tenure that serves has a drain, since it makes no row   *)
(* while the drain is under way.                                            *)
(*                                                                          *)
(* Then the orders: events enter the stream as they were fired, and the     *)
(* appends of handlers enter their target in the order of their rows.  The  *)
(* first follows what has left the queue: an event that has left it is in   *)
(* the log or was refused, and none behind its head has entered.  The second *)
(* needs that a drain under way still has every row of the table, so that   *)
(* the row it sends is the lowest, and that an event has one row.           *)
(***************************************************************************)
EXTENDS EventDelivery, FiniteSetTheorems, SequenceTheorems, TLAPS

Entries == [id : Events, done : BOOLEAN, ran : BOOLEAN]

\* What makes a stream process each event once.
Uniform(s) ==
  /\ \A n \in DOMAIN s.entries : s.entries[n].ran => s.entries[n].done
  /\ \A n \in Above(s), m \in Above(s) : s.entries[n].id = s.entries[m].id => n = m
  /\ RanOnce(s)
StreamInv(s) == s \in Streams /\ Uniform(s)

-----------------------------------------------------------------------------
(* A stream                                                                 *)
LEMMA EmptyIsUniform ==
  StreamInv(EmptyStream) /\ Handled(EmptyStream) = {} /\ Logged(EmptyStream) = {}
<1>1. <<>> \in Seq(Entries) /\ DOMAIN <<>> = {}
  OBVIOUS
<1>2. EmptyStream \in Streams
  BY <1>1 DEF EmptyStream, Streams, Entries
<1>3. EmptyStream.entries = <<>>
  BY DEF EmptyStream
<1>4. QED
  BY <1>1, <1>2, <1>3 DEF StreamInv, Uniform, Above, RanOnce, Handled, Logged

LEMMA AppendShape ==
  ASSUME NEW S, NEW q \in Seq(S), NEW x \in S
  PROVE  /\ Append(q, x) \in Seq(S)
         /\ Len(q) \in Nat /\ DOMAIN q = 1..Len(q)
         /\ DOMAIN Append(q, x) = 1..(Len(q) + 1)
         /\ \A n \in 1..Len(q) : Append(q, x)[n] = q[n]
         /\ Append(q, x)[Len(q) + 1] = x
OBVIOUS

(* What an admitted entry leaves of the entries before it.                  *)
LEMMA AdmittedShape ==
  ASSUME NEW s \in Streams, NEW e \in Events, NEW t, t = Admitted(s, e)
  PROVE  /\ t \in Streams /\ t.horizon = s.horizon
         /\ DOMAIN s.entries = 1..Len(s.entries) /\ Len(s.entries) \in Nat
         /\ DOMAIN t.entries = 1..(Len(s.entries) + 1)
         /\ \A n \in DOMAIN s.entries : t.entries[n] = s.entries[n]
         /\ t.entries[Len(s.entries) + 1] = Entry(e, FALSE, FALSE)
<1> DEFINE r == Entry(e, FALSE, FALSE)
<1>1. s.entries \in Seq(Entries) /\ s.horizon \in Nat
  BY DEF Streams, Entries
<1>2. r \in Entries
  BY DEF Entry, Entries
<1> HIDE DEF r
<1>3. /\ Append(s.entries, r) \in Seq(Entries)
      /\ Len(s.entries) \in Nat /\ DOMAIN s.entries = 1..Len(s.entries)
      /\ DOMAIN Append(s.entries, r) = 1..(Len(s.entries) + 1)
      /\ \A n \in 1..Len(s.entries) : Append(s.entries, r)[n] = s.entries[n]
      /\ Append(s.entries, r)[Len(s.entries) + 1] = r
  BY <1>1, <1>2, AppendShape
<1>4. t = [entries |-> Append(s.entries, r), horizon |-> s.horizon]
  BY DEF Admitted, Streams, r
<1>5. t \in Streams
  BY <1>1, <1>3, <1>4 DEF Streams, Entries
<1>6. t.entries = Append(s.entries, r) /\ t.horizon = s.horizon
  BY <1>4
<1>7. QED
  BY <1>3, <1>5, <1>6 DEF r

(* An event that is not above the horizon may be appended.                  *)
LEMMA AdmittedKeeps ==
  ASSUME NEW s, StreamInv(s), NEW e \in Events, ~Duplicate(s, e),
         NEW t, t = Admitted(s, e)
  PROVE  StreamInv(t) /\ Handled(t) = Handled(s) /\ Logged(t) = Logged(s) \union {e}
<1> DEFINE L == Len(s.entries)
<1>1. /\ t \in Streams /\ t.horizon = s.horizon
      /\ DOMAIN s.entries = 1..L /\ L \in Nat
      /\ DOMAIN t.entries = 1..(L + 1)
      /\ \A n \in DOMAIN s.entries : t.entries[n] = s.entries[n]
      /\ t.entries[L + 1] = Entry(e, FALSE, FALSE)
  BY AdmittedShape, ZenonT(30) DEF StreamInv
<1> HIDE DEF L
<1>2. /\ t.entries[L + 1].id = e /\ ~t.entries[L + 1].done /\ ~t.entries[L + 1].ran
  BY <1>1 DEF Entry
<1>3. DOMAIN t.entries = DOMAIN s.entries \union {L + 1} /\ L + 1 \notin DOMAIN s.entries
  BY <1>1
<1>4. \A n \in DOMAIN t.entries : t.entries[n].ran => t.entries[n].done
  BY <1>1, <1>2, <1>3 DEF StreamInv, Uniform
<1>5. \A n \in Above(t) : n \in Above(s) \/ n = L + 1
  BY <1>1, <1>3 DEF Above
<1>6. \A n \in Above(s) : s.entries[n].id # e /\ t.entries[n] = s.entries[n]
  BY <1>1 DEF Duplicate, Above
<1>7. ASSUME NEW n \in Above(t), NEW m \in Above(t), t.entries[n].id = t.entries[m].id
      PROVE  n = m
  BY <1>2, <1>5, <1>6, <1>7 DEF StreamInv, Uniform
<1>8. {k \in DOMAIN t.entries : t.entries[k].ran} = {k \in DOMAIN s.entries : s.entries[k].ran}
  BY <1>1, <1>2, <1>3
<1>9. RanOnce(t)
  <2> SUFFICES ASSUME NEW n \in DOMAIN t.entries, NEW m \in DOMAIN t.entries,
                      t.entries[n].ran, t.entries[m].ran,
                      t.entries[n].id = t.entries[m].id
               PROVE  n = m
    BY DEF RanOnce
  <2>1. n \in DOMAIN s.entries /\ m \in DOMAIN s.entries
    BY <1>2, <1>3
  <2>2. QED
    BY <1>1, <2>1 DEF StreamInv, Uniform, RanOnce
<1>10. Handled(t) = Handled(s)
  BY <1>1, <1>8 DEF Handled
<1>11. Logged(t) = Logged(s) \union {e}
  <2>1. Logged(t) = {t.entries[n].id : n \in DOMAIN s.entries} \union {e}
    BY <1>2, <1>3 DEF Logged
  <2>2. QED
    BY <1>1, <2>1, ZenonT(30) DEF Logged
<1>12. QED
  BY <1>1, <1>4, <1>7, <1>9, <1>10, <1>11 DEF StreamInv, Uniform

(* What a wave leaves of a stream.                                          *)
LEMMA WavedShape ==
  ASSUME NEW s \in Streams, NEW W \in SUBSET DOMAIN s.entries, NEW t \in Waved(s, W)
  PROVE  /\ t \in Streams /\ t.horizon >= s.horizon
         /\ DOMAIN t.entries = DOMAIN s.entries /\ DOMAIN s.entries \subseteq Nat
         /\ \A n \in DOMAIN s.entries \ W : t.entries[n] = s.entries[n]
         /\ \A n \in W : /\ t.entries[n].id = s.entries[n].id /\ t.entries[n].done
                         /\ t.entries[n].ran <=> n \in Ran(s, W)
<1>1. /\ s.entries \in Seq(Entries) /\ s.horizon \in Nat
      /\ Len(s.entries) \in Nat /\ DOMAIN s.entries = 1..Len(s.entries)
      /\ \A n \in DOMAIN s.entries : s.entries[n] \in Entries
  <2>1. s.entries \in Seq(Entries) /\ s.horizon \in Nat
    BY DEF Streams, Entries
  <2>2. QED
    BY <2>1, LenProperties, ElementOfSeq
<1> DEFINE M == Marked(s, W)
<1>2. /\ DOMAIN M = DOMAIN s.entries
      /\ \A n \in DOMAIN s.entries : M[n] =
           IF n \in W THEN Entry(s.entries[n].id, TRUE, n \in Ran(s, W)) ELSE s.entries[n]
  BY DEF Marked
<1> HIDE DEF M
<1>3. \A n \in DOMAIN s.entries : M[n] \in Entries
  <2> TAKE n \in DOMAIN s.entries
  <2>1. s.entries[n] \in Entries /\ (n \in Ran(s, W)) \in BOOLEAN
    BY <1>1
  <2>2. Entry(s.entries[n].id, TRUE, n \in Ran(s, W)) \in Entries
    BY <2>1 DEF Entry, Entries
  <2>3. QED
    BY <1>2, <2>1, <2>2
<1>4. M \in [1..Len(s.entries) -> Entries]
  <2>1. M = [n \in DOMAIN s.entries |-> M[n]]
    BY DEF M, Marked
  <2>2. QED
    BY <1>1, <1>2, <1>3, <2>1
<1>5. M \in Seq(Entries) /\ Len(M) = Len(s.entries)
  BY <1>1, <1>4, SeqDef, LenProperties
<1>6. PICK h \in Frontiers(M, s.horizon) : t = [entries |-> M, horizon |-> h]
  BY DEF Waved, M
<1>7. h \in Nat /\ h >= s.horizon
  BY <1>1, <1>5, <1>6 DEF Frontiers
<1>8. t \in Streams
  BY <1>5, <1>6, <1>7 DEF Streams, Entries
<1>9. t.entries = M /\ t.horizon = h
  BY <1>6
<1>10. \A n \in W : /\ M[n].id = s.entries[n].id /\ M[n].done
                    /\ M[n].ran <=> n \in Ran(s, W)
  <2> TAKE n \in W
  <2> DEFINE b == n \in Ran(s, W)
  <2>1. M[n] = Entry(s.entries[n].id, TRUE, b)
    BY <1>2
  <2>2. b \in BOOLEAN
    OBVIOUS
  <2> HIDE DEF b
  <2>3. M[n].id = s.entries[n].id /\ M[n].done /\ M[n].ran = b
    BY <2>1, <2>2 DEF Entry
  <2>4. QED
    BY <2>3 DEF b
<1>11. \A n \in DOMAIN s.entries \ W : M[n] = s.entries[n]
  BY <1>2
<1>12. DOMAIN s.entries \subseteq Nat
  BY <1>1
<1>13. /\ \A n \in DOMAIN s.entries \ W : t.entries[n] = s.entries[n]
       /\ \A n \in W : /\ t.entries[n].id = s.entries[n].id /\ t.entries[n].done
                       /\ t.entries[n].ran <=> n \in Ran(s, W)
  BY <1>9, <1>10, <1>11
<1>14. QED
  BY <1>2, <1>7, <1>8, <1>9, <1>12, <1>13, Zenon

(* A wave of pending entries keeps a stream uniform.                        *)
LEMMA WavedKeeps ==
  ASSUME NEW s, StreamInv(s), NEW W \in SUBSET Pending(s), NEW t \in Waved(s, W)
  PROVE  /\ StreamInv(t) /\ Logged(t) = Logged(s)
         /\ Handled(t) = Handled(s) \union {s.entries[n].id : n \in Ran(s, W)}
<1>1. /\ s \in Streams /\ W \subseteq Above(s) /\ W \subseteq DOMAIN s.entries
      /\ \A n \in W : ~s.entries[n].done
  BY DEF StreamInv, Pending, Above
<1>2. /\ t \in Streams /\ t.horizon >= s.horizon
      /\ DOMAIN t.entries = DOMAIN s.entries /\ DOMAIN s.entries \subseteq Nat
      /\ \A n \in DOMAIN s.entries \ W : t.entries[n] = s.entries[n]
      /\ \A n \in W : /\ t.entries[n].id = s.entries[n].id /\ t.entries[n].done
                      /\ t.entries[n].ran <=> n \in Ran(s, W)
  BY <1>1, WavedShape
<1>3. \A n \in DOMAIN s.entries : t.entries[n].id = s.entries[n].id
  BY <1>2
<1>4. \A n \in DOMAIN t.entries : t.entries[n].ran => t.entries[n].done
  BY <1>1, <1>2 DEF StreamInv, Uniform
<1>5. Above(t) \subseteq Above(s)
  BY <1>1, <1>2 DEF Above, Streams
<1>6. \A n \in Above(t), m \in Above(t) : t.entries[n].id = t.entries[m].id => n = m
  BY <1>3, <1>5 DEF StreamInv, Uniform, Above
<1>7. ASSUME NEW n \in DOMAIN t.entries, NEW m \in DOMAIN t.entries,
             t.entries[n].ran, t.entries[m].ran, t.entries[n].id = t.entries[m].id
      PROVE  n = m
  <2>1. CASE n \in W /\ m \in W
    BY <1>1, <1>3, <1>7, <2>1 DEF StreamInv, Uniform
  <2>2. CASE n \notin W /\ m \notin W
    BY <1>2, <1>7, <2>2 DEF StreamInv, Uniform, RanOnce
  <2>3. ASSUME NEW p \in W, NEW q \in DOMAIN s.entries \ W,
               t.entries[p].ran, t.entries[q].ran, t.entries[p].id = t.entries[q].id
        PROVE  FALSE
    <3>1. s.entries[q].ran /\ s.entries[q].done /\ s.entries[q].id = s.entries[p].id
      BY <1>1, <1>2, <1>3, <2>3 DEF StreamInv, Uniform
    <3>2. Twin(s, p) /\ p \in Ran(s, W)
      BY <1>2, <2>3, <3>1 DEF Twin
    <3>3. QED
      BY <3>2 DEF Ran
  <2>4. QED
    BY <1>2, <1>7, <2>1, <2>2, <2>3
<1>8. Logged(t) = Logged(s)
  BY <1>2, <1>3 DEF Logged
<1>9. \A n \in DOMAIN s.entries : t.entries[n].ran <=> s.entries[n].ran \/ n \in Ran(s, W)
  BY <1>1, <1>2 DEF StreamInv, Uniform, Ran
<1>10. Handled(t) = Handled(s) \union {s.entries[n].id : n \in Ran(s, W)}
  <2>1. Ran(s, W) \subseteq DOMAIN s.entries
    BY <1>1 DEF Ran
  <2>2. QED
    BY <1>2, <1>3, <1>9, <2>1 DEF Handled
<1>11. QED
  BY <1>2, <1>4, <1>6, <1>7, <1>8, <1>10 DEF StreamInv, Uniform, RanOnce

-----------------------------------------------------------------------------
(* Types, and what the client remembers of its attempt                      *)
Attempted == attempt # NoAttempt => queue # <<>> /\ attempt.id = Head(queue)
Typed == TypeOK /\ Attempted

LEMMA IdleType == Idle \in [rows : SUBSET Rows, at : {"send", "retire"}]
BY DEF Idle

LEMMA DrainOfType ==
  ASSUME NEW rows \in SUBSET Rows
  PROVE  DrainOf(rows) \in [rows : SUBSET Rows, at : {"send", "retire"}]
BY DEF DrainOf

LEMMA InitTyped == Init => Typed
<1> SUFFICES ASSUME Init PROVE Typed
  OBVIOUS
<1>1. EmptyStream \in Streams
  BY EmptyIsUniform DEF StreamInv
<1>2. <<>> \in Seq(Events) /\ 0 \in 0..MaxFires /\ 0 \in 0..MaxTenures
      /\ 0 \in 0..MaxLosses /\ 0 \in 0..MaxFaults
  BY BoundsAssumption
<1>3. drains \in [Tenures -> [rows : SUBSET Rows, at : {"send", "retire"}]]
  BY IdleType DEF Init
<1>4. QED
  BY <1>1, <1>2, <1>3 DEF Init, Typed, TypeOK, Attempted, NoAttempt

(* The rows a wave writes are new, and one per handler that ran.            *)
LEMMA NewRows ==
  ASSUME TypeOK, NEW ran \in SUBSET DOMAIN source.entries, NEW next \in NextRows
  PROVE  /\ \A n \in ran : /\ RowFor(ran, next, n) \in Rows
                          /\ RowFor(ran, next, n).id = source.entries[n].id
                          /\ \A q \in outbox : q.row < RowFor(ran, next, n).row
         /\ \A n \in ran, m \in ran :
              RowFor(ran, next, n).row = RowFor(ran, next, m).row => n = m
<1>1. /\ source.entries \in Seq(Entries) /\ Len(source.entries) \in Nat
      /\ DOMAIN source.entries = 1..Len(source.entries)
      /\ \A n \in DOMAIN source.entries : source.entries[n] \in Entries
  <2>1. source.entries \in Seq(Entries)
    BY DEF TypeOK, Streams, Entries
  <2>2. QED
    BY <2>1, LenProperties, ElementOfSeq
<1>2. next \in Nat \ {0} /\ \A q \in outbox : q.row < next
  BY DEF NextRows, TypeOK, Rows
<1> DEFINE Below(n) == {m \in ran : m < n}
<1>3. IsFiniteSet(ran)
  <2>1. IsFiniteSet(1..Len(source.entries))
    BY <1>1, FS_Interval
  <2>2. QED
    BY <1>1, <2>1, FS_Subset
<1>4. \A n \in ran : IsFiniteSet(Below(n)) /\ Cardinality(Below(n)) \in Nat
  BY <1>3, FS_Subset, FS_CardinalityType
<1>5. \A n \in ran : RowFor(ran, next, n) = [row |-> next + Cardinality(Below(n)),
                                           id |-> source.entries[n].id]
  BY DEF RowFor
<1>6. ASSUME NEW n \in ran, NEW m \in ran, n < m
      PROVE  Cardinality(Below(n)) < Cardinality(Below(m))
  <2>1. Below(n) \subseteq Below(m) /\ n \in Below(m) /\ n \notin Below(n)
    BY <1>1, <1>6
  <2>2. Cardinality(Below(n)) <= Cardinality(Below(m)) /\ Below(n) # Below(m)
    BY <1>4, <2>1, FS_Subset
  <2>3. Cardinality(Below(n)) # Cardinality(Below(m))
    BY <1>4, <2>1, <2>2, FS_Subset
  <2>4. QED
    BY <1>4, <2>2, <2>3
<1> HIDE DEF Below
<1>7. ASSUME NEW n \in ran
      PROVE  /\ RowFor(ran, next, n) \in Rows
             /\ RowFor(ran, next, n).id = source.entries[n].id
             /\ \A q \in outbox : q.row < RowFor(ran, next, n).row
  <2>1. source.entries[n].id \in Events
    BY <1>1 DEF Entries
  <2>2. QED
    BY <1>2, <1>4, <1>5, <2>1 DEF Rows, TypeOK
<1>8. ASSUME NEW n \in ran, NEW m \in ran,
             RowFor(ran, next, n).row = RowFor(ran, next, m).row
      PROVE  n = m
  <2>1. Cardinality(Below(n)) = Cardinality(Below(m))
    BY <1>2, <1>4, <1>5, <1>8
  <2>2. ~(n < m) /\ ~(m < n)
    BY <1>4, <1>6, <2>1
  <2>3. QED
    BY <1>1, <2>2
<1>9. QED
  BY <1>7, <1>8

-----------------------------------------------------------------------------
(* Every step keeps the types and both streams uniform.                     *)
EventInv == Typed /\ Uniform(source) /\ Uniform(target)

LEMMA WavedSource ==
  ASSUME EventInv, Wave
  PROVE  /\ StreamInv(source)' /\ Logged(source)' = Logged(source)
         /\ outbox' \subseteq Rows /\ holder \in Tenures
         /\ \/ UNCHANGED <<drains, owed>>
            \/ drains' = [drains EXCEPT ![holder] = DrainOf(outbox')] /\ owed' = FALSE
<1>1. PICK W \in SUBSET Pending(source) \ {{}} :
        /\ source' \in Waved(source, W)
        /\ \E next \in NextRows :
             outbox' = outbox \union {RowFor(Ran(source, W), next, n) : n \in Ran(source, W)}
        /\ \/ UNCHANGED <<drains, owed>>
           \/ drains' = [drains EXCEPT ![holder] = DrainOf(outbox')] /\ owed' = FALSE
  BY DEF Wave
<1>2. StreamInv(source) /\ Ran(source, W) \subseteq DOMAIN source.entries
  BY DEF EventInv, Typed, TypeOK, StreamInv, Ran, Pending, Above
<1>3. StreamInv(source)' /\ Logged(source)' = Logged(source)
  <2>1. StreamInv(source') /\ Logged(source') = Logged(source)
    BY <1>1, <1>2, WavedKeeps
  <2>2. QED
    BY <2>1 DEF StreamInv, Streams, Uniform, Above, RanOnce, Logged
<1>4. outbox' \subseteq Rows
  BY <1>1, <1>2, NewRows DEF EventInv, Typed, TypeOK
<1>5. holder \in Tenures
  BY BoundsAssumption DEF Wave, EventInv, Typed, TypeOK, Tenures
<1>6. QED
  BY <1>1, <1>3, <1>4, <1>5

LEMMA ClientStep ==
  ASSUME EventInv, Fire \/ Send \/ Replace \/ Admit \/ Lose \/ Settle \/ SetAcl
  PROVE  EventInv'
<1> USE BoundsAssumption DEF EventInv, Typed, serverVars
<1>1. CASE Fire
  <2>1. fired + 1 \in Events /\ fired' \in 0..MaxFires
    BY <1>1 DEF Fire, TypeOK, Events
  <2>2. queue' \in Seq(Events) /\ queue' # <<>> /\ (queue # <<>> => Head(queue') = Head(queue))
    BY <1>1, <2>1 DEF Fire, TypeOK
  <2>3. TypeOK'
    BY <1>1, <2>1, <2>2 DEF Fire, TypeOK
  <2>4. QED
    BY <1>1, <2>2, <2>3 DEF Fire, Attempted
<1>2. CASE Send
  <2>1. Head(queue) \in Events
    BY <1>2 DEF Send, TypeOK
  <2>2. attempt' \in [id : 0..MaxFires, at : {"none", "sent", "ok", "duplicate", "refused"}]
    <3>1. PICK e \in 0..MaxFires : e = Head(queue)
      BY <2>1 DEF Events
    <3>2. attempt' = [id |-> e, at |-> "sent"]
      BY <1>2, <3>1 DEF Send
    <3>3. QED
      BY <3>2
  <2>3. issued' = TRUE /\ UNCHANGED <<fired, queue, told, unfit, dropped, swapped, allowed, source,
                                     target, serverVars, losses>>
    BY <1>2 DEF Send
  <2>4. TypeOK'
    BY <2>2, <2>3 DEF TypeOK, Events
  <2>5. QED
    BY <1>2, <2>4 DEF Send, Attempted
<1>3. CASE Replace
  <2>1. TypeOK'
    BY <1>3 DEF Replace, TypeOK
  <2>2. QED
    BY <1>3, <2>1 DEF Replace, Attempted
<1>4. CASE Admit
  <2>1. attempt # NoAttempt /\ queue # <<>> /\ attempt.id = Head(queue)
    BY <1>4 DEF Admit, NoAttempt, Attempted
  <2>2. attempt.id \in Events
    BY <2>1 DEF TypeOK
  <2>3. StreamInv(source)'
    <3>1. CASE source' = source
      BY <3>1 DEF StreamInv, TypeOK, Uniform, Above, RanOnce
    <3>2. CASE source' = Admitted(source, attempt.id) /\ ~Duplicate(source, attempt.id)
      BY <2>2, <3>2, AdmittedKeeps DEF StreamInv, TypeOK, Uniform, Above, RanOnce
    <3>3. QED
      BY <1>4, <3>1, <3>2 DEF Admit
  <2>4. attempt' \in [id : 0..MaxFires, at : {"none", "sent", "ok", "duplicate", "refused"}]
        /\ attempt'.id = attempt.id
    BY <1>4 DEF Admit, TypeOK
  <2>5. TypeOK'
    BY <1>4, <2>3, <2>4 DEF Admit, TypeOK, StreamInv
  <2>6. QED
    BY <1>4, <2>1, <2>3, <2>4, <2>5 DEF Admit, Attempted, StreamInv
<1>5. CASE Lose
  <2>1. TypeOK'
    BY <1>5 DEF Lose, TypeOK, NoAttempt
  <2>2. QED
    BY <1>5, <2>1 DEF Lose, Attempted
<1>6. CASE Settle
  <2>1. queue # <<>> /\ attempt.id \in Events
    BY <1>6 DEF Settle, NoAttempt, Attempted, TypeOK
  <2>2. queue' \in Seq(Events)
    BY <1>6, <2>1 DEF Settle, TypeOK
  <2>3. TypeOK'
    BY <1>6, <2>1, <2>2 DEF Settle, TypeOK, NoAttempt
  <2>4. QED
    BY <1>6, <2>3 DEF Settle, Attempted
<1>7. CASE SetAcl
  <2>1. TypeOK'
    BY <1>7 DEF SetAcl, clientVars, TypeOK
  <2>2. QED
    BY <1>7, <2>1 DEF SetAcl, clientVars, Attempted
<1>8. QED
  BY <1>1, <1>2, <1>3, <1>4, <1>5, <1>6, <1>7

LEMMA ServerStep ==
  ASSUME EventInv, Activate \/ EndTenure \/ Wave \/ Redrain \/ TargetWave
  PROVE  EventInv'
<1> USE BoundsAssumption DEF EventInv, Typed, clientVars
<1>1. CASE Activate
  <2>1. drains' \in [Tenures -> [rows : SUBSET Rows, at : {"send", "retire"}]]
    BY <1>1, DrainOfType DEF Activate, TypeOK
  <2>2. holder' \in 0..MaxTenures /\ tenures' \in 0..MaxTenures /\ owed' \in BOOLEAN
    <3>1. holder' \in 0..MaxTenures /\ tenures' \in 0..MaxTenures
      BY <1>1 DEF Activate, TypeOK
    <3>2. owed' \in BOOLEAN
      BY <1>1, Zenon DEF Activate
    <3>3. QED
      BY <3>1, <3>2
  <2>3. TypeOK'
    BY <1>1, <2>1, <2>2 DEF Activate, TypeOK
  <2>4. QED
    BY <1>1, <2>3 DEF Activate, Attempted
<1>2. CASE EndTenure
  <2>1. drains' \in [Tenures -> [rows : SUBSET Rows, at : {"send", "retire"}]]
    BY <1>2, IdleType DEF EndTenure, TypeOK
  <2>2. holder' \in 0..MaxTenures /\ owed' \in BOOLEAN
    <3>1. holder' \in 0..MaxTenures
      BY <1>2 DEF EndTenure
    <3>2. owed' \in BOOLEAN
      BY <1>2, Zenon DEF EndTenure
    <3>3. QED
      BY <3>1, <3>2
  <2>3. TypeOK'
    BY <1>2, <2>1, <2>2 DEF EndTenure, TypeOK
  <2>4. QED
    BY <1>2, <2>3 DEF EndTenure, Attempted
<1>3. CASE Wave
  <2>1. /\ StreamInv(source)' /\ outbox' \subseteq Rows /\ holder \in Tenures
        /\ \/ UNCHANGED <<drains, owed>>
           \/ drains' = [drains EXCEPT ![holder] = DrainOf(outbox')] /\ owed' = FALSE
    BY <1>3, WavedSource
  <2>2. /\ drains' \in [Tenures -> [rows : SUBSET Rows, at : {"send", "retire"}]]
        /\ owed' \in BOOLEAN
    <3>1. CASE UNCHANGED <<drains, owed>>
      BY <3>1 DEF TypeOK
    <3>2. CASE drains' = [drains EXCEPT ![holder] = DrainOf(outbox')] /\ owed' = FALSE
      <4>1. DrainOf(outbox') \in [rows : SUBSET Rows, at : {"send", "retire"}]
        BY <2>1, DrainOfType
      <4>2. QED
        BY <2>1, <3>2, <4>1 DEF TypeOK
    <3>3. QED
      BY <2>1, <3>1, <3>2
  <2>3. TypeOK'
    BY <1>3, <2>1, <2>2 DEF Wave, TypeOK, StreamInv
  <2>4. QED
    BY <1>3, <2>1, <2>3 DEF Wave, Attempted, StreamInv
<1>4. CASE Redrain
  <2>1. TypeOK'
    BY <1>4 DEF Redrain, TypeOK, DrainOf, Tenures
  <2>2. QED
    BY <1>4, <2>1 DEF Redrain, Attempted
<1>5. CASE TargetWave
  <2>1. StreamInv(target)'
    BY <1>5, WavedKeeps DEF TargetWave, StreamInv, TypeOK, Uniform, Above, RanOnce
  <2>2. TypeOK'
    BY <1>5, <2>1 DEF TargetWave, TypeOK, StreamInv, serverVars
  <2>3. QED
    BY <1>5, <2>1, <2>2 DEF TargetWave, Attempted, StreamInv
<1>6. QED
  BY <1>1, <1>2, <1>3, <1>4, <1>5

LEMMA DrainStep ==
  ASSUME EventInv, NEW t \in Tenures, NEW r \in drains[t].rows,
         Deliver(t, r) \/ Notice(t, r) \/ DeliverFails(t, r) \/ Retire(t, r)
  PROVE  EventInv'
<1> USE BoundsAssumption DEF EventInv, Typed, clientVars
<1>0. r \in Rows /\ r.id \in Events
  BY DEF TypeOK, Rows
<1>1. CASE Deliver(t, r)
  <2>1. StreamInv(target)'
    <3>1. CASE target' = target
      BY <3>1 DEF StreamInv, TypeOK, Uniform, Above, RanOnce
    <3>2. CASE target' = Admitted(target, r.id) /\ ~Duplicate(target, r.id)
      BY <1>0, <3>2, AdmittedKeeps DEF StreamInv, TypeOK, Uniform, Above, RanOnce
    <3>3. QED
      BY <1>1, <3>1, <3>2 DEF Deliver
  <2>2. TypeOK'
    BY <1>1, <2>1 DEF Deliver, Sent, TypeOK, StreamInv
  <2>3. QED
    BY <1>1, <2>1, <2>2 DEF Deliver, Attempted, StreamInv
<1>2. CASE Notice(t, r)
  <2>1. TypeOK'
    BY <1>0, <1>2, IdleType, SMTT(30) DEF Notice, Sent, Stopped, TypeOK
  <2>2. QED
    BY <1>2, <2>1 DEF Notice, Attempted
<1>3. CASE DeliverFails(t, r)
  <2>1. TypeOK'
    BY <1>3, IdleType DEF DeliverFails, Stopped, TypeOK
  <2>2. QED
    BY <1>3, <2>1 DEF DeliverFails, Attempted
<1>4. CASE Retire(t, r)
  <2>1. TypeOK'
    BY <1>4 DEF Retire, DrainOf, TypeOK
  <2>2. QED
    BY <1>4, <2>1 DEF Retire, Attempted
<1>5. QED
  BY <1>1, <1>2, <1>3, <1>4

LEMMA EventStep == EventInv /\ [Next]_vars => EventInv'
<1> SUFFICES ASSUME EventInv, [Next]_vars PROVE EventInv'
  OBVIOUS
<1>1. CASE UNCHANGED vars
  <2>1. TypeOK' /\ Attempted'
    BY <1>1 DEF EventInv, Typed, TypeOK, Attempted, vars, clientVars, serverVars
  <2>2. QED
    BY <1>1, <2>1 DEF EventInv, Typed, vars
<1>2. QED
  BY <1>1, ClientStep, ServerStep, DrainStep DEF Next

(* The reachable states have the types claimed, whatever the bounds.        *)
THEOREM TypeCorrect == Spec => []TypeOK
<1>1. Init => EventInv
  BY InitTyped, EmptyIsUniform DEF Init, EventInv, StreamInv
<1>2. EventInv => TypeOK
  BY DEF EventInv, Typed
<1>3. QED
  BY <1>1, <1>2, EventStep, PTL DEF Spec

(* No handler runs twice for an event: neither lost answers, nor crashes,   *)
(* nor a drain that outlives its tenure repeat what an event does.          *)
THEOREM HandlersRunOnce == Spec => []HandledOnce
<1>1. Init => EventInv
  BY InitTyped, EmptyIsUniform DEF Init, EventInv, StreamInv
<1>2. EventInv => HandledOnce
  BY DEF EventInv, Uniform, HandledOnce
<1>3. QED
  BY <1>1, <1>2, EventStep, PTL DEF Spec

-----------------------------------------------------------------------------
(* What keeps a delivery from deleting the row of another                   *)
Known == outbox \union UNION {drains[t].rows : t \in Tenures}
Arrived == Logged(target) \union noticed

OneDrain == \A t \in Tenures : t # holder => drains[t] = Idle
RowIds   == \A q \in Known, r \in Known : q.row = r.row => q = r
Acked    == \A t \in Tenures : drains[t].at = "retire" =>
              \A r \in drains[t].rows : First(t, r) => r.id \in Arrived
LossInv  == OneDrain /\ RowIds /\ Acked /\ NoAppendLost

(* Steps that leave the outbox and its drains alone.                        *)
LEMMA DrainsUntouched ==
  ASSUME LossInv, UNCHANGED <<outbox, drains, holder>>,
         Handled(source)' = Handled(source), Arrived \subseteq Arrived'
  PROVE  LossInv'
<1>1. OneDrain' /\ RowIds'
  BY DEF LossInv, OneDrain, RowIds, Known
<1>2. Acked'
  BY DEF LossInv, Acked, First
<1>3. NoAppendLost'
  BY DEF LossInv, NoAppendLost, Waiting, Arrived
<1>4. QED
  BY <1>1, <1>2, <1>3 DEF LossInv

(* With no drain under way the rows known are those of the table.           *)
LEMMA NothingUnderWay ==
  ASSUME \A t \in Tenures : drains[t] = Idle
  PROVE  Known = outbox
BY DEF Known, Idle

(* A drain that starts has selected the rows of the table.                  *)
LEMMA DrainStarts ==
  ASSUME TypeOK, LossInv, \A t \in Tenures : drains[t] = Idle,
         NEW h \in Tenures, UNCHANGED <<outbox, source, target, noticed>>,
         drains' = [drains EXCEPT ![h] = DrainOf(outbox)], holder' = h
  PROVE  LossInv'
<1>1. \A t \in Tenures : drains'[t] = IF t = h THEN DrainOf(outbox) ELSE Idle
  BY DEF TypeOK
<1>2. Known' = outbox /\ Known = outbox
  <2>1. \A t \in Tenures : drains'[t].rows = IF t = h THEN outbox ELSE {}
    BY <1>1 DEF DrainOf, Idle
  <2>2. UNION {drains'[t].rows : t \in Tenures} = outbox
    BY <2>1
  <2>3. QED
    BY <2>2, NothingUnderWay DEF Known
<1>3. OneDrain' /\ RowIds'
  BY <1>1, <1>2 DEF LossInv, OneDrain, RowIds
<1>4. Acked'
  BY <1>1 DEF Acked, DrainOf, Idle
<1>5. NoAppendLost'
  BY DEF LossInv, NoAppendLost, Waiting
<1>6. QED
  BY <1>3, <1>4, <1>5 DEF LossInv

(* A drain that stops forgets its rows.                                     *)
LEMMA DrainStops ==
  ASSUME TypeOK, LossInv, NEW t \in Tenures, UNCHANGED <<outbox, source, target, noticed>>,
         drains' = [drains EXCEPT ![t] = Idle],
         holder' = holder \/ (t = holder /\ holder' = 0)
  PROVE  LossInv'
<1>1. \A u \in Tenures : drains'[u] = IF u = t THEN Idle ELSE drains[u]
  BY DEF TypeOK
<1>2. Known' \subseteq Known
  BY <1>1 DEF Known, Idle
<1>3. RowIds'
  BY <1>2 DEF LossInv, RowIds
<1>4. OneDrain'
  BY <1>1 DEF LossInv, OneDrain, Tenures
<1>5. Acked'
  <2>1. Arrived' = Arrived
    BY DEF Arrived, Logged
  <2>2. QED
    BY <1>1, <2>1 DEF LossInv, Acked, First, Idle
<1>6. NoAppendLost'
  BY DEF LossInv, NoAppendLost, Waiting
<1>7. QED
  BY <1>3, <1>4, <1>5, <1>6 DEF LossInv

(* A wave writes the row of every handler that ran.                         *)
LEMMA WaveLoss ==
  ASSUME EventInv, LossInv, Wave
  PROVE  LossInv'
<1>1. PICK W \in SUBSET Pending(source) \ {{}}, next \in NextRows :
        /\ source' \in Waved(source, W)
        /\ outbox' = outbox \union {RowFor(Ran(source, W), next, n) : n \in Ran(source, W)}
        /\ drains' = drains \/ drains' = [drains EXCEPT ![holder] = DrainOf(outbox')]
  BY DEF Wave
<1> DEFINE R == Ran(source, W)
           Fresh == {RowFor(R, next, n) : n \in R}
<1>2. StreamInv(source) /\ R \subseteq DOMAIN source.entries /\ TypeOK /\ holder \in Tenures
  BY WavedSource DEF EventInv, Typed, TypeOK, StreamInv, Ran, Pending, Above
<1>3. /\ \A n \in R : /\ RowFor(R, next, n) \in Rows
                      /\ RowFor(R, next, n).id = source.entries[n].id
                      /\ \A q \in outbox : q.row < RowFor(R, next, n).row
      /\ \A n \in R, m \in R : RowFor(R, next, n).row = RowFor(R, next, m).row => n = m
  BY <1>2, NewRows
<1>4. \A t \in Tenures : drains[t] = Idle
  BY DEF Wave, LossInv, OneDrain
<1>5. \A q \in outbox', r \in outbox' : q.row = r.row => q = r
  <2>1. \A q \in outbox, r \in outbox : q.row = r.row => q = r
    BY <1>4, NothingUnderWay DEF LossInv, RowIds
  <2>2. \A q \in Fresh, r \in Fresh : q.row = r.row => q = r
    BY <1>3
  <2>3. \A q \in outbox, r \in Fresh : q.row # r.row
    <3>1. \A q \in outbox : q.row \in Nat
      BY <1>2 DEF TypeOK, Rows
    <3>2. \A r \in Fresh : r.row \in Nat /\ \A q \in outbox : q.row < r.row
      BY <1>3 DEF Rows
    <3>3. QED
      BY <3>1, <3>2
  <2>4. QED
    BY <1>1, <2>1, <2>2, <2>3
<1>6. \A t \in Tenures : drains'[t].rows \in {{}, outbox'} /\ drains'[t].at = "send"
                       /\ (t # holder => drains'[t] = Idle)
  <2>1. CASE drains' = drains
    BY <1>4, <2>1 DEF Idle
  <2>2. CASE drains' = [drains EXCEPT ![holder] = DrainOf(outbox')]
    <3>1. \A t \in Tenures : drains'[t] = IF t = holder THEN DrainOf(outbox') ELSE Idle
      BY <1>2, <1>4, <2>2 DEF TypeOK
    <3>2. /\ Idle.rows = {} /\ Idle.at = "send"
          /\ DrainOf(outbox').rows = outbox' /\ DrainOf(outbox').at = "send"
      BY DEF Idle, DrainOf
    <3>3. QED
      BY <3>1, <3>2
  <2>3. QED
    BY <1>1, <2>1, <2>2
<1>7. RowIds'
  <2>1. Known' = outbox'
    BY <1>6 DEF Known
  <2>2. QED
    BY <1>5, <2>1 DEF RowIds
<1>8. OneDrain' /\ Acked'
  BY <1>6 DEF OneDrain, Acked, Wave
<1>9. NoAppendLost'
  <2>1. Handled(source') = Handled(source) \union {source.entries[n].id : n \in R}
    BY <1>1, <1>2, WavedKeeps
  <2>2. \A n \in R : source.entries[n].id \in Waiting'
    BY <1>1, <1>3 DEF Waiting
  <2>3. Waiting \subseteq Waiting'
    BY <1>1 DEF Waiting
  <2>4. Handled(source)' = Handled(source') /\ Logged(target)' = Logged(target) /\ noticed' = noticed
    BY DEF Handled, Logged, Wave
  <2>5. QED
    BY <2>1, <2>2, <2>3, <2>4 DEF LossInv, NoAppendLost
<1>10. QED
  BY <1>7, <1>8, <1>9 DEF LossInv

(* An append that arrived lets the drain delete its row.                    *)
LEMMA SentLoss ==
  ASSUME EventInv, LossInv, NEW t \in Tenures, NEW r, First(t, r),
         drains' = [drains EXCEPT ![t].at = "retire"],
         UNCHANGED <<outbox, holder, source>>,
         Arrived' = Arrived \union {r.id}
  PROVE  LossInv'
<1>1. /\ \A u \in Tenures : drains'[u].rows = drains[u].rows
      /\ \A u \in Tenures : u # t => drains'[u] = drains[u]
  BY DEF EventInv, Typed, TypeOK
<1>2. Known' = Known
  BY <1>1 DEF Known
<1>3. RowIds'
  BY <1>2 DEF LossInv, RowIds
<1>4. OneDrain'
  <2>1. r \notin Idle.rows
    BY DEF Idle
  <2>2. t = holder
    BY <2>1 DEF First, LossInv, OneDrain
  <2>3. QED
    BY <1>1, <2>2 DEF LossInv, OneDrain
<1>5. Acked'
  <2> SUFFICES ASSUME NEW u \in Tenures, drains'[u].at = "retire",
                      NEW q \in drains'[u].rows, First(u, q)'
               PROVE  q.id \in Arrived'
    BY DEF Acked
  <2>1. CASE u # t
    BY <1>1, <2>1 DEF LossInv, Acked, First
  <2>2. CASE u = t
    <3>1. q \in Known /\ r \in Known /\ q \in Rows /\ r \in Rows
      BY <1>1, <2>2 DEF Known, First, EventInv, Typed, TypeOK
    <3>2. q.row <= r.row /\ r.row <= q.row
      BY <1>1, <2>2 DEF First
    <3>3. q.row = r.row
      BY <3>1, <3>2 DEF Rows
    <3>4. q = r
      BY <3>1, <3>3 DEF LossInv, RowIds
    <3>5. QED
      BY <3>4
  <2>3. QED
    BY <2>1, <2>2
<1>6. NoAppendLost'
  <2>1. Handled(source)' = Handled(source) /\ Waiting' = Waiting
    BY DEF Handled, Waiting
  <2>2. QED
    BY <2>1 DEF LossInv, NoAppendLost, Arrived
<1>7. QED
  BY <1>3, <1>4, <1>5, <1>6 DEF LossInv

(* The row deleted is the one that was delivered.                           *)
LEMMA RetireLoss ==
  ASSUME EventInv, LossInv, NEW t \in Tenures, NEW r, Retire(t, r)
  PROVE  LossInv'
<1>1. /\ r \in drains[t].rows /\ r.id \in Arrived
      /\ outbox' = {q \in outbox : q.row # r.row}
      /\ drains' = [drains EXCEPT ![t] = DrainOf(drains[t].rows \ {r})]
      /\ UNCHANGED <<source, target, holder, noticed>>
  BY DEF Retire, First, LossInv, Acked
<1>2. \A u \in Tenures : drains'[u] = IF u = t THEN DrainOf(drains[t].rows \ {r}) ELSE drains[u]
  BY <1>1 DEF EventInv, Typed, TypeOK
<1>3. Known' \subseteq Known
  BY <1>1, <1>2 DEF Known, DrainOf
<1>4. RowIds'
  BY <1>3 DEF LossInv, RowIds
<1>5. OneDrain'
  <2>1. t = holder
    BY <1>1 DEF LossInv, OneDrain, Idle
  <2>2. QED
    BY <1>1, <1>2, <2>1 DEF LossInv, OneDrain
<1>6. Acked'
  <2>1. Arrived' = Arrived
    BY <1>1 DEF Arrived, Logged
  <2>2. QED
    BY <1>2, <2>1 DEF LossInv, Acked, First, DrainOf
<1>7. NoAppendLost'
  <2>1. \A q \in outbox \ outbox' : q = r
    BY <1>1 DEF LossInv, RowIds, Known
  <2>2. Waiting \subseteq Waiting' \union {r.id}
    BY <2>1 DEF Waiting
  <2>3. Handled(source)' = Handled(source) /\ Arrived' = Arrived
    BY <1>1 DEF Handled, Arrived, Logged
  <2>4. QED
    BY <1>1, <2>2, <2>3 DEF LossInv, NoAppendLost, Arrived
<1>8. QED
  BY <1>4, <1>5, <1>6, <1>7 DEF LossInv

LEMMA LossStep ==
  ASSUME Lapses = FALSE, EventInv, LossInv, [Next]_vars
  PROVE  LossInv'
<1>0. TypeOK /\ StreamInv(source) /\ StreamInv(target)
  BY DEF EventInv, Typed, TypeOK, StreamInv
<1>1. CASE Fire \/ Send \/ Replace \/ Lose \/ Settle \/ SetAcl \/ UNCHANGED vars
  <2>1. UNCHANGED <<source, target, outbox, drains, holder, noticed>>
    BY <1>1 DEF Fire, Send, Replace, Lose, Settle, SetAcl, vars, serverVars
  <2>2. QED
    BY <2>1, DrainsUntouched DEF Handled, Logged, Arrived
<1>2. CASE Admit
  <2>1. UNCHANGED <<target, outbox, drains, holder, noticed>>
    BY <1>2 DEF Admit, serverVars
  <2>2. Handled(source') = Handled(source)
    <3>1. attempt.id \in Events
      BY <1>2 DEF Admit, NoAttempt, EventInv, Typed, Attempted, TypeOK
    <3>2. QED
      BY <1>0, <1>2, <3>1, AdmittedKeeps DEF Admit
  <2>3. QED
    BY <2>1, <2>2, DrainsUntouched DEF Handled, Logged, Arrived
<1>3. CASE TargetWave
  <2>1. UNCHANGED <<source, outbox, drains, holder, noticed>>
    BY <1>3 DEF TargetWave, serverVars
  <2>2. Logged(target') = Logged(target)
    BY <1>0, <1>3, WavedKeeps DEF TargetWave
  <2>3. Arrived' = Arrived /\ Handled(source)' = Handled(source)
    BY <2>1, <2>2 DEF Arrived, Logged, Handled
  <2>4. QED
    BY <2>1, <2>3, DrainsUntouched
<1>4. CASE Activate
  <2>1. \A t \in Tenures : drains[t] = Idle
    BY <1>4 DEF Activate, LossInv, OneDrain, Tenures
  <2>2. tenures + 1 \in Tenures
    BY <1>0, <1>4, BoundsAssumption DEF Activate, TypeOK, Tenures
  <2>3. QED
    BY <1>0, <1>4, <2>1, <2>2, DrainStarts DEF Activate
<1>5. CASE EndTenure
  <2>1. holder \in Tenures /\ drains' = [drains EXCEPT ![holder] = Idle]
    <3>1. holder \in Tenures
      BY <1>0, <1>5, BoundsAssumption DEF EndTenure, TypeOK, Tenures
    <3>2. PICK survives \in {FALSE, Lapses} :
            drains' = IF survives THEN drains ELSE [drains EXCEPT ![holder] = Idle]
      BY <1>5 DEF EndTenure
    <3>3. ~survives
      BY <3>2, Zenon
    <3>4. QED
      BY <3>1, <3>2, <3>3, Zenon
  <2>2. QED
    BY <1>0, <1>5, <2>1, DrainStops DEF EndTenure
<1>6. CASE Wave
  BY <1>6, WaveLoss
<1>7. CASE Redrain
  <2>1. \A t \in Tenures : drains[t] = Idle
    BY <1>7 DEF Redrain, LossInv, OneDrain
  <2>2. holder \in Tenures
    BY <1>0, <1>7, BoundsAssumption DEF Redrain, TypeOK, Tenures
  <2>3. QED
    BY <1>0, <1>7, <2>1, <2>2, DrainStarts DEF Redrain
<1>8. ASSUME NEW t \in Tenures, NEW r \in drains[t].rows,
             Deliver(t, r) \/ Notice(t, r) \/ DeliverFails(t, r) \/ Retire(t, r)
      PROVE  LossInv'
  <2>1. CASE Deliver(t, r)
    <3>1. Logged(target') = Logged(target) \union {r.id}
      <4>1. CASE Duplicate(target, r.id)
        <5>1. target' = target
          BY <2>1, <4>1 DEF Deliver
        <5>2. r.id \in Logged(target)
          BY <4>1 DEF Duplicate, Above, Logged
        <5>3. QED
          BY <5>1, <5>2
      <4>2. CASE ~Duplicate(target, r.id)
        <5>1. r.id \in Events
          BY <1>0, <1>8 DEF TypeOK, Rows
        <5>2. QED
          BY <1>0, <2>1, <4>2, <5>1, AdmittedKeeps DEF Deliver
      <4>3. QED
        BY <4>1, <4>2
    <3>2. Arrived' = Arrived \union {r.id}
      BY <2>1, <3>1 DEF Deliver, Arrived, Logged
    <3>3. QED
      BY <1>8, <2>1, <3>2, SentLoss DEF Deliver, Sent
  <2>2. CASE Notice(t, r)
    <3>1. CASE t = holder \/ r.id \in noticed
      <4>1. Arrived' = Arrived \union {r.id}
        BY <2>2, <3>1 DEF Notice, Arrived, Logged
      <4>2. QED
        BY <1>8, <2>2, <3>1, <4>1, SentLoss DEF Notice, Sent
    <3>2. CASE ~(t = holder \/ r.id \in noticed)
      BY <1>0, <1>8, <2>2, <3>2, DrainStops DEF Notice, Stopped
    <3>3. QED
      BY <3>1, <3>2
  <2>3. CASE DeliverFails(t, r)
    BY <1>0, <1>8, <2>3, DrainStops DEF DeliverFails, Stopped
  <2>4. CASE Retire(t, r)
    BY <1>8, <2>4, RetireLoss
  <2>5. QED
    BY <1>8, <2>1, <2>2, <2>3, <2>4
<1>9. QED
  BY <1>1, <1>2, <1>3, <1>4, <1>5, <1>6, <1>7, <1>8 DEF Next

LEMMA LossInit == Init => EventInv /\ LossInv
<1>1. Init => EventInv
  BY InitTyped, EmptyIsUniform DEF Init, EventInv, StreamInv
<1>2. ASSUME Init PROVE LossInv
  <2>1. \A t \in Tenures : drains[t] = Idle
    BY <1>2 DEF Init
  <2>2. Known = {}
    BY <1>2, <2>1, NothingUnderWay DEF Init
  <2>3. Handled(source) = {}
    BY <1>2, EmptyIsUniform DEF Init
  <2>4. QED
    BY <2>1, <2>2, <2>3 DEF LossInv, OneDrain, RowIds, Acked, NoAppendLost, Idle
<1>3. QED
  BY <1>1, <1>2

(* While a tenure ends with its process, no append of a handler is lost:    *)
(* not between the wave and the delivery, nor between the delivery and the  *)
(* deletion of its row, whatever fails and however often.                   *)
THEOREM AppendsAreKept ==
  ASSUME Lapses = FALSE
  PROVE  Spec => []NoAppendLost
<1>1. Init => EventInv /\ LossInv
  BY LossInit
<1>2. EventInv /\ LossInv /\ [Next]_vars => EventInv' /\ LossInv'
  BY EventStep, LossStep
<1>3. LossInv => NoAppendLost
  BY DEF LossInv
<1>4. QED
  BY <1>1, <1>2, <1>3, PTL DEF Spec

-----------------------------------------------------------------------------
\* The queue holds the latest events, in order; those before are in the log
\* or were refused, and none behind its head is in the log.
Queued == Len(queue) <= fired /\ \A i \in 1..Len(queue) : queue[i] = fired - Len(queue) + i
Left   == 1..(fired - Len(queue))
Answered == attempt.at \in {"ok", "duplicate"} => attempt.id \in Logged(source)
Reached  == \A e \in Logged(source) : e <= fired - Len(queue) + 1
QueueInv ==
  /\ Queued /\ Answered /\ Reached
  /\ Left \subseteq Logged(source) \union dropped
  /\ FiredOrder

\* A drain under way has all rows, and every row is of another event.
WholeDrain == \A t \in Tenures : drains[t].rows # {} => drains[t].rows = outbox
OutboxIds  ==
  /\ Waiting \subseteq Handled(source)
  /\ \A q \in outbox, r \in outbox : q.id = r.id => q = r
RowInv == WholeDrain /\ OutboxIds


-----------------------------------------------------------------------------
(* The order of the fires                                                   *)
SameIds == /\ DOMAIN source'.entries = DOMAIN source.entries
           /\ \A n \in DOMAIN source.entries : source'.entries[n].id = source.entries[n].id

LEMMA SourceTypes ==
  ASSUME TypeOK
  PROVE  /\ source \in Streams /\ Len(source.entries) \in Nat
         /\ DOMAIN source.entries = 1..Len(source.entries)
         /\ \A n \in DOMAIN source.entries : source.entries[n].id \in Events
<1>1. source \in Streams /\ source.entries \in Seq(Entries)
  BY DEF TypeOK, Streams, Entries
<1>2. \A n \in DOMAIN source.entries : source.entries[n] \in Entries
  BY <1>1, ElementOfSeq
<1>3. QED
  BY <1>1, <1>2, LenProperties DEF Entries

LEMMA QueueTypes ==
  ASSUME Typed
  PROVE  /\ fired \in Nat /\ Len(queue) \in Nat /\ DOMAIN queue = 1..Len(queue)
         /\ queue # <<>> => Len(queue) > 0 /\ Head(queue) = queue[1]
         /\ attempt # NoAttempt => queue # <<>> /\ attempt.id = queue[1]
<1>1. queue \in Seq(Events) /\ fired \in Nat
  BY BoundsAssumption DEF Typed, TypeOK
<1>2. Len(queue) \in Nat /\ DOMAIN queue = 1..Len(queue)
  BY <1>1, LenProperties
<1>3. queue # <<>> => Len(queue) > 0 /\ Head(queue) = queue[1]
  BY <1>1
<1>4. QED
  BY <1>1, <1>2, <1>3 DEF Typed, Attempted

(* Steps that neither add to the log nor move the queue.                    *)
LEMMA QueueUntouched ==
  ASSUME EventInv, QueueInv, UNCHANGED <<fired, queue, attempt, dropped>>, SameIds
  PROVE  QueueInv'
<1>1. Logged(source)' = Logged(source)
  BY DEF SameIds, Logged
<1>2. FiredOrder'
  <2> SUFFICES ASSUME NEW n \in DOMAIN source.entries,
                      NEW e \in 1..(source.entries[n].id - 1)
               PROVE  \/ \E k \in 1..(n - 1) : source'.entries[k].id = e
                      \/ e \in dropped \ Logged(source)
    BY <1>1 DEF FiredOrder, SameIds
  <2>1. CASE e \in dropped \ Logged(source)
    BY <2>1
  <2>2. CASE \E k \in 1..(n - 1) : source.entries[k].id = e
    <3>1. PICK k \in 1..(n - 1) : source.entries[k].id = e
      BY <2>2
    <3>2. k \in DOMAIN source.entries
      BY SourceTypes DEF EventInv, Typed
    <3>3. QED
      BY <3>1, <3>2 DEF SameIds
  <2>3. QED
    BY <2>1, <2>2 DEF QueueInv, FiredOrder
<1>3. Queued' /\ Left' = Left
  BY DEF QueueInv, Queued, Left
<1>4. Reached' /\ Answered'
  BY <1>1 DEF QueueInv, Reached, Answered
<1>5. QED
  BY <1>1, <1>2, <1>3, <1>4 DEF QueueInv

LEMMA QueueFire ==
  ASSUME EventInv, QueueInv, Fire
  PROVE  QueueInv'
<1>1. /\ fired \in Nat /\ Len(queue) \in Nat /\ queue \in Seq(Events)
      /\ fired' = fired + 1 /\ queue' = Append(queue, fired + 1)
  BY QueueTypes DEF Fire, EventInv, Typed, TypeOK
<1>2. fired + 1 \in Events
  BY BoundsAssumption DEF Fire, EventInv, Typed, TypeOK, Events
<1>3. /\ Len(queue') = Len(queue) + 1
      /\ \A i \in 1..Len(queue) : queue'[i] = queue[i]
      /\ queue'[Len(queue) + 1] = fired + 1
  BY <1>1, <1>2, AppendProperties, AppendShape
<1>4. Queued'
  <2>1. Len(queue') <= fired'
    BY <1>1, <1>3 DEF QueueInv, Queued
  <2>2. ASSUME NEW i \in 1..Len(queue') PROVE queue'[i] = fired' - Len(queue') + i
    <3>1. CASE i \in 1..Len(queue)
      BY <1>1, <1>3, <3>1 DEF QueueInv, Queued
    <3>2. CASE i = Len(queue) + 1
      BY <1>1, <1>3, <3>2
    <3>3. QED
      BY <1>1, <1>3, <2>2, <3>1, <3>2
  <2>3. QED
    BY <2>1, <2>2 DEF Queued
<1>5. Left' = Left /\ fired' - Len(queue') = fired - Len(queue)
  BY <1>1, <1>3 DEF Left
<1>6. UNCHANGED <<attempt, dropped, source>> /\ Logged(source)' = Logged(source)
  BY DEF Fire, Logged
<1>7. FiredOrder' /\ Answered' /\ Reached'
  BY <1>5, <1>6 DEF QueueInv, Answered, Reached, FiredOrder, Logged
<1>8. QED
  BY <1>4, <1>5, <1>6, <1>7 DEF QueueInv

LEMMA QueueSettle ==
  ASSUME EventInv, QueueInv, Settle
  PROVE  QueueInv'
<1>1. /\ attempt # NoAttempt /\ queue' = Tail(queue) /\ attempt' = NoAttempt
      /\ UNCHANGED <<fired, source>> /\ Logged(source)' = Logged(source)
      /\ dropped \subseteq dropped'
  BY DEF Settle, NoAttempt, Logged
<1>2. /\ fired \in Nat /\ Len(queue) \in Nat /\ queue \in Seq(Events)
      /\ Len(queue) > 0 /\ queue # <<>> /\ attempt.id = queue[1]
  BY <1>1, QueueTypes DEF EventInv, Typed, TypeOK
<1>3. /\ Len(queue') = Len(queue) - 1
      /\ \A i \in 1..Len(queue') : queue'[i] = queue[i + 1]
  BY <1>1, <1>2
<1>4. Queued'
  <2>1. ASSUME NEW i \in 1..Len(queue') PROVE queue'[i] = fired - Len(queue') + i
    <3>1. i + 1 \in 1..Len(queue) /\ i \in Nat
      BY <1>2, <1>3
    <3>2. queue[i + 1] = fired - Len(queue) + (i + 1)
      BY <3>1 DEF QueueInv, Queued
    <3>3. QED
      BY <1>2, <1>3, <3>1, <3>2
  <2>2. QED
    BY <1>1, <1>2, <1>3, <2>1 DEF QueueInv, Queued
<1>5. Left' \subseteq Logged(source)' \union dropped'
  <2>1. attempt.id \in Logged(source) \union dropped'
    BY DEF Settle, QueueInv, Answered
  <2>2. attempt.id = fired - Len(queue) + 1
    BY <1>2 DEF QueueInv, Queued
  <2>3. Left' = Left \union {fired - Len(queue) + 1}
    BY <1>1, <1>2, <1>3 DEF Left, QueueInv, Queued
  <2>4. QED
    BY <1>1, <2>1, <2>2, <2>3 DEF QueueInv
<1>6. Reached'
  <2>1. Logged(source) \subseteq Events
    BY SourceTypes DEF EventInv, Typed, Logged
  <2>2. \A e \in Logged(source) : e \in Nat
    BY <2>1 DEF Events
  <2>3. QED
    BY <1>1, <1>2, <1>3, <2>2 DEF QueueInv, Reached
<1>7. FiredOrder'
  <2> SUFFICES ASSUME NEW n \in DOMAIN source.entries,
                      NEW e \in 1..(source.entries[n].id - 1)
               PROVE  \/ \E k \in 1..(n - 1) : source.entries[k].id = e
                      \/ e \in dropped' \ Logged(source)
    BY <1>1 DEF FiredOrder
  <2>1. QED
    BY <1>1 DEF QueueInv, FiredOrder
<1>8. Answered'
  BY <1>1 DEF Answered, NoAttempt
<1>9. QED
  BY <1>4, <1>5, <1>6, <1>7, <1>8 DEF QueueInv

LEMMA AdmittedEntries ==
  ASSUME NEW s \in Streams, NEW e \in Events
  PROVE  /\ DOMAIN Admitted(s, e).entries = 1..(Len(s.entries) + 1)
         /\ \A n \in DOMAIN s.entries : Admitted(s, e).entries[n] = s.entries[n]
         /\ Admitted(s, e).entries[Len(s.entries) + 1] = Entry(e, FALSE, FALSE)
<1>1. \A t : t = Admitted(s, e) => DOMAIN t.entries = 1..(Len(s.entries) + 1)
  BY AdmittedShape, ZenonT(30)
<1>2. \A t : t = Admitted(s, e) => \A n \in DOMAIN s.entries : t.entries[n] = s.entries[n]
  BY AdmittedShape
<1>3. \A t : t = Admitted(s, e) => t.entries[Len(s.entries) + 1] = Entry(e, FALSE, FALSE)
  BY AdmittedShape, ZenonT(30)
<1>4. QED
  BY <1>1, <1>2, <1>3

(* The event admitted is the next after those that have left the queue.     *)
LEMMA QueueAdmit ==
  ASSUME EventInv, QueueInv, Admit
  PROVE  QueueInv'
<1> DEFINE admissible == allowed /\ attempt.id \notin unfit
<1>1. /\ attempt # NoAttempt /\ UNCHANGED <<fired, queue, dropped>>
      /\ attempt' = [attempt EXCEPT !.at = IF ~admissible THEN "refused"
           ELSE IF Duplicate(source, attempt.id) THEN "duplicate" ELSE "ok"]
      /\ source' = IF admissible /\ ~Duplicate(source, attempt.id)
                   THEN Admitted(source, attempt.id) ELSE source
  BY DEF Admit, NoAttempt
<1>2. /\ fired \in Nat /\ Len(queue) \in Nat /\ Len(queue) > 0 /\ attempt.id = queue[1]
      /\ attempt.id \in Events /\ attempt.id = fired - Len(queue) + 1
  <2>1. fired \in Nat /\ Len(queue) \in Nat /\ Len(queue) > 0 /\ attempt.id = queue[1]
    BY <1>1, QueueTypes DEF EventInv
  <2>2. attempt.id \in Events
    BY <1>1 DEF EventInv, Typed, Attempted, TypeOK
  <2>3. QED
    BY <2>1, <2>2 DEF QueueInv, Queued
<1> HIDE DEF admissible
<1>3. attempt'.id = attempt.id /\ attempt'.at = (IF ~admissible THEN "refused"
           ELSE IF Duplicate(source, attempt.id) THEN "duplicate" ELSE "ok")
  BY <1>1 DEF EventInv, Typed, TypeOK
<1>4. Queued' /\ Left' = Left
  BY <1>1 DEF QueueInv, Queued, Left
<1>5. CASE source' = source
  <2>1. attempt'.at \in {"ok", "duplicate"} => attempt.id \in Logged(source)
    <3>1. ASSUME admissible PROVE Duplicate(source, attempt.id)
      <4>1. SUFFICES ASSUME ~Duplicate(source, attempt.id) PROVE FALSE
        OBVIOUS
      <4>2. source = Admitted(source, attempt.id)
        BY <1>1, <1>5, <3>1, <4>1
      <4>3. DOMAIN source.entries = 1..(Len(source.entries) + 1)
        BY <1>2, <4>2, SourceTypes, AdmittedShape, ZenonT(30) DEF EventInv, Typed
      <4>4. QED
        BY <4>3, SourceTypes DEF EventInv, Typed
    <3>2. Duplicate(source, attempt.id) => attempt.id \in Logged(source)
      BY DEF Duplicate, Above, Logged
    <3>3. QED
      BY <1>3, <3>1, <3>2
  <2>2. Answered'
    BY <1>1, <1>3, <1>5, <2>1 DEF Answered, Logged
  <2>3. Logged(source)' = Logged(source)
    BY <1>5 DEF Logged
  <2>4. FiredOrder' /\ Reached'
    BY <1>1, <1>5, <2>3 DEF QueueInv, FiredOrder, Reached
  <2>5. QED
    BY <1>1, <1>4, <2>2, <2>3, <2>4 DEF QueueInv
<1>6. CASE admissible /\ ~Duplicate(source, attempt.id) /\ source' = Admitted(source, attempt.id)
  <2> DEFINE L == Len(source.entries)
  <2>1. /\ L \in Nat /\ DOMAIN source.entries = 1..L
        /\ DOMAIN source'.entries = 1..(L + 1)
        /\ \A n \in 1..L : source'.entries[n] = source.entries[n]
        /\ source'.entries[L + 1].id = attempt.id
    <3>1. source \in Streams /\ L \in Nat /\ DOMAIN source.entries = 1..L
      BY SourceTypes DEF EventInv, Typed
    <3>2. /\ DOMAIN source'.entries = 1..(L + 1)
          /\ \A n \in 1..L : source'.entries[n] = source.entries[n]
          /\ source'.entries[L + 1] = Entry(attempt.id, FALSE, FALSE)
      BY <1>2, <1>6, <3>1, AdmittedEntries
    <3>3. QED
      BY <3>1, <3>2 DEF Entry
  <2>2. Logged(source)' = Logged(source) \union {attempt.id}
    BY <2>1, SMTT(30) DEF Logged
  <2>3. Left \subseteq Logged(source) \union dropped
    BY DEF QueueInv
  <2>7. \A n \in 1..L : source.entries[n].id \in Nat /\ source.entries[n].id <= attempt.id
    <3>1. \A n \in 1..L : source.entries[n].id \in Events
      BY <2>1, SourceTypes DEF EventInv, Typed
    <3>2. \A n \in 1..L : source.entries[n].id \in Logged(source)
      BY <2>1 DEF Logged
    <3>3. QED
      BY <1>2, <3>1, <3>2 DEF QueueInv, Reached, Events
  <2>8. Reached'
    <3>1. \A e \in Logged(source)' : e <= fired - Len(queue) + 1
      BY <1>2, <2>2 DEF QueueInv, Reached
    <3>2. QED
      BY <1>1, <3>1 DEF Reached
  <2>4. FiredOrder'
    <3> SUFFICES ASSUME NEW n \in 1..(L + 1), NEW e \in 1..(source'.entries[n].id - 1)
                 PROVE  \/ \E k \in 1..(n - 1) : source'.entries[k].id = e
                        \/ e \in dropped \ Logged(source)'
      BY <1>1, <2>1 DEF FiredOrder
    <3>1. CASE n \in 1..L
      <4>1. /\ source'.entries[n].id = source.entries[n].id
            /\ e \in 1..(source.entries[n].id - 1) /\ e # attempt.id
        BY <1>2, <2>1, <2>7, <3>1
      <4>2. CASE e \in dropped \ Logged(source)
        BY <2>2, <4>1, <4>2
      <4>3. CASE \E k \in 1..(n - 1) : source.entries[k].id = e
        <5>1. PICK k \in 1..(n - 1) : source.entries[k].id = e
          BY <4>3
        <5>2. k \in 1..L
          BY <2>1, <3>1
        <5>3. QED
          BY <2>1, <5>1, <5>2
      <4>4. QED
        BY <2>1, <3>1, <4>1, <4>2, <4>3 DEF QueueInv, FiredOrder
    <3>2. CASE n = L + 1
      <4>1. e \in Left /\ e # attempt.id
        BY <1>2, <2>1, <3>2 DEF Left
      <4>2. CASE e \in Logged(source)
        <5>1. PICK k \in 1..L : source.entries[k].id = e
          BY <2>1, <4>2 DEF Logged
        <5>2. QED
          BY <2>1, <3>2, <5>1
      <4>3. CASE e \notin Logged(source)
        BY <2>2, <2>3, <4>1, <4>3
      <4>4. QED
        BY <4>2, <4>3
    <3>3. QED
      BY <2>1, <3>1, <3>2
  <2>5. Answered'
    BY <1>3, <1>6, <2>2 DEF Answered
  <2>6. QED
    BY <1>1, <1>4, <2>2, <2>3, <2>4, <2>5, <2>8 DEF QueueInv
<1>7. QED
  BY <1>1, <1>5, <1>6

LEMMA QueueStep ==
  ASSUME EventInv, QueueInv, [Next]_vars
  PROVE  QueueInv'
<1>1. CASE Fire
  BY <1>1, QueueFire
<1>2. CASE Settle
  BY <1>2, QueueSettle
<1>3. CASE Admit
  BY <1>3, QueueAdmit
<1>4. CASE Send \/ Lose \/ SetAcl
  <2>1. /\ UNCHANGED <<fired, queue, dropped, source>>
        /\ attempt'.at \notin {"ok", "duplicate"} \/ attempt' = attempt
    BY <1>4 DEF Send, Lose, SetAcl, NoAttempt, clientVars
  <2>2. Queued' /\ Left' = Left /\ FiredOrder' /\ Logged(source)' = Logged(source)
    BY <2>1 DEF QueueInv, Queued, Left, FiredOrder, Logged
  <2>3. QED
    BY <2>1, <2>2 DEF QueueInv, Answered, Reached
<1>5. CASE Wave
  <2>1. PICK W \in SUBSET Pending(source) : source' \in Waved(source, W)
    BY <1>5 DEF Wave
  <2>2. source \in Streams /\ W \subseteq DOMAIN source.entries
    BY SourceTypes DEF EventInv, Typed, Pending, Above
  <2>3. SameIds
    BY <2>1, <2>2, WavedShape DEF SameIds
  <2>4. QED
    BY <1>5, <2>3, QueueUntouched DEF Wave, clientVars
<1>6. CASE \/ Replace \/ Activate \/ EndTenure \/ Redrain \/ TargetWave \/ UNCHANGED vars
           \/ \E t \in Tenures : \E r \in drains[t].rows :
                Deliver(t, r) \/ Notice(t, r) \/ DeliverFails(t, r) \/ Retire(t, r)
  <2>1. UNCHANGED <<fired, queue, attempt, dropped, source>>
    BY <1>6 DEF Replace, Activate, EndTenure, Redrain, TargetWave, vars, clientVars,
                Deliver, Notice, DeliverFails, Retire
  <2>2. QED
    BY <2>1, QueueUntouched DEF SameIds
<1>7. QED
  BY <1>1, <1>2, <1>3, <1>4, <1>5, <1>6 DEF Next

(* Events enter the stream in the order they were fired, however often an   *)
(* attempt is lost and repeated: one passed over was refused, and stays out *)
(* of the log.                                                              *)
THEOREM FiredInOrder == Spec => []FiredOrder
<1>1. Init => EventInv /\ QueueInv
  <2>1. Init => EventInv
    BY InitTyped, EmptyIsUniform DEF Init, EventInv, StreamInv
  <2>2. ASSUME Init PROVE QueueInv
    <3>1. fired = 0 /\ Len(queue) = 0 /\ DOMAIN source.entries = {}
      BY <2>2 DEF Init, EmptyStream
    <3>2. QED
      BY <2>2, <3>1 DEF Init, QueueInv, Queued, Left, Answered, Reached, Logged, NoAttempt,
                          FiredOrder
  <2>3. QED
    BY <2>1, <2>2
<1>2. EventInv /\ QueueInv /\ [Next]_vars => EventInv' /\ QueueInv'
  BY EventStep, QueueStep
<1>3. QueueInv => FiredOrder
  BY DEF QueueInv
<1>4. QED
  BY <1>1, <1>2, <1>3, PTL DEF Spec

-----------------------------------------------------------------------------
(* The order of the appends                                                 *)
LEMMA RowsUntouched ==
  ASSUME RowInv, UNCHANGED <<outbox, drains>>, Handled(source)' = Handled(source)
  PROVE  RowInv'
BY DEF RowInv, WholeDrain, OutboxIds, Waiting

(* A step that changes one drain, to the whole table or to nothing.         *)
LEMMA RowsOfDrain ==
  ASSUME TypeOK, RowInv, NEW t \in Tenures, NEW d, UNCHANGED <<outbox, source>>,
         drains' = [drains EXCEPT ![t] = d], d.rows \in {{}, outbox, drains[t].rows}
  PROVE  RowInv'
<1>1. \A u \in Tenures : drains'[u] = IF u = t THEN d ELSE drains[u]
  BY DEF TypeOK
<1>2. WholeDrain'
  BY <1>1 DEF RowInv, WholeDrain
<1>3. QED
  BY <1>2 DEF RowInv, OutboxIds, Waiting, Handled

(* The handlers a wave ran had not run before: their rows are of new events. *)
LEMMA WaveRows ==
  ASSUME EventInv, OneDrain, RowInv, Wave
  PROVE  RowInv'
<1>1. PICK W \in SUBSET Pending(source) \ {{}}, next \in NextRows :
        /\ source' \in Waved(source, W)
        /\ outbox' = outbox \union {RowFor(Ran(source, W), next, n) : n \in Ran(source, W)}
        /\ drains' = drains \/ drains' = [drains EXCEPT ![holder] = DrainOf(outbox')]
  BY DEF Wave
<1> DEFINE R == Ran(source, W)
           Fresh == {RowFor(R, next, n) : n \in R}
<1>2. /\ StreamInv(source) /\ TypeOK /\ R \subseteq DOMAIN source.entries /\ R \subseteq W
      /\ W \subseteq DOMAIN source.entries /\ \A n \in W : ~source.entries[n].done
  BY DEF EventInv, Typed, TypeOK, StreamInv, Ran, Pending, Above
<1>3. \A n \in R : RowFor(R, next, n).id = source.entries[n].id
  BY DEF RowFor
<1>4. \A n \in R : source.entries[n].id \notin Handled(source)
  <2> SUFFICES ASSUME NEW n \in R, NEW k \in DOMAIN source.entries,
                      source.entries[k].ran, source.entries[k].id = source.entries[n].id
               PROVE  FALSE
    BY DEF Handled
  <2>1. source.entries[k].done
    BY <1>2 DEF StreamInv, Uniform
  <2>2. k # n
    BY <1>2, <2>1
  <2>3. Twin(source, n)
    BY <2>1, <2>2 DEF Twin
  <2>4. QED
    BY <2>3 DEF Ran
<1>5. \A n \in R, m \in R : source.entries[n].id = source.entries[m].id => n = m
  BY <1>2 DEF StreamInv, Uniform, Ran, Pending
<1>6. OutboxIds'
  <2>1. Handled(source') = Handled(source) \union {source.entries[n].id : n \in R}
    BY <1>1, <1>2, WavedKeeps
  <2>2. Waiting' \subseteq Handled(source)'
    <3>1. \A q \in outbox' : q.id \in Handled(source) \/ \E n \in R : q.id = source.entries[n].id
      BY <1>1, <1>3 DEF RowInv, OutboxIds, Waiting
    <3>2. \A q \in outbox' : q.id \in Handled(source')
      BY <2>1, <3>1
    <3>3. Handled(source)' = Handled(source')
      BY DEF Handled
    <3>4. QED
      BY <3>2, <3>3 DEF Waiting
  <2>3. \A q \in outbox : q.id \in Handled(source)
    BY DEF RowInv, OutboxIds, Waiting
  <2>4. \A q \in outbox, r \in Fresh : q.id # r.id
    BY <1>3, <1>4, <2>3
  <2>5. \A q \in Fresh, r \in Fresh : q.id = r.id => q = r
    BY <1>3, <1>5
  <2>6. QED
    BY <1>1, <2>2, <2>4, <2>5 DEF RowInv, OutboxIds
<1>7. WholeDrain'
  <2>1. \A t \in Tenures : drains[t] = Idle
    BY DEF Wave, OneDrain
  <2>2. holder \in Tenures
    BY WavedSource
  <2>3. \A t \in Tenures : drains'[t].rows \in {{}, outbox'}
    <3>1. CASE drains' = drains
      BY <2>1, <3>1 DEF Idle
    <3>2. CASE drains' = [drains EXCEPT ![holder] = DrainOf(outbox')]
      <4>1. \A t \in Tenures : drains'[t] = IF t = holder THEN DrainOf(outbox') ELSE Idle
        BY <1>2, <2>1, <3>2 DEF TypeOK
      <4>2. DrainOf(outbox').rows = outbox' /\ Idle.rows = {}
        BY DEF DrainOf, Idle
      <4>3. QED
        BY <4>1, <4>2
    <3>3. QED
      BY <1>1, <3>1, <3>2
  <2>4. QED
    BY <2>3 DEF WholeDrain
<1>8. QED
  BY <1>6, <1>7 DEF RowInv

(* The row deleted is the only one deleted, from the table and the drain.   *)
LEMMA RetireRows ==
  ASSUME EventInv, OneDrain, RowIds, RowInv, NEW t \in Tenures, NEW r \in drains[t].rows,
         Retire(t, r)
  PROVE  RowInv'
<1>1. /\ drains[t].rows = outbox /\ r \in outbox
      /\ outbox' = {q \in outbox : q.row # r.row}
      /\ drains' = [drains EXCEPT ![t] = DrainOf(drains[t].rows \ {r})]
      /\ UNCHANGED source
  BY DEF Retire, RowInv, WholeDrain
<1>2. \A u \in Tenures : drains'[u] = IF u = t THEN DrainOf(drains[t].rows \ {r}) ELSE drains[u]
  BY <1>1 DEF EventInv, Typed, TypeOK
<1>3. outbox' = outbox \ {r}
  BY <1>1 DEF RowIds, Known
<1>4. \A u \in Tenures : u # t => drains[u].rows = {}
  <2>1. t = holder
    BY DEF OneDrain, Idle
  <2>2. QED
    BY <2>1 DEF OneDrain, Idle
<1>5. WholeDrain'
  <2>1. DrainOf(drains[t].rows \ {r}).rows = outbox'
    BY <1>1, <1>3 DEF DrainOf
  <2>2. QED
    BY <1>2, <1>4, <2>1 DEF WholeDrain
<1>6. QED
  BY <1>1, <1>3, <1>5 DEF RowInv, OutboxIds, Waiting, Handled

LEMMA RowStep ==
  ASSUME Lapses = FALSE, EventInv, LossInv, RowInv, [Next]_vars
  PROVE  RowInv'
<1>0. TypeOK /\ StreamInv(source) /\ OneDrain /\ RowIds /\ Idle.rows = {} /\ DrainOf(outbox).rows = outbox
  BY DEF EventInv, Typed, TypeOK, StreamInv, LossInv, Idle, DrainOf
<1>1. CASE Fire \/ Send \/ Replace \/ Lose \/ Settle \/ SetAcl \/ TargetWave \/ UNCHANGED vars
  <2>1. UNCHANGED <<source, outbox, drains>>
    BY <1>1 DEF Fire, Send, Replace, Lose, Settle, SetAcl, TargetWave, vars, serverVars
  <2>2. QED
    BY <2>1, RowsUntouched DEF Handled
<1>2. CASE Admit
  <2>1. UNCHANGED <<outbox, drains>>
    BY <1>2 DEF Admit, serverVars
  <2>2. Handled(source') = Handled(source)
    <3>1. attempt.id \in Events
      BY <1>2 DEF Admit, NoAttempt, EventInv, Typed, Attempted, TypeOK
    <3>2. QED
      BY <1>0, <1>2, <3>1, AdmittedKeeps DEF Admit
  <2>3. QED
    BY <2>1, <2>2, RowsUntouched DEF Handled
<1>3. CASE Activate
  <2>1. tenures + 1 \in Tenures
    BY <1>0, <1>3, BoundsAssumption DEF Activate, TypeOK, Tenures
  <2>2. QED
    BY <1>0, <1>3, <2>1, RowsOfDrain DEF Activate
<1>4. CASE EndTenure
  <2>1. holder \in Tenures
    BY <1>0, <1>4, BoundsAssumption DEF EndTenure, TypeOK, Tenures
  <2>2. drains' = drains \/ drains' = [drains EXCEPT ![holder] = Idle]
    BY <1>4 DEF EndTenure
  <2>3. CASE drains' = drains
    BY <1>4, <2>3, RowsUntouched DEF EndTenure, Handled
  <2>4. CASE drains' = [drains EXCEPT ![holder] = Idle]
    BY <1>0, <1>4, <2>1, <2>4, RowsOfDrain DEF EndTenure
  <2>5. QED
    BY <2>2, <2>3, <2>4
<1>5. CASE Wave
  BY <1>0, <1>5, WaveRows
<1>6. CASE Redrain
  <2>1. holder \in Tenures
    BY <1>0, <1>6, BoundsAssumption DEF Redrain, TypeOK, Tenures
  <2>2. QED
    BY <1>0, <1>6, <2>1, RowsOfDrain DEF Redrain
<1>7. ASSUME NEW t \in Tenures, NEW r \in drains[t].rows,
             Deliver(t, r) \/ Notice(t, r) \/ DeliverFails(t, r) \/ Retire(t, r)
      PROVE  RowInv'
  <2>1. CASE Retire(t, r)
    BY <1>0, <2>1, RetireRows
  <2>2. CASE Deliver(t, r) \/ Notice(t, r) \/ DeliverFails(t, r)
    <3>1. /\ UNCHANGED <<outbox, source>>
          /\ Sent(t) \/ Stopped(t)
      BY <2>2 DEF Deliver, Notice, DeliverFails
    <3>2. CASE Stopped(t)
      BY <1>0, <3>1, <3>2, RowsOfDrain DEF Stopped
    <3>3. CASE Sent(t)
      <4>1. \A u \in Tenures : drains'[u].rows = drains[u].rows
        BY <1>0, <3>3 DEF Sent, TypeOK
      <4>2. QED
        BY <3>1, <4>1 DEF RowInv, WholeDrain, OutboxIds, Waiting, Handled
    <3>4. QED
      BY <3>1, <3>2, <3>3
  <2>3. QED
    BY <1>7, <2>1, <2>2
<1>8. QED
  BY <1>1, <1>2, <1>3, <1>4, <1>5, <1>6, <1>7 DEF Next

(* The append that arrives is that of the lowest row of the table.          *)
LEMMA LowestArrives ==
  ASSUME EventInv, LossInv, RowInv, [Next]_vars, NEW r \in outbox, Arrives(r),
         NEW q \in outbox, q.row < r.row
  PROVE  FALSE
<1>1. target' # target /\ Logged(target') # Logged(target)
  BY DEF Arrives, Logged
<1>2. \E t \in Tenures : \E f \in drains[t].rows : Deliver(t, f)
  <2>1. ~TargetWave
    <3>1. StreamInv(target)
      BY DEF EventInv, Typed, TypeOK, StreamInv
    <3>2. QED
      BY <1>1, <3>1, WavedKeeps DEF TargetWave
  <2>2. QED
    BY <1>1, <2>1 DEF Next, vars, Fire, Send, Replace, Admit, Lose, Settle, SetAcl, Activate,
                      EndTenure, Wave, Redrain, Notice, DeliverFails, Retire
<1>3. PICK t \in Tenures : \E f \in drains[t].rows : Deliver(t, f)
  BY <1>2
<1>4. PICK f \in drains[t].rows : Deliver(t, f)
  BY <1>3
<1>5. /\ f \in outbox /\ \A p \in outbox : f.row <= p.row
      /\ \A p \in outbox : p.row \in Nat
  BY <1>4 DEF Deliver, First, RowInv, WholeDrain, EventInv, Typed, TypeOK, Rows
<1>6. r.id = f.id
  <2>1. StreamInv(target) /\ f.id \in Events /\ ~Duplicate(target, f.id)
        /\ target' = Admitted(target, f.id)
    BY <1>1, <1>4, <1>5 DEF Deliver, EventInv, Typed, TypeOK, StreamInv, Rows
  <2>2. Logged(target') = Logged(target) \union {f.id}
    BY <2>1, AdmittedKeeps
  <2>3. QED
    BY <2>2 DEF Arrives, Logged
<1>7. r = f
  BY <1>5, <1>6 DEF RowInv, OutboxIds
<1>8. QED
  BY <1>5, <1>7

(* While a tenure ends with its process, appends enter their target in the  *)
(* order of their rows, whatever deliveries fail and are repeated.          *)
THEOREM SentInOrder ==
  ASSUME Lapses = FALSE
  PROVE  Spec => SentOrder
<1>1. Init => EventInv /\ LossInv /\ RowInv
  <2>1. Init => EventInv /\ LossInv
    BY LossInit
  <2>2. ASSUME Init PROVE RowInv
    BY <2>2 DEF Init, RowInv, WholeDrain, OutboxIds, Waiting, Idle
  <2>3. QED
    BY <2>1, <2>2
<1>2. EventInv /\ LossInv /\ RowInv /\ [Next]_vars => EventInv' /\ LossInv' /\ RowInv'
  BY EventStep, LossStep, RowStep
<1>3. EventInv /\ LossInv /\ RowInv /\ [Next]_vars =>
        [\A r \in outbox : Arrives(r) =>
           \A q \in outbox : q.row < r.row => q.id \in Logged(target) \union noticed]_vars
  BY LowestArrives
<1>4. QED
  BY <1>1, <1>2, <1>3, PTL DEF Spec, SentOrder
=============================================================================
