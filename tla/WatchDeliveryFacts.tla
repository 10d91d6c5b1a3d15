------------------------- MODULE WatchDeliveryFacts -------------------------
(***************************************************************************)
(* The invariant of WatchDelivery, what each action does, and the part of  *)
(* the invariant that concerns the wire: what can be on it (LinkInv,       *)
(* CallInv), the watches and the drops (WatchInv), the order of the        *)
(* commits and what the client is told of them (LogInv, OrderInv,          *)
(* AnswerInv), and the markers and origins (MarkInv, OriginInv).           *)
(*                                                                         *)
(* The server remembers what it sent (cached), the client what it holds    *)
(* (held), and the two meet only through the frames in flight. Reaches     *)
(* says what a replica will hold of a document when it has absorbed them.  *)
(* What the server counts as sent is reached, or elided because the client *)
(* wrote it (CacheInv); and where a commit's marker has come, the seq the  *)
(* commit rests on has been reached (PendInv, FloorInv), so that a         *)
(* promotion never lays a write over a base the replica lacks (DoneInv,    *)
(* ValueInv).                                                              *)
(***************************************************************************)
EXTENDS WatchDelivery, FiniteSetTheorems, SequenceTheorems, WellFoundedInduction, TLAPS

(* The types of the variables.                                             *)
Entry  == [doc : Docs, value : SUBSET Nat, by : Nat]
Stamp  == [seq : Nat, op : {"none", "set", "patch"}]
Batch  == [on : BOOLEAN, docs : SUBSET Docs, origin : [Docs -> Stamp], served : BOOLEAN]
State  == [watches : SUBSET Docs, force : BOOLEAN, caught : Nat, owed : Nat,
           cached : [Docs -> Int]]
Record == [seq : Nat, value : SUBSET Nat]
Own    == [doc : Docs, op : {"set", "patch"}, basis : Nat,
           at : {"sent", "answered", "parked", "done"}, ok : BOOLEAN, seq : Nat]
CommitFrames == [type : {"commit"}, id : Nat, doc : Docs, op : {"set", "patch"}, basis : Nat]
AddFrames    == [type : {"add"}, doc : Docs]
SetFrames    == [type : {"set"}, watches : SUBSET Docs]
OpenFrames   == [type : {"open"}, holdings : [Docs -> Nat]]
UpFrame      == CommitFrames \union AddFrames \union SetFrames \union OpenFrames
Verdicts     == [type : {"verdict"}, id : Nat, ok : BOOLEAN, seq : Nat]
Syncs        == [type : {"effect", "added", "replaced", "opened"},
                 ups : UNION {[D -> Nat] : D \in SUBSET Docs}, rems : SUBSET Docs, marker : Nat]
DownFrame    == Verdicts \union Syncs
Calls        == {NoCall} \union [op : {"add", "remove"}, doc : Docs]

Types ==
  /\ log \in Seq(Entry)
  /\ due \in BOOLEAN /\ dirty \in SUBSET Docs /\ origin \in [Docs -> Stamp]
  /\ pass \in Batch /\ session \in State
  /\ skipped \in BOOLEAN /\ link \in {"live", "dead", "none"}
  /\ up \in Seq(UpFrame) /\ down \in Seq(DownFrame)
  /\ conn \in {"up", "down", "opening"} /\ wanted \in SUBSET Docs /\ call \in Calls
  /\ held \in [Docs -> Record] /\ delivered \in [Docs -> Nat]
  /\ marker \in Nat /\ mine \in Seq(Own)

Top  == Larger(session.owed, session.caught)
Live == link = "live"
End  == Len(down)
Unserved    == pass.on /\ ~pass.served
IsCommit(f) == f.type = "commit"
IsCall(f)   == f.type \in {"add", "set"}
IsAnswer(f) == f.type \in {"added", "replaced"}

(* What a frame brings of a document: a seq of at least s, or its removal. *)
Raises(f, d, s) == f.type # "verdict" /\ d \in DOMAIN f.ups /\ f.ups[d] >= s
Drops(f, d)     == f.type # "verdict" /\ d \in f.rems
MarkIn(f)       == IF f.type = "verdict" THEN 0 ELSE f.marker

(* A replica that holds h and absorbs the first k frames of dn then holds  *)
(* the document at s or later.                                             *)
Reaches(h, dn, d, k, s) ==
  \/ h[d].seq >= s /\ \A j \in 1..k : ~Drops(dn[j], d)
  \/ \E j \in 1..k : Raises(dn[j], d, s) /\ \A i \in (j + 1)..k : ~Drops(dn[i], d)

RecordedAs(n, s) == s - 1 \in DOMAIN log /\ log[s - 1].by = n
Recorded(n) == \E i \in DOMAIN log : log[i].by = n
Decided(n) == Recorded(n) \/ (mine[n].op = "set" /\ mine[n].basis < HeadSeq(mine[n].doc))

(* The connection and what can be on it.                                   *)
LinkInv ==
  /\ conn = "down" => up = <<>> /\ down = <<>> /\ call = NoCall /\ ~Live
  /\ conn = "opening" =>
       /\ call = NoCall
       /\ \/ up = <<[type |-> "open", holdings |-> delivered]>> /\ down = <<>> /\ ~Live
          \/ up = <<>> /\ Live /\ down # <<>> /\ down[1].type = "opened"
  /\ conn = "up" => Live /\ \A i \in DOMAIN up : up[i].type # "open"
  /\ \A k \in DOMAIN down : down[k].type = "opened" => k = 1 /\ conn = "opening"
BatchInv ==
  /\ ~due => dirty = {}
  /\ \A d \in Docs : d \notin dirty => origin[d] = NoOrigin
  /\ ~pass.on => pass = NoPass

(* A call is on its way up, on its way down, or lost.                      *)
CallInv ==
  /\ call # NoCall => call.doc \notin wanted
  /\ \A i \in DOMAIN up : IsCall(up[i]) =>
       /\ call # NoCall
       /\ \A j \in DOMAIN up : IsCall(up[j]) => j = i
       /\ \A k \in DOMAIN down : ~IsAnswer(down[k])
  /\ \A i \in DOMAIN up : up[i].type = "add" => call.op = "add" /\ up[i].doc = call.doc
  /\ \A i \in DOMAIN up : up[i].type = "set" => call.op = "remove" /\ up[i].watches = wanted
  /\ \A k \in DOMAIN down : IsAnswer(down[k]) =>
       /\ call # NoCall
       /\ \A j \in DOMAIN down : IsAnswer(down[j]) => j = k
  /\ \A k \in DOMAIN down : down[k].type = "added" =>
       call.op = "add" /\ call.doc \in session.watches
  /\ \A k \in DOMAIN down : down[k].type = "replaced" => call.op = "remove"

(* A frame that drops a watched document precedes the answer that added it.*)
WatchInv ==
  /\ wanted \subseteq session.watches
  /\ \A d \in Docs \ session.watches : session.cached[d] \in {Nothing, 0}
  /\ \A k \in DOMAIN down : \A d \in Docs : ~(Drops(down[k], d) /\ Raises(down[k], d, 0))
  /\ Live => \A d \in session.watches : \A k \in DOMAIN down : Drops(down[k], d) =>
       call.op = "add" /\ d = call.doc /\ \E j \in (k + 1)..End : down[j].type = "added"

(* The own commits are recorded in their order, each once.                 *)
LogInv ==
  /\ \A i \in DOMAIN log : log[i].by # 0 =>
       /\ log[i].by \in DOMAIN mine
       /\ log[i].by <= Top
       /\ log[i].doc = mine[log[i].by].doc
       /\ mine[log[i].by].op = "set" => log[i].value = {i + 1}
  /\ \A i, j \in DOMAIN log : i < j /\ log[i].by # 0 /\ log[j].by # 0 => log[i].by < log[j].by
OrderInv ==
  /\ Top <= Len(mine)
  /\ \A n \in 1..Top : Decided(n)
  /\ \A n \in DOMAIN mine : mine[n].basis <= HeadSeq(mine[n].doc)
  /\ \A i \in DOMAIN up : IsCommit(up[i]) =>
       /\ up[i].id \in DOMAIN mine
       /\ up[i] = CommitFrame(mine, up[i].id)
       /\ \A m \in (Top + 1)..(up[i].id - 1) : \E j \in 1..(i - 1) :
            IsCommit(up[j]) /\ up[j].id = m
  /\ conn = "up" =>
       \A m \in (Top + 1)..Len(mine) : \E j \in DOMAIN up : IsCommit(up[j]) /\ up[j].id = m
  /\ call.op = "add" => \A i \in DOMAIN up : IsCommit(up[i]) /\ up[i].doc = call.doc =>
                           \E j \in (i + 1)..Len(up) : up[j].type = "add"

(* The head over which a commit was first refused is kept.                 *)
RefusedInv ==
  /\ refused \in [1..MaxOwn -> Nat] /\ Len(mine) <= MaxOwn
  /\ \A n \in 1..Top : ~Recorded(n) => refused[n] # 0 /\ refused[n] <= HeadSeq(mine[n].doc)
  /\ \A n \in 1..MaxOwn : n > Top => refused[n] = 0

(* What the client was told of a commit is what the space made of it.      *)
Told(n, ok, seq) == /\ n \in 1..Top
                    /\ ok => RecordedAs(n, seq)
                    /\ ~ok => ~Recorded(n)
AnswerInv ==
  /\ \A n \in DOMAIN mine : mine[n].at # "sent" => Told(n, mine[n].ok, mine[n].seq)
  /\ \A k \in DOMAIN down : down[k].type = "verdict" =>
       Told(down[k].id, down[k].ok, down[k].seq)
  /\ \A n \in DOMAIN mine : mine[n].at = "parked" => n > marker
  /\ \A n \in DOMAIN mine : mine[n].op = "set" =>
       \A m \in 1..(n - 1) : mine[m].doc = mine[n].doc =>
          /\ mine[m].at = "done"
          /\ mine[m].ok => mine[n].basis >= mine[m].seq

(* What the server has of the session: its markers, the origins, the cache.*)
MarkReached(n) == marker >= n \/ \E k \in DOMAIN down : MarkIn(down[k]) >= n
MarkInv ==
  /\ marker <= Top /\ \A k \in DOMAIN down : MarkIn(down[k]) <= Top
  /\ Live => \/ session.owed > session.caught /\ (due \/ Unserved \/ skipped)
             \/ session.owed <= session.caught /\ MarkReached(session.caught)
OwnSet(n, d, q) ==
  n \in DOMAIN mine /\ mine[n].op = "set" /\ mine[n].doc = d /\ RecordedAs(n, q)
OriginInv ==
  \A d \in Docs : /\ origin[d].op = "set" => \E n : OwnSet(n, d, origin[d].seq)
                  /\ pass.origin[d].op = "set" => \E n : OwnSet(n, d, pass.origin[d].seq)
Elided(d, q) == \E n : OwnSet(n, d, q) /\ (MarkReached(n) \/ due \/ Unserved \/ session.force)
CacheInv ==
  /\ \A d \in Docs : session.cached[d] \in Nothing..HeadSeq(d)
  /\ Live => \A d \in session.watches :
       /\ session.cached[d] > 0 => Reaches(held, down, d, End, session.cached[d])
                                   \/ Elided(d, session.cached[d])
       /\ session.cached[d] # HeadSeq(d) =>
            session.force \/ d \in dirty \/ (Unserved /\ d \in pass.docs)

(* The seq a replica has to hold before a commit is settled by a marker.   *)
FloorIs(n, f) == \/ mine[n].op = "patch" /\ RecordedAs(n, f)
                 \/ mine[n].op = "set" /\ ~Recorded(n) /\ f = refused[n]
Unsent(d) == session.force \/ (IF Unserved THEN d \in pass.docs ELSE d \in dirty)
PendInv ==
  Live => \A n \in 1..Top : mine[n].doc \in session.watches /\ mine[n].at # "done" =>
     \A f \in Nat : FloorIs(n, f) =>
        Reaches(held, down, mine[n].doc, End, f) \/ Unsent(mine[n].doc)

(* The frames after which the client counts on a document.                 *)
AddedIn(d, k) == call.op = "add" /\ call.doc = d /\ \E j \in 1..k : down[j].type = "added"
Point(d, k) == d \in wanted \/ AddedIn(d, k) \/ (Live /\ d \in session.watches /\ k = End)
MarkBy(k, n) == marker >= n \/ \E j \in 1..k : MarkIn(down[j]) >= n
FloorInv ==
  \A n \in DOMAIN mine : mine[n].at # "done" =>
    \A k \in 0..End : Point(mine[n].doc, k) /\ MarkBy(k, n) =>
       \A f \in Nat : FloorIs(n, f) => Reaches(held, down, mine[n].doc, k, f)
DoneInv ==
  \A n \in DOMAIN mine : mine[n].at = "done" /\ mine[n].ok =>
    \A k \in 0..End : Point(mine[n].doc, k) => Reaches(held, down, mine[n].doc, k, mine[n].seq)
AddedInv ==
  \A j \in DOMAIN down : down[j].type = "added" =>
    \/ \A i \in 1..j : ~Drops(down[i], call.doc)
    \/ \A i \in DOMAIN log : log[i].doc = call.doc /\ log[i].by # 0 =>
         Raises(down[j], call.doc, i + 1)
Sound(d) == held[d].value = Durable(held[d].seq)
Healed(d, k) == Sound(d) \/ \E j \in 1..k : Raises(down[j], d, held[d].seq) \/ Drops(down[j], d)
ValueInv ==
  /\ \A d \in Docs : \A k \in 0..End : Point(d, k) => Healed(d, k)
  /\ \A d \in Docs : delivered[d] = held[d].seq => Sound(d)
  /\ \A d \in Docs : delivered[d] <= held[d].seq /\ held[d].seq <= HeadSeq(d)
  /\ \A k \in DOMAIN down : \A d \in Docs : Raises(down[k], d, 0) =>
       down[k].ups[d] \in 1..HeadSeq(d)

DeliveryInv ==
  /\ Types /\ LinkInv /\ BatchInv /\ CallInv /\ WatchInv /\ LogInv /\ OrderInv /\ RefusedInv
  /\ AnswerInv /\ MarkInv /\ OriginInv /\ CacheInv /\ PendInv /\ FloorInv /\ DoneInv
  /\ AddedInv /\ ValueInv

(* Induction over the naturals, for a property given by its extension.     *)
LEMMA SetInduction ==
  ASSUME NEW T, 0 \in T, \A n \in Nat : n \in T => n + 1 \in T
  PROVE  \A n \in Nat : n \in T
<1> DEFINE F == {n \in Nat : n \notin T}
<1> DEFINE R == {ss \in Nat \X Nat : ss[1] < ss[2]}
<1>1. IsWellFoundedOn(R, Nat)
  BY NatLessThanWellFounded DEF OpToRel
<1>2. SUFFICES ASSUME F # {} PROVE FALSE
  OBVIOUS
<1>3. PICK x \in F : \A y \in F : ~(<<y, x>> \in R)
  <2>1. F \subseteq Nat
    OBVIOUS
  <2> HIDE DEF F, R
  <2> QED BY <1>1, <1>2, <2>1, WFMin
<1>4. x # 0 /\ x \in Nat
  OBVIOUS
<1>5. x - 1 \in Nat /\ <<x - 1, x>> \in R
  BY <1>4
<1>6. x - 1 \notin F
  BY <1>3, <1>5
<1> QED BY <1>4, <1>5, <1>6

(* Max of a nonempty set of positions is its greatest element.             *)
LEMMA MaxProperties ==
  ASSUME NEW n \in Nat
  PROVE  \A s \in SUBSET (1..n) : s # {} =>
           Max(s) \in s /\ \A y \in s : Max(s) >= y
<1> DEFINE Greatest(s) == \E x \in s : \A y \in s : x >= y
           T == {m \in Nat : \A s \in SUBSET (1..m) : s # {} => Greatest(s)}
<1>1. 0 \in T
  <2>1. \A s \in SUBSET (1..0) : s = {}
    OBVIOUS
  <2> QED BY <2>1
<1>2. ASSUME NEW m \in Nat, m \in T PROVE m + 1 \in T
  <2> SUFFICES ASSUME NEW s \in SUBSET (1..(m + 1)), s # {} PROVE Greatest(s)
    OBVIOUS
  <2>1. CASE m + 1 \in s
    <3>1. \A y \in s : m + 1 >= y
      OBVIOUS
    <3> QED BY <2>1, <3>1
  <2>2. CASE m + 1 \notin s
    <3>1. s \in SUBSET (1..m)
      BY <2>2
    <3> QED BY <1>2, <3>1
  <2> QED BY <2>1, <2>2
<1> HIDE DEF T
<1>3. \A m \in Nat : m \in T
  BY <1>1, <1>2, SetInduction
<1> QED BY <1>3 DEF T, Max

(* A set of positions that has the last one has it for its maximum.        *)
LEMMA MaxInterval ==
  ASSUME NEW n \in Nat, NEW s \in SUBSET (1..(n + 1)), n + 1 \in s
  PROVE  Max(s) = n + 1
<1>1. \A y \in s : n + 1 >= y
  OBVIOUS
<1>2. \A x \in s : (\A y \in s : x >= y) => x = n + 1
  OBVIOUS
<1> QED BY <1>1, <1>2 DEF Max

(* What remains of a sequence when its head is taken.                      *)
LEMMA TailFacts ==
  ASSUME NEW S, NEW s \in Seq(S), s # <<>>
  PROVE  /\ 1 \in DOMAIN s /\ Head(s) = s[1] /\ s[1] \in S
         /\ Tail(s) \in Seq(S)
         /\ \A i \in DOMAIN Tail(s) : /\ i \in Nat \ {0} /\ i + 1 \in DOMAIN s
                                      /\ Tail(s)[i] = s[i + 1]
         /\ \A i \in DOMAIN s : i \in Nat \ {0} /\ (i # 1 => i - 1 \in DOMAIN Tail(s))
OBVIOUS

(* A sequence with one element more.                                       *)
LEMMA AppendFacts ==
  ASSUME NEW S, NEW s \in Seq(S), NEW e \in S
  PROVE  /\ Append(s, e) \in Seq(S)
         /\ Len(s) + 1 \in DOMAIN Append(s, e) /\ Append(s, e)[Len(s) + 1] = e
         /\ \A i \in DOMAIN s : /\ i \in Nat \ {0} /\ i <= Len(s) /\ Len(s) \in Nat
                                /\ i \in DOMAIN Append(s, e) /\ Append(s, e)[i] = s[i]
         /\ \A i \in DOMAIN Append(s, e) : i \in DOMAIN s \/ i = Len(s) + 1
         /\ Append(s, e) # <<>>
         /\ s = <<>> => Len(s) + 1 = 1
OBVIOUS

(* A sequence continued by another.                                        *)
LEMMA ConcatFacts ==
  ASSUME NEW S, NEW s \in Seq(S), NEW t \in Seq(S)
  PROVE  /\ s \o t \in Seq(S)
         /\ \A i \in DOMAIN s : i \in DOMAIN (s \o t) /\ (s \o t)[i] = s[i]
         /\ \A i \in DOMAIN (s \o t) :
              \/ i \in DOMAIN s
              \/ i \notin DOMAIN s /\ i - Len(s) \in DOMAIN t /\ (s \o t)[i] = t[i - Len(s)]
OBVIOUS

(* Larger is the maximum of two numbers.                                   *)
LEMMA LargerFacts ==
  ASSUME NEW a \in Int, NEW b \in Int
  PROVE  /\ Larger(a, b) \in {a, b} /\ Larger(a, b) >= a /\ Larger(a, b) >= b
         /\ a >= b => Larger(a, b) = a
         /\ b >= a => Larger(a, b) = b
BY DEF Larger

(* The numbers and the domains that the types fix.                         *)
LEMMA TypeFacts ==
  ASSUME Types
  PROVE  /\ Len(log) \in Nat /\ DOMAIN log = 1..Len(log) /\ SpaceSeq \in Nat /\ SpaceSeq >= 1
         /\ Len(down) \in Nat /\ DOMAIN down = 1..Len(down) /\ End = Len(down)
         /\ Len(up) \in Nat /\ DOMAIN up = 1..Len(up)
         /\ Len(mine) \in Nat /\ DOMAIN mine = 1..Len(mine)
         /\ Top \in Nat /\ session.owed \in Nat /\ session.caught \in Nat /\ marker \in Nat
         /\ session.owed <= Top /\ session.caught <= Top
         /\ \A i \in DOMAIN log : log[i] \in Entry
         /\ \A k \in DOMAIN down : down[k] \in DownFrame
         /\ \A k \in DOMAIN up : up[k] \in UpFrame
         /\ \A n \in DOMAIN mine : mine[n] \in Own
<1>1. session.owed \in Nat /\ session.caught \in Nat
  BY DEF Types, State
<1>2. Top \in Nat /\ session.owed <= Top /\ session.caught <= Top
  BY <1>1 DEF Top, Larger
<1> QED BY <1>1, <1>2 DEF Types, SpaceSeq, End

(* The head of a document is the seq of its last row, or 1.                *)
LEMMA HeadFacts ==
  ASSUME Types, NEW d \in Docs
  PROVE  /\ HeadSeq(d) \in Nat /\ HeadSeq(d) >= 1 /\ HeadSeq(d) <= SpaceSeq
         /\ \A i \in DOMAIN log : log[i].doc = d => i + 1 <= HeadSeq(d)
         /\ HeadSeq(d) # 1 => HeadSeq(d) - 1 \in DOMAIN log /\ log[HeadSeq(d) - 1].doc = d
<1>1. /\ Len(log) \in Nat /\ DOMAIN log = 1..Len(log) /\ SpaceSeq = Len(log) + 1
  BY TypeFacts DEF SpaceSeq
<1>2. Writes(d) \in SUBSET (1..Len(log)) /\ Writes(d) = {i \in DOMAIN log : log[i].doc = d}
  BY <1>1 DEF Writes
<1>3. CASE Writes(d) = {}
  BY <1>1, <1>2, <1>3 DEF HeadSeq
<1>4. CASE Writes(d) # {}
  <2>1. Max(Writes(d)) \in Writes(d) /\ \A y \in Writes(d) : Max(Writes(d)) >= y
    BY <1>1, <1>2, <1>4, MaxProperties
  <2>2. PICK m \in Writes(d) : m = Max(Writes(d))
    BY <2>1
  <2>5. m \in Nat /\ m \in DOMAIN log /\ log[m].doc = d
    BY <1>1, <1>2, <2>2
  <2>3. HeadSeq(d) = m + 1
    BY <1>4, <2>2 DEF HeadSeq
  <2>4. \A i \in DOMAIN log : log[i].doc = d => i \in Writes(d) /\ i <= m
    BY <1>1, <1>2, <2>1, <2>2, <2>5
  <2> QED BY <1>1, <2>5, <2>3, <2>4
<1> QED BY <1>3, <1>4

(* A row moves the head of its own document, and no other.                 *)
LEMMA HeadGrows ==
  ASSUME Types, NEW e \in Entry, log' = Append(log, e), NEW d \in Docs
  PROVE  HeadSeq(d)' = IF e.doc = d THEN SpaceSeq + 1 ELSE HeadSeq(d)
<1>1. /\ Len(log) \in Nat /\ DOMAIN log = 1..Len(log) /\ SpaceSeq = Len(log) + 1
      /\ log \in Seq(Entry)
  BY TypeFacts DEF SpaceSeq, Types
<1>2. /\ DOMAIN log' = 1..(Len(log) + 1) /\ log'[Len(log) + 1] = e
      /\ \A i \in 1..Len(log) : log'[i] = log[i]
  BY <1>1
<1>3. /\ Writes(d) \in SUBSET (1..Len(log))
      /\ Writes(d)' = IF e.doc = d THEN Writes(d) \union {Len(log) + 1} ELSE Writes(d)
  BY <1>1, <1>2 DEF Writes
<1>4. CASE e.doc = d
  <2>1. Max(Writes(d)') = Len(log) + 1
    <3> DEFINE W == Writes(d)'
    <3>1. W \in SUBSET (1..(Len(log) + 1)) /\ Len(log) + 1 \in W
      BY <1>1, <1>3, <1>4
    <3> HIDE DEF W
    <3>2. Max(W) = Len(log) + 1
      BY <1>1, <3>1, MaxInterval
    <3> QED BY <3>2 DEF W
  <2>2. HeadSeq(d)' = Max(Writes(d)') + 1
    BY <1>3, <1>4 DEF HeadSeq
  <2> QED BY <1>1, <1>4, <2>1, <2>2
<1>5. CASE e.doc # d
  BY <1>3, <1>5 DEF HeadSeq
<1> QED BY <1>4, <1>5

(* The log only grows: what a step keeps of it.                            *)
Grown ==
  /\ log' \in Seq(Entry) /\ SpaceSeq <= SpaceSeq'
  /\ \A d \in Docs : HeadSeq(d) <= HeadSeq(d)'
  /\ \A s \in Nat : s <= SpaceSeq => Durable(s)' = Durable(s)
  /\ \A n, s \in Nat : RecordedAs(n, s) => RecordedAs(n, s)'
OldRecord(n) ==
  (\A s \in Nat : RecordedAs(n, s)' <=> RecordedAs(n, s)) /\ (Recorded(n)' <=> Recorded(n))

(* Nothing of the log changes when no row is added.                        *)
LEMMA SameLog ==
  ASSUME Types, log' = log
  PROVE  /\ Grown /\ (\A n \in Nat : OldRecord(n))
         /\ (\A d \in Docs : HeadSeq(d)' = HeadSeq(d)) /\ SpaceSeq' = SpaceSeq
<1>1. \A d \in Docs : HeadSeq(d)' = HeadSeq(d) /\ HeadSeq(d) \in Nat
  BY HeadFacts DEF HeadSeq, Writes
<1>2. SpaceSeq' = SpaceSeq /\ SpaceSeq \in Nat /\ log' \in Seq(Entry)
  BY TypeFacts DEF SpaceSeq, Types
<1> QED BY <1>1, <1>2 DEF Grown, Durable, RecordedAs, Recorded, OldRecord

(* A row added leaves the others, and what they are the record of.         *)
LEMMA LogGrows ==
  ASSUME Types, NEW e \in Entry, log' = Append(log, e)
  PROVE  /\ Grown /\ SpaceSeq' = SpaceSeq + 1
         /\ \A n \in Nat : n # e.by => OldRecord(n)
         /\ \A s \in Nat : RecordedAs(e.by, s)' <=> RecordedAs(e.by, s) \/ s = SpaceSeq + 1
         /\ Recorded(e.by)'
         /\ \A i \in DOMAIN log : i \in DOMAIN log' /\ log'[i] = log[i]
         /\ \A i \in DOMAIN log' : i \in DOMAIN log \/ (i = SpaceSeq /\ log'[i] = e)
<1>1. /\ Len(log) \in Nat /\ DOMAIN log = 1..Len(log) /\ SpaceSeq = Len(log) + 1
      /\ log \in Seq(Entry)
  BY TypeFacts DEF SpaceSeq, Types
<1>2. /\ log' \in Seq(Entry) /\ DOMAIN log' = 1..(Len(log) + 1) /\ log'[Len(log) + 1] = e
      /\ Len(log') = Len(log) + 1
      /\ \A i \in 1..Len(log) : log'[i] = log[i]
  BY <1>1
<1>3. SpaceSeq' = SpaceSeq + 1
  BY <1>1, <1>2 DEF SpaceSeq
<1>4. \A d \in Docs : HeadSeq(d) <= HeadSeq(d)'
  <2> TAKE d \in Docs
  <2>1. HeadSeq(d) \in Nat /\ HeadSeq(d) <= SpaceSeq
    BY HeadFacts
  <2> QED BY <1>1, <2>1, HeadGrows
<1>5. \A s \in Nat : s <= SpaceSeq => Durable(s)' = Durable(s)
  BY <1>1, <1>2 DEF Durable
<1>6. \A n, s \in Nat : RecordedAs(n, s)' <=> RecordedAs(n, s) \/ (n = e.by /\ s = SpaceSeq + 1)
  BY <1>1, <1>2 DEF RecordedAs
<1>7. \A n \in Nat : Recorded(n)' <=> Recorded(n) \/ n = e.by
  <2>1. ASSUME NEW n \in Nat, Recorded(n) PROVE Recorded(n)'
    BY <1>1, <1>2, <2>1 DEF Recorded
  <2>2. ASSUME NEW n \in Nat, n = e.by PROVE Recorded(n)'
    BY <1>1, <1>2, <2>2 DEF Recorded
  <2>3. ASSUME NEW n \in Nat, Recorded(n)', n # e.by PROVE Recorded(n)
    BY <1>1, <1>2, <2>3 DEF Recorded
  <2> QED BY <2>1, <2>2, <2>3
<1>8. e.by \in Nat
  BY DEF Entry
<1>9. Grown
  BY <1>1, <1>2, <1>3, <1>4, <1>5, <1>6 DEF Grown
<1>10. \A n \in Nat : n # e.by => OldRecord(n)
  BY <1>6, <1>7 DEF OldRecord
<1> QED BY <1>1, <1>2, <1>3, <1>6, <1>7, <1>8, <1>9, <1>10

(* A commit is recorded once, at a seq its document has reached.           *)
LEMMA RecordFacts ==
  ASSUME Types, LogInv, NEW n \in Nat \ {0}
  PROVE  /\ \A s, t \in Nat : RecordedAs(n, s) /\ RecordedAs(n, t) => s = t
         /\ Recorded(n) <=> \E s \in Nat : RecordedAs(n, s)
         /\ \A s \in Nat : RecordedAs(n, s) =>
              /\ n \in DOMAIN mine /\ n <= Top /\ s >= 2 /\ s <= SpaceSeq
              /\ s <= HeadSeq(mine[n].doc)
              /\ mine[n].op = "set" => Durable(s) = {s}
<1>1. /\ Len(log) \in Nat /\ DOMAIN log = 1..Len(log) /\ SpaceSeq = Len(log) + 1
      /\ \A i \in DOMAIN log : log[i] \in Entry
  BY TypeFacts DEF SpaceSeq
<1>2. \A s, t \in Nat : RecordedAs(n, s) /\ RecordedAs(n, t) => s = t
  <2> SUFFICES ASSUME NEW s \in Nat, NEW t \in Nat, RecordedAs(n, s), RecordedAs(n, t), s < t
               PROVE FALSE
    OBVIOUS
  <2> QED BY <1>1 DEF RecordedAs, LogInv
<1>3. Recorded(n) <=> \E s \in Nat : RecordedAs(n, s)
  <2>1. ASSUME NEW i \in DOMAIN log, log[i].by = n PROVE i + 1 \in Nat /\ RecordedAs(n, i + 1)
    BY <1>1, <2>1 DEF RecordedAs
  <2> QED BY <2>1 DEF Recorded, RecordedAs
<1>4. ASSUME NEW s \in Nat, RecordedAs(n, s)
      PROVE  /\ n \in DOMAIN mine /\ n <= Top /\ s >= 2 /\ s <= SpaceSeq
             /\ s <= HeadSeq(mine[n].doc)
             /\ mine[n].op = "set" => Durable(s) = {s}
  <2>1. s - 1 \in DOMAIN log /\ log[s - 1].by = n /\ log[s - 1] \in Entry
    BY <1>1, <1>4 DEF RecordedAs
  <2>2. /\ n \in DOMAIN mine /\ n <= Top /\ log[s - 1].doc = mine[n].doc
        /\ mine[n].op = "set" => log[s - 1].value = {(s - 1) + 1}
    BY <2>1 DEF LogInv
  <2>3. mine[n].doc \in Docs
    BY <2>1, <2>2 DEF Entry
  <2>4. (s - 1) + 1 <= HeadSeq(mine[n].doc)
    BY <2>1, <2>2, <2>3, HeadFacts
  <2>5. s >= 2 /\ s <= SpaceSeq /\ (s - 1) + 1 = s
    BY <1>1, <2>1
  <2>6. mine[n].op = "set" => Durable(s) = {s}
    BY <2>2, <2>5 DEF Durable
  <2> QED BY <2>2, <2>4, <2>5, <2>6
<1> QED BY <1>2, <1>3, <1>4

(* A frame that brings a seq brings all those below it.                    *)
LEMMA FrameFacts ==
  ASSUME NEW f \in DownFrame, NEW d
  PROVE  /\ \A s \in Nat : Raises(f, d, s) => f.ups[d] \in Nat /\ f.ups[d] >= s /\ Raises(f, d, 0)
         /\ \A s, t \in Nat : Raises(f, d, t) /\ s <= t => Raises(f, d, s)
         /\ MarkIn(f) \in Nat
<1>1. CASE f \in Verdicts
  BY <1>1 DEF Verdicts, Raises, MarkIn
<1>2. CASE f \in Syncs
  <2>1. f.type # "verdict" /\ f.marker \in Nat
        /\ f.ups \in UNION {[D -> Nat] : D \in SUBSET Docs}
    BY <1>2 DEF Syncs
  <2>2. PICK D \in SUBSET Docs : f.ups \in [D -> Nat]
    BY <2>1
  <2>3. \A x \in DOMAIN f.ups : f.ups[x] \in Nat
    BY <2>2
  <2> QED BY <2>1, <2>3 DEF Raises, MarkIn
<1> QED BY <1>1, <1>2 DEF DownFrame

(* Who reaches a seq reaches the seqs below it.                            *)
LEMMA ReachWeaker ==
  ASSUME NEW h \in [Docs -> Record], NEW dn \in Seq(DownFrame), NEW d \in Docs,
         NEW k \in 0..Len(dn), NEW s \in Nat, NEW t \in Nat, s <= t, Reaches(h, dn, d, k, t)
  PROVE  Reaches(h, dn, d, k, s)
<1>1. CASE h[d].seq >= t /\ \A j \in 1..k : ~Drops(dn[j], d)
  <2>1. h[d].seq \in Nat
    BY DEF Record
  <2> QED BY <1>1, <2>1 DEF Reaches
<1>2. CASE \E j \in 1..k : Raises(dn[j], d, t) /\ \A i \in (j + 1)..k : ~Drops(dn[i], d)
  <2>1. PICK j \in 1..k : Raises(dn[j], d, t) /\ \A i \in (j + 1)..k : ~Drops(dn[i], d)
    BY <1>2
  <2>2. dn[j] \in DownFrame
    BY <2>1
  <2>3. Raises(dn[j], d, s)
    BY <2>1, <2>2, FrameFacts
  <2> QED BY <2>1, <2>3 DEF Reaches
<1> QED BY <1>1, <1>2 DEF Reaches

(* Frames that drop nothing take nothing away.                             *)
LEMMA ReachFurther ==
  ASSUME NEW h, NEW dn \in Seq(DownFrame), NEW d,
         NEW k \in Nat, NEW m \in Nat, k <= m,
         NEW s, Reaches(h, dn, d, k, s), \A j \in (k + 1)..m : ~Drops(dn[j], d)
  PROVE  Reaches(h, dn, d, m, s)
<1>1. CASE h[d].seq >= s /\ \A j \in 1..k : ~Drops(dn[j], d)
  <2>1. \A j \in 1..m : j \in 1..k \/ j \in (k + 1)..m
    OBVIOUS
  <2> QED BY <1>1, <2>1 DEF Reaches
<1>2. CASE \E j \in 1..k : Raises(dn[j], d, s) /\ \A i \in (j + 1)..k : ~Drops(dn[i], d)
  <2>1. PICK j \in 1..k : Raises(dn[j], d, s) /\ \A i \in (j + 1)..k : ~Drops(dn[i], d)
    BY <1>2
  <2>2. j \in 1..m /\ \A i \in (j + 1)..m : i \in (j + 1)..k \/ i \in (k + 1)..m
    BY <2>1
  <2> QED BY <2>1, <2>2 DEF Reaches
<1> QED BY <1>1, <1>2 DEF Reaches

(* Reaches looks at the one document and at the frames up to k.            *)
LEMMA ReachSame ==
  ASSUME NEW h, NEW g, NEW dn, NEW en, NEW d, NEW k \in Nat, NEW s,
         g[d].seq >= s \/ g[d] = h[d], \A j \in 1..k : en[j] = dn[j],
         Reaches(h, dn, d, k, s)
  PROVE  Reaches(g, en, d, k, s)
<1>1. CASE h[d].seq >= s /\ \A j \in 1..k : ~Drops(dn[j], d)
  <2>1. g[d].seq >= s /\ \A j \in 1..k : ~Drops(en[j], d)
    BY <1>1
  <2> QED BY <2>1 DEF Reaches
<1>2. CASE \E j \in 1..k : Raises(dn[j], d, s) /\ \A i \in (j + 1)..k : ~Drops(dn[i], d)
  <2>1. PICK j \in 1..k : Raises(dn[j], d, s) /\ \A i \in (j + 1)..k : ~Drops(dn[i], d)
    BY <1>2
  <2>2. Raises(en[j], d, s) /\ \A i \in (j + 1)..k : i \in 1..k /\ ~Drops(en[i], d)
    BY <2>1
  <2> QED BY <2>1, <2>2 DEF Reaches
<1> QED BY <1>1, <1>2 DEF Reaches

(* A replica that holds more reaches as much.                              *)
LEMMA ReachHigher ==
  ASSUME NEW h \in [Docs -> Record], NEW g \in [Docs -> Record], NEW dn, NEW d \in Docs, NEW k \in Nat, NEW s \in Nat,
         g[d].seq >= h[d].seq, Reaches(h, dn, d, k, s)
  PROVE  Reaches(g, dn, d, k, s)
<1>1. g[d].seq \in Nat /\ h[d].seq \in Nat
  BY DEF Record
<1>2. h[d].seq >= s => g[d].seq >= s
  BY <1>1
<1> QED BY <1>2 DEF Reaches

(* A frame is sent.                                                        *)
LEMMA ReachSent ==
  ASSUME NEW h, NEW dn \in Seq(DownFrame), NEW f \in DownFrame, NEW d, NEW s
  PROVE  /\ \A k \in 0..Len(dn) : Reaches(h, Append(dn, f), d, k, s) <=> Reaches(h, dn, d, k, s)
         /\ Raises(f, d, s) => Reaches(h, Append(dn, f), d, Len(dn) + 1, s)
         /\ ~Drops(f, d) /\ Reaches(h, dn, d, Len(dn), s) =>
              Reaches(h, Append(dn, f), d, Len(dn) + 1, s)
<1> DEFINE en == Append(dn, f)
<1>1. /\ Len(dn) \in Nat /\ en \in Seq(DownFrame) /\ en[Len(dn) + 1] = f /\ Len(en) = Len(dn) + 1
      /\ \A j \in 1..Len(dn) : en[j] = dn[j]
  OBVIOUS
<1> HIDE DEF en
<1>2. ASSUME NEW k \in 0..Len(dn) PROVE Reaches(h, en, d, k, s) <=> Reaches(h, dn, d, k, s)
  <2>1. k \in Nat /\ \A j \in 1..k : en[j] = dn[j] /\ dn[j] = en[j]
    BY <1>1
  <2> QED BY <2>1, ReachSame
<1>3. ASSUME Raises(f, d, s) PROVE Reaches(h, en, d, Len(dn) + 1, s)
  <2>1. Len(dn) + 1 \in 1..(Len(dn) + 1) /\ \A i \in ((Len(dn) + 1) + 1)..(Len(dn) + 1) : FALSE
    BY <1>1
  <2> QED BY <1>1, <1>3, <2>1 DEF Reaches
<1>4. ASSUME ~Drops(f, d), Reaches(h, dn, d, Len(dn), s) PROVE Reaches(h, en, d, Len(dn) + 1, s)
  <2>1. Reaches(h, en, d, Len(dn), s)
    BY <1>1, <1>2, <1>4
  <2>2. \A j \in (Len(dn) + 1)..(Len(dn) + 1) : ~Drops(en[j], d)
    BY <1>1, <1>4
  <2> QED BY <1>1, <2>1, <2>2, ReachFurther
<1> QED BY <1>2, <1>3, <1>4 DEF en

(* A frame is absorbed.                                                    *)
LEMMA ReachAbsorbed ==
  ASSUME NEW h \in [Docs -> Record], NEW g \in [Docs -> Record],
         NEW dn \in Seq(DownFrame), dn # <<>>, NEW d \in Docs, NEW k \in 0..(Len(dn) - 1), NEW s \in Nat,
         ~Drops(dn[1], d) => g[d].seq >= h[d].seq,
         Raises(dn[1], d, s) => g[d].seq >= s,
         Reaches(h, dn, d, k + 1, s)
  PROVE  Reaches(g, Tail(dn), d, k, s)
<1> DEFINE en == Tail(dn)
<1>1. /\ Len(dn) \in Nat /\ Len(dn) >= 1 /\ k \in Nat
      /\ \A j \in 1..k : en[j] = dn[j + 1] /\ j + 1 \in 1..(k + 1)
  OBVIOUS
<1>2. g[d].seq \in Nat /\ h[d].seq \in Nat
  BY DEF Record
<1> HIDE DEF en
<1>3. ASSUME h[d].seq >= s /\ \A j \in 1..(k + 1) : ~Drops(dn[j], d)
      PROVE  Reaches(g, en, d, k, s)
  <2>1. 1 \in 1..(k + 1) /\ g[d].seq >= s
    BY <1>1, <1>2, <1>3
  <2>2. \A j \in 1..k : ~Drops(en[j], d)
    BY <1>1, <1>3
  <2> QED BY <2>1, <2>2 DEF Reaches
<1>4. ASSUME \E j \in 1..(k + 1) : Raises(dn[j], d, s) /\ \A i \in (j + 1)..(k + 1) : ~Drops(dn[i], d)
      PROVE  Reaches(g, en, d, k, s)
  <2>1. PICK j \in 1..(k + 1) : Raises(dn[j], d, s) /\ \A i \in (j + 1)..(k + 1) :
          ~Drops(dn[i], d)
    BY <1>4
  <2>2. CASE j = 1
    <3>1. g[d].seq >= s
      BY <2>1, <2>2
    <3>2. \A i \in 1..k : i + 1 \in (j + 1)..(k + 1)
      BY <1>1, <2>2
    <3>3. \A i \in 1..k : ~Drops(en[i], d)
      BY <1>1, <2>1, <3>2
    <3> QED BY <3>1, <3>3 DEF Reaches
  <2>3. CASE j # 1
    <3>1. j - 1 \in 1..k /\ (j - 1) + 1 = j
      BY <1>1, <2>1, <2>3
    <3>2. Raises(en[j - 1], d, s)
      BY <1>1, <2>1, <3>1
    <3>3. \A i \in ((j - 1) + 1)..k : i \in 1..k /\ i + 1 \in (j + 1)..(k + 1)
      BY <1>1, <2>1, <3>1
    <3>4. \A i \in ((j - 1) + 1)..k : ~Drops(en[i], d)
      BY <1>1, <2>1, <3>3
    <3> QED BY <3>1, <3>2, <3>4 DEF Reaches
  <2> QED BY <2>2, <2>3
<1>5. Reaches(g, en, d, k, s)
  BY <1>3, <1>4 DEF Reaches
<1> QED BY <1>5 DEF en

(* Finitely many numbers have a bound, by SetInduction.                    *)
LEMMA Bounded ==
  ASSUME NEW n \in Nat, NEW f, \A x \in 1..n : f[x] \in Nat
  PROVE  \E b \in Nat : \A x \in 1..n : f[x] <= b
<1> DEFINE T == {m \in Nat : m <= n => \E b \in Nat : \A x \in 1..m : f[x] <= b}
<1>1. 0 \in T
  OBVIOUS
<1>2. ASSUME NEW m \in Nat, m \in T PROVE m + 1 \in T
  <2> SUFFICES ASSUME m + 1 <= n PROVE \E b \in Nat : \A x \in 1..(m + 1) : f[x] <= b
    OBVIOUS
  <2>1. PICK b \in Nat : \A x \in 1..m : f[x] <= b
    BY <1>2
  <2>2. f[m + 1] \in Nat /\ b + f[m + 1] \in Nat
    OBVIOUS
  <2>3. \A x \in 1..(m + 1) : f[x] <= b + f[m + 1]
    BY <2>1, <2>2
  <2> QED BY <2>2, <2>3
<1> HIDE DEF T
<1>3. \A m \in Nat : m \in T
  BY <1>1, <1>2, SetInduction
<1>4. n \in T
  BY <1>3
<1> QED BY <1>4 DEF T

(* What is laid over a record has the seq of the latest commit, and its    *)
(* value alone when that commit is a set: in seq order no patch is above   *)
(* it.                                                                     *)
LEMMA OverlaidFacts ==
  ASSUME NEW r \in Record, NEW cs \in Seq(Own), NEW ns \in SUBSET DOMAIN cs,
         \A n \in ns : r.seq < cs[n].seq, ns # {}
  PROVE  /\ Overlaid(r, cs, ns) \in Record
         /\ \E n \in ns : /\ Overlaid(r, cs, ns).seq = cs[n].seq
                          /\ \A m \in ns : cs[m].seq <= cs[n].seq
                          /\ /\ cs[n].op = "set"
                             /\ \A i, j \in ns : i < j => cs[i].seq < cs[j].seq
                             => Overlaid(r, cs, ns).value = {cs[n].seq}
<1>1. /\ Len(cs) \in Nat /\ DOMAIN cs = 1..Len(cs) /\ \A n \in DOMAIN cs : cs[n] \in Own
  OBVIOUS
<1>2. \A n \in DOMAIN cs : cs[n].seq \in Nat
  BY <1>1 DEF Own
<1>3. r.seq \in Nat /\ r.value \in SUBSET Nat
  BY DEF Record
<1> DEFINE f == [n \in DOMAIN cs |-> cs[n].seq]
<1>4. PICK b \in Nat : \A x \in 1..Len(cs) : f[x] <= b
  <2>1. \A x \in 1..Len(cs) : f[x] \in Nat
    BY <1>1, <1>2
  <2> HIDE DEF f
  <2> QED BY <1>1, <2>1, Bounded
<1> DEFINE S == {cs[n].seq : n \in ns}
<1>5. S \in SUBSET (1..b) /\ S # {}
  <2>1. ASSUME NEW n \in ns PROVE cs[n].seq \in 1..b
    BY <1>1, <1>2, <1>3, <1>4
  <2> QED BY <2>1
<1>6. Max(S) \in S /\ \A y \in S : Max(S) >= y
  <2> HIDE DEF S
  <2> QED BY <1>4, <1>5, MaxProperties
<1>7. PICK n \in ns : Max(S) = cs[n].seq
  BY <1>6
<1>8. \A m \in ns : cs[m].seq <= cs[n].seq
  BY <1>2, <1>6, <1>7
<1> DEFINE v == {cs[m].seq : m \in Latest(cs, ns)}
                \union IF \E m \in ns : cs[m].op = "set" THEN {} ELSE r.value
<1>9. Overlaid(r, cs, ns) = [seq |-> Max(S), value |-> v]
  BY DEF Overlaid
<1>10. Latest(cs, ns) \subseteq ns
  BY DEF Latest
<1>11. v \in SUBSET Nat
  BY <1>2, <1>3, <1>10
<1>12. Overlaid(r, cs, ns) \in Record
  <2> HIDE DEF v, S
  <2> QED BY <1>2, <1>7, <1>9, <1>11 DEF Record
<1>13. ASSUME cs[n].op = "set", \A i, j \in ns : i < j => cs[i].seq < cs[j].seq
       PROVE  v = {cs[n].seq}
  <2>1. \A m \in ns : m \in Nat /\ n \in Nat
    BY <1>1
  <2>2. \A m \in Latest(cs, ns) : n <= m
    BY <1>13 DEF Latest
  <2>3. \A m \in Latest(cs, ns) : m = n
    BY <1>2, <1>8, <1>10, <1>13, <2>1, <2>2
  <2>4. n \in Latest(cs, ns)
    <3>1. \A m \in ns : m <= n
      BY <1>2, <1>8, <1>13, <2>1
    <3> QED BY <3>1 DEF Latest
  <2>5. {cs[m].seq : m \in Latest(cs, ns)} = {cs[n].seq}
    BY <2>3, <2>4
  <2> QED BY <1>13, <2>5
<1>14. Overlaid(r, cs, ns).seq = cs[n].seq /\ Overlaid(r, cs, ns).value = v
  <2> HIDE DEF v, S
  <2> QED BY <1>7, <1>9
<1> HIDE DEF v, S, f
<1> QED BY <1>7, <1>8, <1>12, <1>13, <1>14

(* The promotion of own commits over what a replica holds.                 *)
LEMMA PromotedFacts ==
  ASSUME NEW h \in [Docs -> Record], NEW cs \in Seq(Own), NEW ns \in SUBSET DOMAIN cs
  PROVE  /\ Promoted(h, cs, ns) \in [Docs -> Record]
         /\ \A d \in Docs :
              /\ Promoted(h, cs, ns)[d].seq >= h[d].seq
              /\ \A n \in ns : cs[n].doc = d => Promoted(h, cs, ns)[d].seq >= cs[n].seq
              /\ \/ Promoted(h, cs, ns)[d] = h[d]
                 \/ \E n \in ns :
                      /\ cs[n].doc = d /\ h[d].seq < cs[n].seq
                      /\ Promoted(h, cs, ns)[d].seq = cs[n].seq
                      /\ /\ cs[n].op = "set"
                         /\ \A i, j \in ns : i < j => cs[i].seq < cs[j].seq
                         => Promoted(h, cs, ns)[d].value = {cs[n].seq}
<1>1. /\ \A n \in DOMAIN cs : cs[n] \in Own
      /\ \A d \in Docs : h[d] \in Record
  OBVIOUS
<1>2. /\ \A n \in DOMAIN cs : cs[n].seq \in Nat
      /\ \A d \in Docs : h[d].seq \in Nat
  BY <1>1 DEF Own, Record
<1> DEFINE P == Promoted(h, cs, ns)
<1>3. ASSUME NEW d \in Docs
      PROVE  /\ P[d] \in Record
             /\ P[d].seq >= h[d].seq
             /\ \A n \in ns : cs[n].doc = d => P[d].seq >= cs[n].seq
             /\ \/ P[d] = h[d]
                \/ \E n \in ns :
                     /\ cs[n].doc = d /\ h[d].seq < cs[n].seq
                     /\ P[d].seq = cs[n].seq
                     /\ /\ cs[n].op = "set"
                        /\ \A i, j \in ns : i < j => cs[i].seq < cs[j].seq
                        => P[d].value = {cs[n].seq}
  <2> DEFINE L == {n \in ns : cs[n].doc = d /\ h[d].seq < cs[n].seq}
  <2>1. P[d] = Overlaid(h[d], cs, L)
    BY DEF Promoted
  <2> HIDE DEF P
  <2>2. CASE L = {}
    <3>1. P[d] = h[d]
      BY <2>1, <2>2 DEF Overlaid
    <3>2. \A n \in ns : cs[n].doc = d => ~(h[d].seq < cs[n].seq) /\ cs[n].seq \in Nat
      BY <1>2, <2>2
    <3> HIDE DEF L
    <3> QED BY <1>1, <1>2, <3>1, <3>2
  <2>3. CASE L # {}
    <3>1. L \in SUBSET DOMAIN cs /\ \A n \in L : h[d].seq < cs[n].seq
      OBVIOUS
    <3>2. \A n \in L : n \in ns /\ cs[n].doc = d /\ h[d].seq < cs[n].seq
      OBVIOUS
    <3>3. \A n \in ns : cs[n].doc = d => n \in L \/ cs[n].seq <= h[d].seq
      BY <1>2
    <3> HIDE DEF L
    <3>4. P[d] \in Record
      BY <1>1, <2>1, <2>3, <3>1, OverlaidFacts
    <3>5. PICK n \in L : /\ P[d].seq = cs[n].seq
                         /\ \A m \in L : cs[m].seq <= cs[n].seq
                         /\ /\ cs[n].op = "set"
                            /\ \A i, j \in L : i < j => cs[i].seq < cs[j].seq
                            => P[d].value = {cs[n].seq}
      BY <1>1, <2>1, <2>3, <3>1, OverlaidFacts
    <3>6. n \in ns /\ cs[n].doc = d /\ h[d].seq < cs[n].seq
      BY <3>2
    <3>7. (\A i, j \in ns : i < j => cs[i].seq < cs[j].seq)
            => \A i, j \in L : i < j => cs[i].seq < cs[j].seq
      BY <3>2
    <3>8. P[d].seq >= h[d].seq /\ \A m \in ns : cs[m].doc = d => P[d].seq >= cs[m].seq
      BY <1>2, <3>3, <3>5, <3>6
    <3> QED BY <3>4, <3>5, <3>6, <3>7, <3>8
  <2> QED BY <2>2, <2>3
<1>4. P \in [Docs -> Record]
  <2>1. P = [d \in Docs |-> P[d]]
    BY DEF Promoted
  <2> HIDE DEF P
  <2> QED BY <1>3, <2>1
<1> QED BY <1>3, <1>4

(* The outstanding commits, in their order.                                *)
LEMMA OutstandingFacts ==
  ASSUME Types
  PROVE  /\ Outstanding \in Seq(DOMAIN mine)
         /\ \A i \in DOMAIN Outstanding : mine[Outstanding[i]].at = "sent"
         /\ \A i, j \in DOMAIN Outstanding : i < j => Outstanding[i] < Outstanding[j]
         /\ \A n \in DOMAIN mine : mine[n].at = "sent" => \E i \in DOMAIN Outstanding :
              Outstanding[i] = n
<1> DEFINE U == Unanswered
           N == Cardinality(U)
           C(n) == {m \in U : m <= n}
           r == [n \in U |-> Cardinality(C(n))]
<1>1. Len(mine) \in Nat /\ DOMAIN mine = 1..Len(mine)
  BY TypeFacts
<1>2. U \in SUBSET (1..Len(mine)) /\ \A n \in U : mine[n].at = "sent"
  BY <1>1 DEF Unanswered
<1>3. \A n \in DOMAIN mine : mine[n].at = "sent" => n \in U
  BY DEF Unanswered
<1> HIDE DEF U
<1>16. \A n \in U : n \in Nat
  BY <1>1, <1>2
<1>4. IsFiniteSet(U) /\ N \in Nat
  <2>1. IsFiniteSet(1..Len(mine))
    BY <1>1, FS_Interval
  <2>2. IsFiniteSet(U)
    BY <1>2, <2>1, FS_Subset
  <2> QED BY <2>2, FS_CardinalityType
<1>5. ASSUME NEW n \in U
      PROVE  IsFiniteSet(C(n)) /\ Cardinality(C(n)) \in 1..N
  <2>1. C(n) \in SUBSET U /\ n \in C(n)
    BY <1>2
  <2> HIDE DEF C
  <2>2. IsFiniteSet(C(n)) /\ Cardinality(C(n)) <= N /\ Cardinality(C(n)) \in Nat
    BY <1>4, <2>1, FS_Subset, FS_CardinalityType
  <2>3. Cardinality(C(n)) # 0
    BY <2>1, <2>2, FS_EmptySet
  <2> QED BY <1>4, <2>2, <2>3
<1>6. ASSUME NEW m \in U, NEW n \in U, m < n PROVE Cardinality(C(m)) < Cardinality(C(n))
  <2>1. C(m) \in SUBSET C(n) /\ n \in C(n) /\ n \notin C(m)
    BY <1>16, <1>6
  <2> HIDE DEF C
  <2>2. Cardinality(C(m)) <= Cardinality(C(n)) /\ Cardinality(C(m)) # Cardinality(C(n))
    BY <1>5, <2>1, FS_Subset
  <2> QED BY <1>5, <2>2
<1> HIDE DEF C
<1>7. r \in Injection(U, 1..N)
  <2>1. r \in [U -> 1..N]
    BY <1>5
  <2>2. \A m, n \in U : r[m] = r[n] => m = n
    <3> SUFFICES ASSUME NEW m \in U, NEW n \in U, m # n PROVE r[m] # r[n]
      OBVIOUS
    <3>1. m < n \/ n < m
      BY <1>2
    <3> QED BY <1>5, <1>6, <3>1
  <2> HIDE DEF r, N
  <2> QED BY <2>1, <2>2 DEF Injection, IsInjective
<1>8. r \in Surjection(U, 1..N)
  <2>1. IsFiniteSet(1..N) /\ Cardinality(1..N) = N
    BY <1>4, FS_Interval
  <2> HIDE DEF r
  <2> QED BY <1>7, <2>1, FS_Injection
<1>9. \A i \in 1..N : \E n \in U : r[n] = i
  <2> HIDE DEF r, N
  <2> QED BY <1>8 DEF Surjection
<1> DEFINE O == Outstanding
<1>10. O = [i \in 1..N |-> CHOOSE n \in U : Cardinality(C(n)) = i]
  BY DEF Outstanding, U, C
<1>11. ASSUME NEW i \in 1..N PROVE O[i] \in U /\ Cardinality(C(O[i])) = i
  <2>1. \E n \in U : Cardinality(C(n)) = i
    BY <1>9
  <2> HIDE DEF r, N, O
  <2> QED BY <1>10, <2>1
<1> HIDE DEF r, O
<1>12. O \in Seq(U) /\ DOMAIN O = 1..N
  <2>1. \A i \in 1..N : O[i] \in U
    BY <1>11
  <2>2. O \in [1..N -> U]
    BY <1>10, <2>1
  <2> HIDE DEF N
  <2> QED BY <1>4, <2>2
<1>13. \A i, j \in DOMAIN O : i < j => O[i] < O[j]
  <2> SUFFICES ASSUME NEW i \in 1..N, NEW j \in 1..N, i < j, ~(O[i] < O[j]) PROVE FALSE
    BY <1>12
  <2>1. O[i] \in U /\ O[j] \in U /\ Cardinality(C(O[i])) = i /\ Cardinality(C(O[j])) = j
    BY <1>11
  <2>2. O[j] = O[i] \/ O[j] < O[i]
    BY <1>16, <2>1
  <2>3. O[j] < O[i] => Cardinality(C(O[j])) < Cardinality(C(O[i]))
    BY <1>6, <2>1
  <2> QED BY <2>1, <2>2, <2>3
<1>14. ASSUME NEW n \in U PROVE \E i \in DOMAIN O : O[i] = n
  <2>1. PICK i \in 1..N : i = Cardinality(C(n))
    BY <1>5
  <2>2. O[i] \in U /\ Cardinality(C(O[i])) = Cardinality(C(n))
    BY <1>11, <2>1
  <2>3. O[i] < n \/ n < O[i] \/ O[i] = n
    BY <1>16, <2>2
  <2>4. O[i] = n
    BY <1>5, <1>6, <2>2, <2>3
  <2> QED BY <1>12, <2>4
<1>15. Outstanding \in Seq(DOMAIN mine)
  <2>1. O \in Seq(DOMAIN mine)
    <3>1. U \subseteq DOMAIN mine
      BY <1>1, <1>2
    <3> QED BY <1>12, <3>1
  <2> QED BY <2>1 DEF O
<1> QED BY <1>2, <1>3, <1>11, <1>12, <1>13, <1>14, <1>15 DEF O

(* The first frame on the way up, by its type.                             *)
LEMMA UpHead ==
  ASSUME Types, up # <<>>
  PROVE  /\ Head(up) = up[1] /\ Head(up) \in UpFrame /\ Tail(up) \in Seq(UpFrame)
         /\ Head(up).type = "commit" => Head(up) \in CommitFrames
         /\ Head(up).type = "add" => Head(up) \in AddFrames
         /\ Head(up).type = "set" => Head(up) \in SetFrames
         /\ Head(up).type = "open" => Head(up) \in OpenFrames
<1>1. Head(up) = up[1] /\ Head(up) \in UpFrame /\ Tail(up) \in Seq(UpFrame)
  BY DEF Types
<1> QED BY <1>1 DEF UpFrame, CommitFrames, AddFrames, SetFrames, OpenFrames

(* The first frame on the way down, by its type.                           *)
LEMMA DownHead ==
  ASSUME Types, down # <<>>
  PROVE  /\ Head(down) = down[1] /\ 1 \in DOMAIN down /\ Head(down) \in DownFrame /\ Tail(down) \in Seq(DownFrame)
         /\ Head(down).type = "verdict" => Head(down) \in Verdicts
         /\ Head(down).type # "verdict" => Head(down) \in Syncs
<1>1. Head(down) = down[1] /\ 1 \in DOMAIN down /\ Head(down) \in DownFrame
      /\ Tail(down) \in Seq(DownFrame)
  BY DEF Types
<1> QED BY <1>1 DEF DownFrame, Verdicts, Syncs

(* A frame that brings the documents ds at their heads and drops rs.       *)
SyncFrame(f, type, ds, rs, m) ==
  /\ f \in Syncs /\ f \in DownFrame
  /\ f.type = type /\ f.type # "verdict" /\ MarkIn(f) = m
  /\ \A d : Drops(f, d) <=> d \in rs
  /\ \A d, s : Raises(f, d, s) <=> d \in ds /\ HeadSeq(d) >= s
  /\ \A d \in ds : f.ups[d] = HeadSeq(d)

(* What a sync frame built by the server brings: the heads it names.       *)
LEMMA SyncTyped ==
  ASSUME Types, NEW type \in {"effect", "added", "replaced", "opened"},
         NEW ds \in SUBSET Docs, NEW rs \in SUBSET Docs, NEW m \in Nat
  PROVE  SyncFrame(Sync(type, Upserts(ds), rs, m), type, ds, rs, m)
<1> DEFINE f == Sync(type, Upserts(ds), rs, m)
<1>1. \A d \in ds : HeadSeq(d) \in Nat
  BY HeadFacts
<1>2. Upserts(ds) \in [ds -> Nat]
  BY <1>1 DEF Upserts
<1>3. /\ f.type = type /\ f.ups = Upserts(ds) /\ f.rems = rs /\ f.marker = m
      /\ f = [type |-> type, ups |-> Upserts(ds), rems |-> rs, marker |-> m]
  BY DEF Sync
<1> HIDE DEF f
<1>4. f \in Syncs
  <2>1. Upserts(ds) \in UNION {[D -> Nat] : D \in SUBSET Docs}
    BY <1>2
  <2> QED BY <1>3, <2>1 DEF Syncs
<1>5. f \in DownFrame
  BY <1>4 DEF DownFrame
<1>6. MarkIn(f) = m /\ \A d : Drops(f, d) <=> d \in rs
  BY <1>3 DEF MarkIn, Drops
<1>7. \A d : d \in DOMAIN f.ups <=> d \in ds
  BY <1>3 DEF Upserts
<1>8. \A d \in ds : f.ups[d] = HeadSeq(d)
  BY <1>3 DEF Upserts
<1>9. \A d, s : Raises(f, d, s) <=> d \in ds /\ HeadSeq(d) >= s
  BY <1>3, <1>7, <1>8 DEF Raises
<1>10. f.type # "verdict"
  BY <1>3
<1> QED BY <1>3, <1>4, <1>5, <1>6, <1>8, <1>9, <1>10 DEF f, SyncFrame

(* What the evaluation of a pass brings, and what it makes of the state.   *)
LEMMA ServedFacts ==
  ASSUME Types
  PROVE  /\ ServedBy.ups \in SUBSET session.watches /\ ServedBy.ups \in SUBSET Docs
         /\ ServedBy.rems \in SUBSET Docs /\ ServedBy.rems \intersect session.watches = {}
         /\ ServedBy.marker \in Nat
         /\ ServedBy.marker = IF session.owed > session.caught THEN session.owed ELSE 0
         /\ ServedBy.after \in State
         /\ ServedBy.after.watches = session.watches
         /\ ServedBy.after.force = FALSE
         /\ ServedBy.after.caught = Top
         /\ ServedBy.after.owed = IF session.owed > session.caught THEN 0 ELSE session.owed
         /\ \A d \in session.watches :
              /\ session.force \/ d \in pass.docs => ServedBy.after.cached[d] = HeadSeq(d)
              /\ d \in ServedBy.ups => ServedBy.after.cached[d] = HeadSeq(d)
              /\ d \notin ServedBy.ups =>
                   \/ ServedBy.after.cached[d] = session.cached[d]
                   \/ ServedBy.after.cached[d] = HeadSeq(d) /\ HeldByWriter(pass.origin, d)
         /\ \A d \in Docs \ session.watches :
              ServedBy.after.cached[d] \in {Nothing, session.cached[d]}
<1> DEFINE sync == IF session.force \/ session.watches = {} THEN FullSync(session)
                   ELSE DirtySync(session, pass.docs, pass.origin)
           owes == session.owed > session.caught
           e == ServedBy
<1>1. /\ session \in State /\ session.watches \in SUBSET Docs /\ session.force \in BOOLEAN
      /\ session.caught \in Nat /\ session.owed \in Nat /\ session.cached \in [Docs -> Int]
      /\ pass.docs \in SUBSET Docs
  BY DEF Types, State, Batch
<1>2. e = [ups |-> sync.ups, rems |-> sync.rems, marker |-> IF owes THEN session.owed ELSE 0,
           after |-> [session EXCEPT !.cached = sync.cached, !.force = session.force /\ ~session.force,
                          !.caught = Larger(session.caught, session.owed), !.owed = IF owes THEN 0 ELSE session.owed]]
  BY DEF ServedBy, Evaluation
<1>3. /\ sync.ups \in SUBSET session.watches
      /\ sync.rems \in SUBSET Docs /\ sync.rems \intersect session.watches = {}
  <2>1. CASE session.force \/ session.watches = {}
    <3>1. /\ sync.ups = Stale(session.cached, session.watches)
          /\ sync.rems = {d \in Docs : session.cached[d] # Nothing} \ session.watches
      BY <2>1 DEF FullSync
    <3> QED BY <3>1 DEF Stale
  <2>2. CASE ~(session.force \/ session.watches = {})
    <3>1. /\ sync.ups = {d \in Stale(session.cached, pass.docs \intersect session.watches) : ~HeldByWriter(pass.origin, d)}
          /\ sync.rems = {}
      BY <2>2 DEF DirtySync
    <3> QED BY <3>1 DEF Stale
  <2> QED BY <2>1, <2>2
<1>4. /\ sync.cached \in [Docs -> Int]
      /\ \A d \in session.watches :
              /\ session.force \/ d \in pass.docs => sync.cached[d] = HeadSeq(d)
              /\ d \in sync.ups => sync.cached[d] = HeadSeq(d)
              /\ d \notin sync.ups =>
                   \/ sync.cached[d] = session.cached[d]
                   \/ sync.cached[d] = HeadSeq(d) /\ HeldByWriter(pass.origin, d)
      /\ \A d \in Docs \ session.watches : sync.cached[d] \in {Nothing, session.cached[d]}
  <2>0. \A d \in Docs : HeadSeq(d) \in Nat
    BY HeadFacts
  <2>1. CASE session.force \/ session.watches = {}
    <3>1. /\ sync.ups = Stale(session.cached, session.watches)
          /\ sync.cached = CachedFor(session.watches)
      BY <2>1 DEF FullSync
    <3>2. \A d \in session.watches : d \in sync.ups \/ session.cached[d] = HeadSeq(d)
      BY <3>1 DEF Stale
    <3>3. sync.cached = [d \in Docs |-> IF d \in session.watches THEN HeadSeq(d) ELSE Nothing]
      BY <3>1 DEF CachedFor
    <3> HIDE DEF sync
    <3> QED BY <1>1, <2>0, <3>2, <3>3 DEF Nothing
  <2>2. CASE ~(session.force \/ session.watches = {})
    <3>1. /\ sync.ups = {d \in Stale(session.cached, pass.docs \intersect session.watches) : ~HeldByWriter(pass.origin, d)}
          /\ sync.cached = [d \in Docs |-> IF d \in pass.docs \intersect session.watches THEN HeadSeq(d) ELSE session.cached[d]]
      BY <2>2 DEF DirtySync
    <3>2. \A d \in pass.docs \intersect session.watches :
            d \in sync.ups \/ session.cached[d] = HeadSeq(d) \/ HeldByWriter(pass.origin, d)
      BY <3>1 DEF Stale
    <3>3. \A d \in sync.ups : d \in pass.docs \intersect session.watches
      BY <3>1 DEF Stale
    <3> HIDE DEF sync
    <3>4. \A d \in Docs :
            sync.cached[d] = IF d \in pass.docs \intersect session.watches THEN HeadSeq(d) ELSE session.cached[d]
      BY <3>1
    <3>5. sync.cached \in [Docs -> Int]
      BY <1>1, <2>0, <3>1
    <3>6. \A d \in session.watches : d \in Docs
      BY <1>1
    <3> QED BY <2>2, <3>2, <3>3, <3>4, <3>5, <3>6
  <2> QED BY <2>1, <2>2
<1>5. Larger(session.caught, session.owed) = Top
  BY <1>1 DEF Top, Larger
<1>6. Top \in Nat
  BY TypeFacts
<1> DEFINE c == sync.cached
           o == IF owes THEN 0 ELSE session.owed
<1>7. e.after = [session EXCEPT !.cached = c, !.force = session.force /\ ~session.force,
                          !.caught = Top, !.owed = o]
  BY <1>2, <1>5
<1>8. /\ c \in [Docs -> Int] /\ o \in Nat /\ (session.force /\ ~session.force) = FALSE
  BY <1>1, <1>4
<1>9. /\ e.after \in State /\ e.after.watches = session.watches /\ e.after.force = FALSE
      /\ e.after.caught = Top /\ e.after.owed = o /\ e.after.cached = c
  <2> HIDE DEF c, o, e
  <2> QED BY <1>1, <1>6, <1>7, <1>8 DEF State
<1>10. e.ups = sync.ups /\ e.rems = sync.rems /\ e.marker = IF owes THEN session.owed ELSE 0
  BY <1>2
<1>11. e.marker \in Nat
  BY <1>1, <1>10
<1> HIDE DEF sync
<1> QED BY <1>1, <1>3, <1>4, <1>9, <1>10, <1>11

(* The durable value at a seq is a set of seqs, empty at the first.        *)
LEMMA DurableTyped ==
  ASSUME Types, NEW s \in Nat, s <= SpaceSeq
  PROVE  Durable(s) \in SUBSET Nat /\ (s <= 1 => Durable(s) = {})
<1>1. Len(log) \in Nat /\ DOMAIN log = 1..Len(log) /\ SpaceSeq = Len(log) + 1
      /\ \A i \in DOMAIN log : log[i] \in Entry
  BY TypeFacts DEF SpaceSeq
<1>2. CASE s <= 1
  BY <1>2 DEF Durable
<1>3. CASE s > 1
  <2>1. s - 1 \in DOMAIN log
    BY <1>1, <1>3
  <2>2. log[s - 1].value \in SUBSET Nat
    BY <1>1, <2>1 DEF Entry
  <2> QED BY <1>3, <2>2 DEF Durable
<1> QED BY <1>2, <1>3

(* What a commit is does not change, only where it stands.                 *)
SameCore ==
  /\ mine' \in Seq(Own) /\ Len(mine') = Len(mine) /\ DOMAIN mine' = DOMAIN mine
  /\ \A n \in DOMAIN mine : mine'[n].doc = mine[n].doc /\ mine'[n].op = mine[n].op
                            /\ mine'[n].basis = mine[n].basis

(* A commit that changes its state keeps what was asked.                   *)
LEMMA MineStep ==
  ASSUME Types, NEW n \in DOMAIN mine, NEW e \in Own, mine' = [mine EXCEPT ![n] = e],
         e.doc = mine[n].doc, e.op = mine[n].op, e.basis = mine[n].basis
  PROVE  /\ SameCore /\ mine'[n] = e
         /\ \A m \in DOMAIN mine : m # n => mine'[m] = mine[m]
<1>1. mine \in Seq(Own)
  BY DEF Types
<1>2. mine' \in Seq(Own) /\ Len(mine') = Len(mine) /\ DOMAIN mine' = DOMAIN mine
  BY <1>1
<1>3. mine'[n] = e /\ \A m \in DOMAIN mine : m # n => mine'[m] = mine[m]
  BY <1>1
<1> QED BY <1>2, <1>3 DEF SameCore

(* The effect of a frame that is absorbed.                                 *)
Taken(f) == {n \in DOMAIN mine : n <= marker' /\ mine[n].at = "parked"}
Settled(f) ==
  /\ SameCore
  /\ \A n \in DOMAIN mine :
       /\ mine'[n].ok = mine[n].ok /\ mine'[n].seq = mine[n].seq
       /\ n <= marker' /\ mine[n].at = "parked" => mine'[n].at = "done"
       /\ ~(n <= marker' /\ mine[n].at = "parked") => mine'[n].at = mine[n].at
Brought(f, h) ==
  /\ h \in [Docs -> Record]
  /\ \A d \in Docs :
       /\ Drops(f, d) => h[d] = [seq |-> 0, value |-> {}] /\ delivered'[d] = 0
       /\ ~Drops(f, d) /\ Raises(f, d, held[d].seq) =>
            /\ h[d] = [seq |-> f.ups[d], value |-> Durable(f.ups[d])]
            /\ delivered'[d] = f.ups[d]
       /\ ~Drops(f, d) /\ ~Raises(f, d, held[d].seq) =>
            h[d] = held[d] /\ delivered'[d] = delivered[d]

(* The effect of absorbing a frame: the drops, the upserts that are no     *)
(* older than what is held, the marker, and the parked commits it settles. *)
LEMMA AbsorbEffect ==
  ASSUME Types, ValueInv, NEW f \in Syncs, NEW k \in DOMAIN down, f = down[k], Absorb(f)
  PROVE  /\ marker' \in Nat /\ marker' >= marker /\ marker' >= MarkIn(f) /\ marker' \in {marker, MarkIn(f)}
         /\ MarkIn(f) = f.marker
         /\ Settled(f) /\ delivered' \in [Docs -> Nat]
         /\ held' \in [Docs -> Record]
         /\ \E h : /\ Brought(f, h)
                   /\ held' = Promoted(h, mine, {n \in DOMAIN mine : n <= marker' /\ mine[n].at = "parked" /\ mine[n].ok})
<1>0. /\ held \in [Docs -> Record] /\ delivered \in [Docs -> Nat] /\ mine \in Seq(Own)
      /\ log \in Seq(Entry)
  BY DEF Types
<1>1. marker \in Nat /\ f.marker \in Nat /\ f.type # "verdict" /\ f.rems \in SUBSET Docs
  BY DEF Types, Syncs
<1>2. MarkIn(f) = f.marker /\ \A d : Drops(f, d) <=> d \in f.rems
  BY <1>1 DEF MarkIn, Drops
<1> DEFINE mk == Larger(marker, f.marker)
           R == {n \in Covered(mk) : mine[n].ok}
           h == HeldAfter(f)
<1>3. /\ marker' = mk /\ held' = Promoted(h, mine, R) /\ delivered' = DeliveredAfter(f)
      /\ mine' = [n \in DOMAIN mine |->
                  IF n \in Covered(mk) THEN [mine[n] EXCEPT !.at = "done"] ELSE mine[n]]
  BY DEF Absorb
<1>4. mk \in Nat /\ mk >= marker /\ mk >= f.marker /\ mk \in {marker, f.marker}
  BY <1>1 DEF Larger
<1> HIDE DEF mk
<1>5. Covered(mk) = {n \in DOMAIN mine : n <= mk /\ mine[n].at = "parked"}
  BY DEF Covered
<1>6. Settled(f)
  <2>1. /\ Len(mine) \in Nat /\ DOMAIN mine = 1..Len(mine)
        /\ \A n \in DOMAIN mine : mine[n] \in Own
    BY TypeFacts
  <2>2. DOMAIN mine' = DOMAIN mine
    BY <1>3
  <2>3. ASSUME NEW n \in DOMAIN mine
        PROVE  /\ mine'[n] \in Own /\ mine'[n].doc = mine[n].doc /\ mine'[n].op = mine[n].op
               /\ mine'[n].basis = mine[n].basis
               /\ mine'[n].ok = mine[n].ok /\ mine'[n].seq = mine[n].seq
               /\ n <= mk /\ mine[n].at = "parked" => mine'[n].at = "done"
               /\ ~(n <= mk /\ mine[n].at = "parked") => mine'[n].at = mine[n].at
    <3>1. mine[n] \in Own
      BY <2>1
    <3>2. [mine[n] EXCEPT !.at = "done"] \in Own
      BY <3>1 DEF Own
    <3>3. mine'[n] = IF n <= mk /\ mine[n].at = "parked" THEN [mine[n] EXCEPT !.at = "done"] ELSE mine[n]
      BY <1>3, <1>5
    <3> QED BY <3>1, <3>2, <3>3 DEF Own
  <2>4. mine' \in [1..Len(mine) -> Own]
    BY <1>3, <2>1, <2>3
  <2>5. mine' \in Seq(Own) /\ Len(mine') = Len(mine)
    BY <2>1, <2>4
  <2>6. SameCore
    BY <2>2, <2>3, <2>5 DEF SameCore
  <2> QED BY <1>3, <2>3, <2>6 DEF Settled
<1>7. Brought(f, h) /\ delivered' \in [Docs -> Nat]
  <2>1. \A d : d \in DOMAIN f.ups /\ f.ups[d] >= held[d].seq <=> Raises(f, d, held[d].seq)
    BY <1>1 DEF Raises
  <2>2. \A d \in Docs : held[d] \in Record /\ held[d].seq \in Nat /\ delivered[d] \in Nat
    BY <1>0 DEF Record
  <2>3. f \in DownFrame
    BY DEF DownFrame
  <2>4. ASSUME NEW d \in Docs, Raises(f, d, held[d].seq)
        PROVE  f.ups[d] \in Nat /\ Durable(f.ups[d]) \in SUBSET Nat
    <3>1. f.ups[d] \in Nat /\ Raises(f, d, 0)
      BY <2>2, <2>3, <2>4, FrameFacts
    <3>2. HeadSeq(d) \in Nat /\ HeadSeq(d) <= SpaceSeq /\ SpaceSeq \in Nat
      BY HeadFacts, TypeFacts
    <3>3. f.ups[d] <= HeadSeq(d)
      BY <3>1, <3>2 DEF ValueInv
    <3>4. Durable(f.ups[d]) \in SUBSET Nat
      BY <3>1, <3>2, <3>3, DurableTyped
    <3> QED BY <3>1, <3>4
  <2>5. ASSUME NEW d \in Docs
        PROVE /\ h[d] = IF Drops(f, d) THEN [seq |-> 0, value |-> {}]
                        ELSE IF Raises(f, d, held[d].seq)
                        THEN [seq |-> f.ups[d], value |-> Durable(f.ups[d])] ELSE held[d]
              /\ delivered'[d] = IF Drops(f, d) THEN 0
                        ELSE IF Raises(f, d, held[d].seq) THEN f.ups[d] ELSE delivered[d]
    <3>1. Absorbed(d, f) <=> Raises(f, d, held[d].seq)
      BY <2>1 DEF Absorbed
    <3> QED BY <1>2, <1>3, <3>1 DEF HeldAfter, DeliveredAfter
  <2>6. \A d \in Docs : h[d] \in Record /\ delivered'[d] \in Nat
    <3> TAKE d \in Docs
    <3> HIDE DEF h
    <3>1. CASE Drops(f, d)
      <4>1. h[d] = [seq |-> 0, value |-> {}] /\ delivered'[d] = 0
        BY <2>5, <3>1
      <4>2. [seq |-> 0, value |-> {}] \in Record
        BY DEF Record
      <4> QED BY <4>1, <4>2
    <3>2. CASE ~Drops(f, d) /\ Raises(f, d, held[d].seq)
      <4>1. h[d] = [seq |-> f.ups[d], value |-> Durable(f.ups[d])] /\ delivered'[d] = f.ups[d]
        BY <2>5, <3>2
      <4>2. [seq |-> f.ups[d], value |-> Durable(f.ups[d])] \in Record
        BY <2>4, <3>2 DEF Record
      <4> QED BY <2>4, <3>2, <4>1, <4>2
    <3>3. CASE ~Drops(f, d) /\ ~Raises(f, d, held[d].seq)
      BY <2>2, <2>5, <3>3
    <3> QED BY <3>1, <3>2, <3>3
  <2>7. h = [d \in Docs |-> h[d]] /\ delivered' = [d \in Docs |-> delivered'[d]]
    BY <1>3 DEF HeldAfter, DeliveredAfter
  <2> HIDE DEF h
  <2>8. h \in [Docs -> Record] /\ delivered' \in [Docs -> Nat]
    BY <2>6, <2>7
  <2> QED BY <2>5, <2>8 DEF Brought
<1> HIDE DEF h
<1>8. R = {n \in DOMAIN mine : n <= marker' /\ mine[n].at = "parked" /\ mine[n].ok} /\ R \in SUBSET DOMAIN mine
  BY <1>3, <1>5
<1> HIDE DEF R
<1>9. held' \in [Docs -> Record]
  BY <1>0, <1>3, <1>7, <1>8, PromotedFacts DEF Brought
<1> QED BY <1>2, <1>3, <1>4, <1>6, <1>7, <1>8, <1>9

(* The effect of Verdict.                                                  *)
LEMMA VerdictEffect ==
  ASSUME Types, OrderInv, AnswerInv, Verdict
  PROVE  LET v == down[1]
         IN /\ SameCore /\ v.type = "verdict" /\ v.id \in DOMAIN mine /\ v \in Verdicts
            /\ \A n \in DOMAIN mine : n # v.id => mine'[n] = mine[n]
            /\ mine[v.id].at # "sent" => mine'[v.id] = mine[v.id]
            /\ mine[v.id].at = "sent" =>
                 mine'[v.id].at = "answered" /\ mine'[v.id].ok = v.ok /\ mine'[v.id].seq = v.seq
<1> DEFINE v == down[1]
<1>1. down # <<>> /\ Head(down).type = "verdict"
  BY DEF Verdict, Received
<1>2. v = Head(down) /\ v \in Verdicts /\ v.type = "verdict" /\ 1 \in DOMAIN down
  BY <1>1, DownHead
<1>3. mine' = IF mine[v.id].at # "sent" THEN mine
              ELSE [mine EXCEPT ![v.id].at = "answered", ![v.id].ok = v.ok, ![v.id].seq = v.seq]
  BY <1>2 DEF Verdict
<1> HIDE DEF v
<1>4. v.id \in DOMAIN mine
  <2>1. Told(v.id, v.ok, v.seq)
    BY <1>2 DEF AnswerInv, v
  <2>2. v.id \in 1..Top /\ Top <= Len(mine)
    BY <2>1 DEF Told, OrderInv
  <2> QED BY <2>2, TypeFacts
<1>5. CASE mine[v.id].at # "sent"
  <2>1. mine' = mine
    BY <1>3, <1>5
  <2>2. SameCore
    BY <2>1 DEF SameCore, Types
  <2> QED BY <1>2, <1>4, <1>5, <2>1, <2>2 DEF v
<1>6. CASE mine[v.id].at = "sent"
  <2> DEFINE e == [mine[v.id] EXCEPT !.at = "answered", !.ok = v.ok, !.seq = v.seq]
  <2>1. mine' = [mine EXCEPT ![v.id] = e]
    BY <1>3, <1>4, <1>6
  <2>2. mine[v.id] \in Own /\ v.ok \in BOOLEAN /\ v.seq \in Nat
    BY <1>2, <1>4, TypeFacts DEF Verdicts
  <2>3. /\ e \in Own /\ e.doc = mine[v.id].doc /\ e.op = mine[v.id].op /\ e.basis = mine[v.id].basis
        /\ e.at = "answered" /\ e.ok = v.ok /\ e.seq = v.seq
    BY <2>2 DEF Own
  <2> HIDE DEF e
  <2>4. SameCore /\ mine'[v.id] = e /\ \A m \in DOMAIN mine : m # v.id => mine'[m] = mine[m]
    BY <1>4, <2>1, <2>3, MineStep
  <2> QED BY <1>2, <1>4, <1>6, <2>3, <2>4 DEF v
<1> QED BY <1>5, <1>6

(* The effect of Settle: behind the marker the commit is done, else it is  *)
(* parked.                                                                 *)
LEMMA SettleEffect ==
  ASSUME Types, NEW n \in DOMAIN mine, Settle(n)
  PROVE  /\ SameCore /\ mine[n].at = "answered"
         /\ \A m \in DOMAIN mine : m # n => mine'[m] = mine[m]
         /\ mine'[n].ok = mine[n].ok /\ mine'[n].seq = mine[n].seq
         /\ n <= marker => /\ mine'[n].at = "done"
                           /\ held' = IF mine[n].ok THEN Promoted(held, mine, {n}) ELSE held
         /\ n > marker => mine'[n].at = "parked" /\ held' = held
         /\ held' \in [Docs -> Record]
<1>1. mine[n] \in Own /\ n \in Nat /\ marker \in Nat /\ held \in [Docs -> Record]
      /\ mine \in Seq(Own)
  BY TypeFacts DEF Types
<1>2. mine[n].at = "answered"
  BY DEF Settle
<1> DEFINE e(at) == [mine[n] EXCEPT !.at = at]
<1>3. ASSUME NEW at \in {"done", "parked"}
      PROVE  /\ e(at) \in Own /\ e(at).doc = mine[n].doc /\ e(at).op = mine[n].op
             /\ e(at).basis = mine[n].basis /\ e(at).ok = mine[n].ok /\ e(at).seq = mine[n].seq
             /\ e(at).at = at
  BY <1>1, <1>3 DEF Own
<1>4. Promoted(held, mine, {n}) \in [Docs -> Record]
  <2>1. {n} \in SUBSET DOMAIN mine
    OBVIOUS
  <2> QED BY <1>1, <2>1, PromotedFacts
<1>5. CASE n <= marker
  <2>1. mine' = [mine EXCEPT ![n] = e("done")]
        /\ held' = IF mine[n].ok THEN Promoted(held, mine, {n}) ELSE held
    BY <1>5 DEF Settle
  <2>2. ~(n > marker)
    BY <1>1, <1>5
  <2> HIDE DEF e
  <2>3. SameCore /\ mine'[n] = e("done") /\ \A m \in DOMAIN mine : m # n => mine'[m] = mine[m]
    BY <1>3, <2>1, MineStep
  <2> QED BY <1>1, <1>2, <1>3, <1>4, <2>1, <2>2, <2>3
<1>6. CASE n > marker
  <2>1. mine' = [mine EXCEPT ![n] = e("parked")] /\ held' = held
    BY <1>1, <1>6 DEF Settle
  <2>2. ~(n <= marker)
    BY <1>1, <1>6
  <2> HIDE DEF e
  <2>3. SameCore /\ mine'[n] = e("parked") /\ \A m \in DOMAIN mine : m # n => mine'[m] = mine[m]
    BY <1>3, <2>1, MineStep
  <2> QED BY <1>1, <1>2, <1>3, <2>1, <2>2, <2>3
<1> QED BY <1>1, <1>5, <1>6

(* The effect of RepairTimesOut: a parked refusal is done.                 *)
LEMMA TimeoutEffect ==
  ASSUME Types, NEW n \in DOMAIN mine, RepairTimesOut(n)
  PROVE  /\ SameCore /\ mine[n].at = "parked" /\ ~mine[n].ok
         /\ \A m \in DOMAIN mine : m # n => mine'[m] = mine[m]
         /\ mine'[n].ok = mine[n].ok /\ mine'[n].seq = mine[n].seq
         /\ mine'[n].at = "done" /\ held' = held
<1>1. mine[n] \in Own /\ mine \in Seq(Own)
  BY TypeFacts DEF Types
<1> DEFINE e == [mine[n] EXCEPT !.at = "done"]
<1>2. /\ e \in Own /\ e.doc = mine[n].doc /\ e.op = mine[n].op /\ e.basis = mine[n].basis
      /\ e.ok = mine[n].ok /\ e.seq = mine[n].seq /\ e.at = "done"
  BY <1>1 DEF Own
<1>3. /\ mine' = [mine EXCEPT ![n] = e] /\ held' = held /\ mine[n].at = "parked" /\ ~mine[n].ok
  BY DEF RepairTimesOut
<1> HIDE DEF e
<1>4. SameCore /\ mine'[n] = e /\ \A m \in DOMAIN mine : m # n => mine'[m] = mine[m]
  BY <1>2, <1>3, MineStep
<1> QED BY <1>2, <1>3, <1>4

(* The effect of either: a commit that was answered moves on.              *)
LEMMA ResolveEffect ==
  ASSUME Types, NEW n \in DOMAIN mine, Resolve(n)
  PROVE  /\ SameCore /\ mine[n].at \in {"answered", "parked"}
         /\ \A m \in DOMAIN mine : m # n => mine'[m] = mine[m]
         /\ mine'[n].ok = mine[n].ok /\ mine'[n].seq = mine[n].seq
         /\ mine'[n].at \in {"parked", "done"}
         /\ mine'[n].at = "parked" => n > marker
         /\ held' \in [Docs -> Record]
         /\ held' = held \/ (/\ Settle(n) /\ n <= marker /\ mine[n].at = "answered"
                             /\ mine[n].ok /\ held' = Promoted(held, mine, {n}))
<1>1. n \in Nat /\ marker \in Nat /\ held \in [Docs -> Record]
  BY TypeFacts DEF Types
<1>2. n <= marker \/ n > marker
  BY <1>1
<1>3. CASE RepairTimesOut(n)
  BY <1>1, <1>3, TimeoutEffect
<1>4. CASE Settle(n)
  BY <1>1, <1>2, <1>4, SettleEffect
<1> QED BY <1>3, <1>4 DEF Resolve

(* The effect of Commit.                                                   *)
LEMMA CommitEffect ==
  ASSUME Types, NEW d \in Docs, NEW op \in {"set", "patch"}, Commit(d, op)
  PROVE  LET n == Len(mine) + 1
         IN /\ mine' \in Seq(Own) /\ Len(mine') = n /\ DOMAIN mine' = DOMAIN mine \union {n}
            /\ \A m \in DOMAIN mine : mine'[m] = mine[m] /\ m # n
            /\ mine'[n].doc = d /\ mine'[n].op = op /\ mine'[n].basis = held[d].seq
            /\ mine'[n].at = "sent" /\ d \in wanted
            /\ op = "set" => \A m \in DOMAIN mine : mine[m].doc = d => mine[m].at = "done"
            /\ conn # "up" => up' = up
            /\ conn = "up" => up' = Append(up, CommitFrame(mine', n))
            /\ CommitFrame(mine', n) \in CommitFrames
<1> DEFINE e == [doc |-> d, op |-> op, basis |-> held[d].seq, at |-> "sent", ok |-> FALSE, seq |-> 0]
           n == Len(mine) + 1
<1>1. mine \in Seq(Own) /\ held[d] \in Record /\ Len(mine) \in Nat
  BY DEF Types
<1>2. e \in Own
  BY <1>1 DEF Own, Record
<1>3. mine' = Append(mine, e)
  BY DEF Commit
<1>4. /\ mine' \in Seq(Own) /\ Len(mine') = n /\ DOMAIN mine' = DOMAIN mine \union {n}
      /\ mine'[n] = e
      /\ \A m \in DOMAIN mine : mine'[m] = mine[m] /\ m # n
  <2> HIDE DEF e
  <2> QED BY <1>1, <1>2, <1>3
<1>5. up' = IF conn = "up" THEN Append(up, CommitFrame(mine', n)) ELSE up
  BY <1>4 DEF Commit
<1>6. CommitFrame(mine', n) \in CommitFrames
  BY <1>1, <1>2, <1>4 DEF CommitFrame, CommitFrames, Own
<1> QED BY <1>4, <1>5, <1>6 DEF Commit

(* The wire carries a commit as it is.                                     *)
LEMMA CommitFrameSame ==
  ASSUME Types, SameCore, NEW n \in DOMAIN mine
  PROVE  CommitFrame(mine', n) = CommitFrame(mine, n) /\ CommitFrame(mine, n) \in CommitFrames
<1>1. mine[n] \in Own /\ n \in Nat
  BY TypeFacts
<1> QED BY <1>1 DEF CommitFrame, CommitFrames, SameCore, Own

(* A document marked dirty keeps an origin only if it had this one or was  *)
(* clean.                                                                  *)
LEMMA MarkDirtyEffect ==
  ASSUME Types, NEW ds \in SUBSET Docs, NEW from \in Stamp, MarkDirty(ds, from)
  PROVE  /\ due' = TRUE /\ dirty' = dirty \union ds /\ dirty' \in SUBSET Docs
         /\ origin' \in [Docs -> Stamp]
         /\ \A d \in Docs : /\ d \notin ds => origin'[d] = origin[d]
                            /\ d \in ds => origin'[d] \in {NoOrigin, from}
                            /\ d \in ds /\ d \in dirty
                               /\ origin[d] = NoOrigin => origin'[d] = NoOrigin
<1>1. origin \in [Docs -> Stamp] /\ dirty \in SUBSET Docs
  BY DEF Types
<1>2. NoOrigin \in Stamp
  BY DEF NoOrigin, Stamp
<1>3. origin' = [d \in Docs |->
       IF d \notin ds THEN origin[d]
       ELSE IF d \in dirty /\ origin[d] = NoOrigin THEN NoOrigin
       ELSE from]
  BY DEF MarkDirty
<1>4. due' = TRUE /\ dirty' = dirty \union ds
  BY DEF MarkDirty
<1>5. origin' \in [Docs -> Stamp]
  BY <1>1, <1>2, <1>3
<1> QED BY <1>1, <1>3, <1>4, <1>5

(* A commit received: recorded, refused, or answered as it was.            *)
Accepted(n, e) ==
  /\ ~Recorded(n) /\ e \in Entry /\ e.by = n /\ e.doc = mine[n].doc
  /\ mine[n].op = "set" => e.value = {SpaceSeq + 1} /\ mine[n].basis = HeadSeq(mine[n].doc)
  /\ log' = Append(log, e)
Refused(n) == /\ ~Recorded(n) /\ mine[n].op = "set" /\ mine[n].basis # HeadSeq(mine[n].doc)
              /\ log' = log
Answered(n, ok, seq) ==
  \/ ok /\ seq = SpaceSeq + 1 /\ \E e : Accepted(n, e)
  \/ ~ok /\ Refused(n)
  \/ ok /\ RecordedAs(n, seq) /\ log' = log
CommitServed(n, ok, seq) ==
  /\ n \in DOMAIN mine /\ ok \in BOOLEAN /\ seq \in Nat
  /\ up # <<>> /\ up[1].type = "commit" /\ up[1].id = n /\ up' = Tail(up) /\ ~pass.on
  /\ Answered(n, ok, seq)
  /\ due' = TRUE /\ dirty' = dirty \union {mine[n].doc}
  /\ origin' \in [Docs -> Stamp]
  /\ \A d \in Docs : /\ d # mine[n].doc => origin'[d] = origin[d]
                     /\ origin'[mine[n].doc] \in {NoOrigin, [seq |-> seq, op |-> mine[n].op]}
                     /\ ~ok => origin'[mine[n].doc] = NoOrigin
  /\ session' \in State /\ session'.watches = session.watches /\ session'.force = session.force
  /\ session'.cached = session.cached /\ session'.caught = session.caught
  /\ session'.owed = Larger(session.owed, n)
  /\ down' = IF link = "live" THEN Append(down, [type |-> "verdict", id |-> n, ok |-> ok, seq |-> seq])
             ELSE down

(* ReceiveCommit accepts, refuses or finds the commit recorded             *)
(* (CommitServed).                                                         *)
LEMMA ReceiveCommitEffect ==
  ASSUME Types, OrderInv, LogInv, ReceiveCommit
  PROVE  \E n, ok, seq : CommitServed(n, ok, seq)
<1> DEFINE c == Head(up)
           n == c.id
           new == RecordedAt(n) = {}
           ok == ~new \/ c.op = "patch" \/ c.basis = HeadSeq(c.doc)
           seq == IF new THEN SpaceSeq + 1 ELSE Max(RecordedAt(n)) + 1
           told == IF ok THEN seq ELSE HeadSeq(c.doc)
           e == [doc |-> c.doc, by |-> n, value |-> Applied(c.op, Durable(HeadSeq(c.doc)), seq)]
<1>1. up # <<>> /\ Head(up).type = "commit" /\ up' = Tail(up) /\ ~pass.on
  BY DEF ReceiveCommit, Requested
<1>2. c = up[1] /\ c \in CommitFrames /\ 1 \in DOMAIN up
  BY <1>1, UpHead DEF Types
<1>3. n \in DOMAIN mine /\ c = CommitFrame(mine, n)
  BY <1>1, <1>2 DEF OrderInv, IsCommit
<1>4. mine[n] \in Own /\ n \in Nat \ {0}
  BY <1>3, TypeFacts
<1>5. c.doc = mine[n].doc /\ c.op = mine[n].op /\ c.basis = mine[n].basis /\ c.doc \in Docs
      /\ c.op \in {"set", "patch"}
  BY <1>3, <1>4 DEF CommitFrame, Own
<1>6. /\ log' = IF ok /\ new THEN Append(log, e) ELSE log
      /\ MarkDirty({c.doc}, IF ok THEN [seq |-> seq, op |-> c.op] ELSE NoOrigin)
      /\ session' = [session EXCEPT !.owed = Larger(@, n)]
      /\ Send([type |-> "verdict", id |-> n, ok |-> ok, seq |-> told])
  BY DEF ReceiveCommit
<1>7. new <=> ~Recorded(n)
  BY DEF RecordedAt, Recorded
<1>8. SpaceSeq \in Nat /\ HeadSeq(c.doc) \in Nat /\ HeadSeq(c.doc) <= SpaceSeq
  BY <1>5, TypeFacts, HeadFacts
<1>9. ~new => seq \in Nat /\ RecordedAs(n, seq)
  <2>1. Len(log) \in Nat /\ DOMAIN log = 1..Len(log)
    BY TypeFacts
  <2>2. RecordedAt(n) \in SUBSET (1..Len(log)) /\ \A i \in RecordedAt(n) : log[i].by = n
    BY <2>1 DEF RecordedAt
  <2> SUFFICES ASSUME ~new PROVE seq \in Nat /\ RecordedAs(n, seq)
    OBVIOUS
  <2>3. Max(RecordedAt(n)) \in RecordedAt(n)
    BY <2>1, <2>2, MaxProperties
  <2>4. PICK m \in RecordedAt(n) : m = Max(RecordedAt(n))
    BY <2>3
  <2>5. seq = m + 1 /\ m \in 1..Len(log) /\ log[m].by = n
    BY <2>2, <2>4
  <2>6. (m + 1) - 1 = m /\ m + 1 \in Nat
    BY <2>1, <2>5
  <2> QED BY <2>1, <2>5, <2>6 DEF RecordedAs
<1>10. seq \in Nat /\ told \in Nat
  BY <1>8, <1>9
<1>11. e \in Entry /\ (c.op = "set" => e.value = {seq})
  <2>1. Durable(HeadSeq(c.doc)) \in SUBSET Nat
    BY <1>8, DurableTyped
  <2>2. Applied(c.op, Durable(HeadSeq(c.doc)), seq) \in SUBSET Nat
    BY <1>10, <2>1 DEF Applied
  <2>3. c.op = "set" => Applied(c.op, Durable(HeadSeq(c.doc)), seq) = {seq}
    BY DEF Applied
  <2> QED BY <1>4, <1>5, <2>2, <2>3 DEF Entry
<1>12. e.by = n /\ e.doc = mine[n].doc
  BY <1>5
<1> DEFINE from == IF ok THEN [seq |-> seq, op |-> c.op] ELSE NoOrigin
<1>13. from \in Stamp
  BY <1>5, <1>10 DEF Stamp, NoOrigin
<1>14. ok \in BOOLEAN
  OBVIOUS
<1>15. Larger(session.owed, n) \in Nat
  BY <1>4, TypeFacts DEF Larger
<1>16. /\ session' \in State /\ session'.watches = session.watches /\ session'.force = session.force
       /\ session'.cached = session.cached /\ session'.caught = session.caught
       /\ session'.owed = Larger(session.owed, n)
  <2>1. session \in State /\ session' = [session EXCEPT !.owed = Larger(session.owed, n)]
    BY <1>6 DEF Types
  <2> QED BY <1>15, <2>1 DEF State
<1>17. /\ due' = TRUE /\ dirty' = dirty \union {mine[n].doc} /\ origin' \in [Docs -> Stamp]
       /\ \A d \in Docs : /\ d # mine[n].doc => origin'[d] = origin[d]
                          /\ origin'[mine[n].doc] \in {NoOrigin, from}
  <2>1. PICK x \in Docs : x = mine[n].doc
    BY <1>5
  <2>2. {x} \in SUBSET Docs /\ MarkDirty({x}, from)
    BY <1>5, <1>6, <2>1
  <2> HIDE DEF from, c
  <2>3. /\ due' = TRUE /\ dirty' = dirty \union {x} /\ origin' \in [Docs -> Stamp]
        /\ \A d \in Docs : /\ d \notin {x} => origin'[d] = origin[d]
                           /\ d \in {x} => origin'[d] \in {NoOrigin, from}
    BY <1>13, <2>2, MarkDirtyEffect
  <2> QED BY <2>1, <2>3
<1>18. down' = IF link = "live" THEN Append(down, [type |-> "verdict", id |-> n, ok |-> ok, seq |-> told]) ELSE down
  BY <1>6 DEF Send
<1>19. Answered(n, ok, told)
  <2>1. CASE new /\ ok
    <3>1. told = SpaceSeq + 1 /\ log' = Append(log, e) /\ seq = SpaceSeq + 1
      BY <1>6, <2>1
    <3>2. mine[n].op = "set" => mine[n].basis = HeadSeq(mine[n].doc)
      BY <1>5, <2>1
    <3> HIDE DEF e, seq, told, new
    <3>3. Accepted(n, e)
      BY <1>5, <1>7, <1>11, <1>12, <2>1, <3>1, <3>2 DEF Accepted
    <3> QED BY <2>1, <3>1, <3>3 DEF Answered
  <2>2. CASE new /\ ~ok
    <3>1. log' = log /\ mine[n].op = "set" /\ mine[n].basis # HeadSeq(mine[n].doc)
      BY <1>5, <1>6, <2>2
    <3> QED BY <1>7, <2>2, <3>1 DEF Answered, Refused
  <2>3. CASE ~new
    <3>1. ok /\ log' = log /\ told = seq
      BY <1>6, <2>3
    <3> HIDE DEF told, seq, ok
    <3> QED BY <1>9, <2>3, <3>1 DEF Answered
  <2> QED BY <2>1, <2>2, <2>3
<1>20. from \in {NoOrigin, [seq |-> told, op |-> mine[n].op]} /\ (~ok => from = NoOrigin)
  BY <1>5
<1>21. \A d \in Docs : /\ d # mine[n].doc => origin'[d] = origin[d]
                       /\ origin'[mine[n].doc] \in {NoOrigin, [seq |-> told, op |-> mine[n].op]}
                       /\ ~ok => origin'[mine[n].doc] = NoOrigin
  <2> HIDE DEF from, told, ok, c
  <2> QED BY <1>17, <1>20
<1>22. up[1].type = "commit" /\ up[1].id = n
  BY <1>1, <1>2
<1> HIDE DEF ok, told, from, seq, e, new, c
<1> QED BY <1>1, <1>3, <1>10, <1>14, <1>16, <1>17, <1>18, <1>19, <1>21, <1>22
           DEF CommitServed

(* No pass and no origin are of their types.                               *)
LEMMA NoPassTyped == NoPass \in Batch /\ NoOrigin \in Stamp
BY DEF NoPass, Batch, NoOrigin, Stamp

(* The effect of ForeignCommit.                                            *)
LEMMA ForeignCommitEffect ==
  ASSUME Types, NEW d \in Docs, ForeignCommit(d)
  PROVE  \E e \in Entry :
           /\ log' = Append(log, e) /\ e.by = 0 /\ e.doc = d
           /\ due' = TRUE /\ dirty' = dirty \union {d} /\ origin' \in [Docs -> Stamp]
           /\ \A x \in Docs : origin'[x] \in {NoOrigin, origin[x]}
           /\ origin'[d] = NoOrigin
<1> DEFINE e == [doc |-> d, value |-> {SpaceSeq + 1}, by |-> 0]
<1>1. e \in Entry /\ e.by = 0 /\ e.doc = d
  BY TypeFacts DEF Entry
<1>2. log' = Append(log, e) /\ MarkDirty({d}, NoOrigin)
  BY DEF ForeignCommit
<1>3. {d} \in SUBSET Docs
  OBVIOUS
<1>4. /\ due' = TRUE /\ dirty' = dirty \union {d} /\ origin' \in [Docs -> Stamp]
      /\ \A x \in Docs : /\ x \notin {d} => origin'[x] = origin[x]
                         /\ x \in {d} => origin'[x] \in {NoOrigin, NoOrigin}
  BY <1>2, <1>3, NoPassTyped, MarkDirtyEffect
<1> HIDE DEF e
<1> QED BY <1>1, <1>2, <1>4

(* An evaluation is sent, or has nothing to send.                          *)
Sent(f) == down' = IF link = "live" THEN Append(down, f) ELSE down
EffectFrame == Sync("effect", Upserts(ServedBy.ups), ServedBy.rems, ServedBy.marker)

(* What the frame of a pass brings.                                        *)
LEMMA EffectFrameFacts ==
  ASSUME Types
  PROVE  /\ EffectFrame \in DownFrame /\ EffectFrame.type = "effect"
         /\ MarkIn(EffectFrame) = ServedBy.marker
         /\ \A d : Drops(EffectFrame, d) <=> d \in ServedBy.rems
         /\ \A d, s : Raises(EffectFrame, d, s) <=> d \in ServedBy.ups /\ HeadSeq(d) >= s
         /\ \A d \in ServedBy.ups : EffectFrame.ups[d] = HeadSeq(d)
<1>1. /\ ServedBy.ups \in SUBSET Docs /\ ServedBy.rems \in SUBSET Docs
         /\ ServedBy.marker \in Nat
  BY ServedFacts
<1>2. "effect" \in {"effect", "added", "replaced", "opened"}
  OBVIOUS
<1> DEFINE us == ServedBy.ups
           rs == ServedBy.rems
           mk == ServedBy.marker
           f  == EffectFrame
<1>3. f = Sync("effect", Upserts(us), rs, mk) /\ us \in SUBSET Docs /\ rs \in SUBSET Docs
      /\ mk \in Nat
  BY <1>1 DEF EffectFrame
<1> HIDE DEF us, rs, mk, f
<1>4. /\ f \in DownFrame /\ f.type = "effect" /\ MarkIn(f) = mk
      /\ \A d : Drops(f, d) <=> d \in rs
      /\ \A d, s : Raises(f, d, s) <=> d \in us /\ HeadSeq(d) >= s
      /\ \A d \in us : f.ups[d] = HeadSeq(d)
  <2>1. SyncFrame(f, "effect", us, rs, mk)
    BY <1>2, <1>3, SyncTyped
  <2> QED BY <2>1 DEF SyncFrame
<1> QED BY <1>4 DEF us, rs, mk, f

(* The effect of Serve: the frame is sent unless it is empty.              *)
LEMMA ServeEffect ==
  ASSUME Types, Serve
  PROVE  /\ pass.on /\ ~pass.served /\ pass' \in Batch /\ pass'.on = pass.on /\ pass'.docs = pass.docs
         /\ pass'.origin = pass.origin /\ pass'.served = TRUE
         /\ skipped' = FALSE /\ session' = ServedBy.after
         /\ Empty(ServedBy) => down' = down
         /\ ~Empty(ServedBy) => Sent(EffectFrame)
<1>1. /\ pass.on /\ ~pass.served /\ pass' = [pass EXCEPT !.served = TRUE] /\ pass \in Batch
  BY DEF Serve, Serving, Types
<1>2. /\ pass' \in Batch /\ pass'.on = pass.on /\ pass'.docs = pass.docs
      /\ pass'.origin = pass.origin /\ pass'.served = TRUE
  BY <1>1 DEF Batch
<1> QED BY <1>1, <1>2 DEF Serve, Send, Sent, EffectFrame

(* The effect of SendFails: the cache forgets what was not sent.           *)
LEMMA SendFailsEffect ==
  ASSUME Types, SendFails
  PROVE  /\ pass.on /\ ~pass.served /\ pass' \in Batch /\ pass'.on = pass.on /\ pass'.docs = pass.docs
         /\ pass'.origin = pass.origin /\ pass'.served = TRUE
         /\ skipped' = FALSE /\ session' \in State
         /\ session'.watches = session.watches
         /\ \A d \in ServedBy.ups : session'.cached[d] = Nothing
         /\ \A d \in ServedBy.rems : session'.cached[d] = 0
         /\ \A d \in Docs : d \notin ServedBy.ups /\ d \notin ServedBy.rems =>
                              session'.cached[d] = ServedBy.after.cached[d]
         /\ ServedBy.marker > 0 => session'.owed = Top /\ session'.caught = Top - 1
         /\ ServedBy.marker = 0 =>
              session'.owed = session.owed /\ session'.caught = session.caught
         /\ due' = TRUE /\ dirty' = dirty \union (ServedBy.ups \union ServedBy.rems)
         /\ dirty' \in SUBSET Docs /\ origin' \in [Docs -> Stamp]
         /\ \A d \in Docs : origin'[d] \in {NoOrigin, origin[d]}
         /\ \A d \in ServedBy.ups : origin'[d] = NoOrigin
         /\ link' = link \/ (link = "dead" /\ link' = "none")
<1> DEFINE e == ServedBy
           c == [d \in Docs |-> IF d \in e.ups THEN Nothing
                                ELSE IF d \in e.rems THEN 0 ELSE e.after.cached[d]]
<1>1. /\ pass.on /\ ~pass.served /\ pass' = [pass EXCEPT !.served = TRUE] /\ pass \in Batch
      /\ skipped' = FALSE /\ session' = RolledBack(e)
      /\ MarkDirty(e.ups \union e.rems, NoOrigin)
      /\ link' = link \/ (link = "dead" /\ link' = "none")
  BY DEF SendFails, Serving, Types
<1>2. /\ pass' \in Batch /\ pass'.on = pass.on /\ pass'.docs = pass.docs
      /\ pass'.origin = pass.origin /\ pass'.served = TRUE
  BY <1>1 DEF Batch
<1>3. /\ e.ups \in SUBSET session.watches /\ e.ups \in SUBSET Docs
      /\ e.rems \in SUBSET Docs /\ e.rems \intersect session.watches = {}
      /\ e.marker \in Nat /\ e.after \in State /\ e.after.watches = session.watches
      /\ e.after.force = FALSE /\ e.after.caught = Top
      /\ e.after.owed = IF session.owed > session.caught THEN 0 ELSE session.owed
      /\ e.marker = IF session.owed > session.caught THEN session.owed ELSE 0
  BY ServedFacts
<1> DEFINE o == Larger(e.after.owed, e.marker)
           g == IF e.marker > 0 /\ e.marker - 1 < e.after.caught THEN e.marker - 1 ELSE e.after.caught
           f == e.after.force \/ e.rems # {}
<1>4. session' = [e.after EXCEPT !.cached = c, !.force = f, !.owed = o, !.caught = g]
  BY <1>1 DEF RolledBack
<1>5. /\ Top \in Nat /\ session.owed \in Nat /\ session.caught \in Nat
      /\ session.owed > session.caught => Top = session.owed
      /\ session.owed <= session.caught => Top = session.caught
  BY TypeFacts DEF Top, Larger
<1>6. /\ e.marker > 0 => o = Top /\ g = Top - 1 /\ Top > 0
      /\ e.marker = 0 => o = session.owed /\ g = session.caught
      /\ o \in Nat /\ g \in Nat
  <2>1. CASE session.owed > session.caught
    <3>1. e.marker = Top /\ e.marker > 0 /\ e.after.owed = 0 /\ e.after.caught = Top
      BY <1>3, <1>5, <2>1
    <3> HIDE DEF e
    <3> QED BY <1>5, <3>1 DEF Larger
  <2>2. CASE ~(session.owed > session.caught)
    <3>1. e.marker = 0 /\ e.after.owed = session.owed /\ e.after.caught = session.caught
      BY <1>3, <1>5, <2>2
    <3> HIDE DEF e
    <3> QED BY <1>5, <3>1 DEF Larger
  <2> QED BY <2>1, <2>2
<1>7. c \in [Docs -> Int] /\ f \in BOOLEAN
  <2>1. e.after.cached \in [Docs -> Int]
    BY <1>3 DEF State
  <2> HIDE DEF e
  <2> QED BY <1>3, <2>1 DEF Nothing
<1>8. /\ session' \in State /\ session'.watches = session.watches
      /\ session'.cached = c /\ session'.owed = o /\ session'.caught = g
  <2> HIDE DEF c, f, o, g, e
  <2> QED BY <1>3, <1>4, <1>6, <1>7 DEF State
<1>9. /\ \A d \in e.ups : c[d] = Nothing
      /\ \A d \in e.rems : c[d] = 0
      /\ \A d \in Docs : d \notin e.ups /\ d \notin e.rems => c[d] = e.after.cached[d]
  <2>1. \A d \in e.rems : d \in Docs /\ d \notin e.ups
    BY <1>3
  <2>2. \A d \in e.ups : d \in Docs
    BY <1>3
  <2> HIDE DEF e
  <2> QED BY <2>1, <2>2
<1>10. /\ due' = TRUE /\ dirty' = dirty \union (e.ups \union e.rems)
       /\ dirty' \in SUBSET Docs /\ origin' \in [Docs -> Stamp]
       /\ \A d \in Docs : /\ d \notin (e.ups \union e.rems) => origin'[d] = origin[d]
                          /\ d \in (e.ups \union e.rems) => origin'[d] \in {NoOrigin, NoOrigin}
  <2>1. e.ups \union e.rems \in SUBSET Docs
    BY <1>3
  <2> HIDE DEF e
  <2> QED BY <1>1, <2>1, NoPassTyped, MarkDirtyEffect
<1> HIDE DEF c, o, g, f
<1>11. /\ \A d \in Docs : origin'[d] \in {NoOrigin, origin[d]}
       /\ \A d \in e.ups : origin'[d] = NoOrigin
  BY <1>3, <1>10
<1> QED BY <1>1, <1>2, <1>6, <1>8, <1>9, <1>10, <1>11

(* The effect of FailPass: what the pass took is dirty again.              *)
LEMMA FailPassEffect ==
  ASSUME Types, FailPass
  PROVE  /\ pass.on /\ pass' = NoPass /\ due' = TRUE /\ dirty' = dirty \union pass.docs
         /\ dirty' \in SUBSET Docs /\ origin' \in [Docs -> Stamp]
         /\ \A d \in Docs : origin'[d] \in {NoOrigin, origin[d], pass.origin[d]}
         /\ \A d \in Docs : d \notin pass.docs => origin'[d] = origin[d]
<1>1. pass \in Batch /\ origin \in [Docs -> Stamp] /\ dirty \in SUBSET Docs
  BY DEF Types
<1>2. pass.docs \in SUBSET Docs /\ pass.origin \in [Docs -> Stamp]
  BY <1>1 DEF Batch
<1>3. origin' = [d \in Docs |->
       IF d \notin pass.docs THEN origin[d]
       ELSE IF d \notin dirty THEN pass.origin[d]
       ELSE IF pass.origin[d] = NoOrigin THEN NoOrigin ELSE origin[d]]
  BY DEF FailPass
<1>4. origin' \in [Docs -> Stamp]
  BY <1>1, <1>2, <1>3, NoPassTyped
<1> QED BY <1>1, <1>2, <1>3, <1>4 DEF FailPass

(* The watch calls and the open are answered in one step.                  *)
AddServed(d, f) ==
  /\ d \in Docs /\ up # <<>> /\ up[1].type = "add" /\ up[1].doc = d /\ up' = Tail(up)
  /\ f \in DownFrame /\ f.type = "added" /\ MarkIn(f) = 0 /\ (\A x : ~Drops(f, x)) /\ Sent(f)
  /\ session' \in State /\ session'.force = session.force
  /\ session'.owed = session.owed /\ session'.caught = session.caught
  /\ session'.watches = session.watches \union {d}
  /\ \A x \in Docs : x # d => session'.cached[x] = session.cached[x]
  /\ \A x, s : Raises(f, x, s) => x = d /\ HeadSeq(d) >= s
  /\ \A x : Raises(f, x, 0) => f.ups[x] = HeadSeq(x)
  /\ d \in session.watches => session'.cached[d] = session.cached[d]
  /\ d \notin session.watches => session'.cached[d] = HeadSeq(d)
  /\ d \notin session.watches /\ session.cached[d] # HeadSeq(d) => \A s : HeadSeq(d) >= s =>
       Raises(f, d, s)

(* The effect of ReceiveAdd is AddServed.                                  *)
LEMMA ReceiveAddEffect ==
  ASSUME Types, ReceiveAdd
  PROVE  \E d, f : AddServed(d, f)
<1> DEFINE d == Head(up).doc
           ups == IF d \in session.watches \/ session.cached[d] = HeadSeq(d) THEN {} ELSE {d}
           f == Sync("added", Upserts(ups), {}, 0)
<1>1. up # <<>> /\ Head(up).type = "add" /\ up' = Tail(up)
  BY DEF ReceiveAdd, Requested
<1>2. Head(up) = up[1] /\ Head(up) \in AddFrames
  BY <1>1, UpHead
<1>3. d \in Docs
  BY <1>2 DEF AddFrames
<1>4. Sent(f) /\ session' = IF d \in session.watches THEN session
                      ELSE [session EXCEPT !.watches = @ \union {d}, !.cached[d] = HeadSeq(d)]
  BY DEF ReceiveAdd, Send, Sent
<1>5. ups \in SUBSET Docs /\ {} \in SUBSET Docs /\ 0 \in Nat
      /\ "added" \in {"effect", "added", "replaced", "opened"}
  BY <1>3
<1>6. /\ f \in DownFrame /\ f.type = "added" /\ MarkIn(f) = 0
      /\ \A x : Drops(f, x) <=> x \in {}
      /\ \A x, s : Raises(f, x, s) <=> x \in ups /\ HeadSeq(x) >= s
      /\ \A x \in ups : f.ups[x] = HeadSeq(x)
  <2> DEFINE no == {}
  <2>1. no \in SUBSET Docs /\ no = {} /\ f = Sync("added", Upserts(ups), no, 0)
    OBVIOUS
  <2> HIDE DEF ups, f, no
  <2>2. /\ f \in DownFrame /\ f.type = "added" /\ MarkIn(f) = 0
        /\ \A x : Drops(f, x) <=> x \in no
        /\ \A x, s : Raises(f, x, s) <=> x \in ups /\ HeadSeq(x) >= s
        /\ \A x \in ups : f.ups[x] = HeadSeq(x)
    <3>1. SyncFrame(f, "added", ups, no, 0)
      BY <1>5, <2>1, SyncTyped
    <3> QED BY <3>1 DEF SyncFrame
  <2> QED BY <2>1, <2>2
<1>7. /\ session \in State /\ session.watches \in SUBSET Docs /\ session.cached \in [Docs -> Int]
      /\ HeadSeq(d) \in Int
  BY <1>3, HeadFacts DEF Types, State
<1>8. /\ session' \in State /\ session'.force = session.force
      /\ session'.owed = session.owed /\ session'.caught = session.caught
      /\ session'.watches = session.watches \union {d}
      /\ \A x \in Docs : x # d => session'.cached[x] = session.cached[x]
      /\ d \in session.watches => session'.cached[d] = session.cached[d]
      /\ d \notin session.watches => session'.cached[d] = HeadSeq(d)
  <2> HIDE DEF d, f
  <2>1. CASE d \in session.watches
    BY <1>4, <1>7, <2>1
  <2>2. CASE d \notin session.watches
    <3> DEFINE c == [session.cached EXCEPT ![d] = HeadSeq(d)]
               w == session.watches \union {d}
    <3>1. c \in [Docs -> Int] /\ w \in SUBSET Docs /\ c[d] = HeadSeq(d)
          /\ \A x \in Docs : x # d => c[x] = session.cached[x]
      BY <1>3, <1>7
    <3>2. session' = [session EXCEPT !.watches = w, !.cached = c]
      BY <1>4, <2>2
    <3> HIDE DEF c
    <3> QED BY <1>7, <2>2, <3>1, <3>2 DEF State
  <2> QED BY <2>1, <2>2
<1>9. /\ \A x \in ups : x = d
      /\ d \notin session.watches /\ session.cached[d] # HeadSeq(d) => d \in ups
  OBVIOUS
<1>10. \A x : Raises(f, x, 0) => f.ups[x] = HeadSeq(x)
  <2> HIDE DEF f, ups
  <2> QED BY <1>6
<1> HIDE DEF f, ups
<1>11. \A x, s : Raises(f, x, s) => x = d /\ HeadSeq(d) >= s
  BY <1>6, <1>9
<1>12. d \notin session.watches /\ session.cached[d] # HeadSeq(d) => \A s : HeadSeq(d) >= s =>
         Raises(f, d, s)
  BY <1>6, <1>9
<1>13. up[1].type = "add" /\ up[1].doc = d
  BY <1>1, <1>2
<1> HIDE DEF d
<1>14. AddServed(d, f)
  BY <1>1, <1>3, <1>4, <1>6, <1>8, <1>10, <1>11, <1>12, <1>13 DEF AddServed
<1> QED BY <1>14

SetServed(ws, f) ==
  /\ ws \in SUBSET Docs /\ up # <<>> /\ up[1].type = "set" /\ up[1].watches = ws
     /\ up' = Tail(up)
  /\ f \in DownFrame /\ f.type = "replaced" /\ MarkIn(f) = 0 /\ Sent(f)
  /\ \A x : Drops(f, x) => x \in Docs \ ws
  /\ \A x, s : Raises(f, x, s) <=> x \in ws /\ HeadSeq(x) >= s
  /\ \A x \in ws : f.ups[x] = HeadSeq(x)
  /\ session' \in State /\ session'.force = FALSE
  /\ session'.owed = session.owed /\ session'.caught = session.caught
  /\ session'.watches = ws
  /\ \A x \in ws : session'.cached[x] = HeadSeq(x)
  /\ \A x \in Docs \ ws : session'.cached[x] = Nothing

(* The effect of ReceiveSet is SetServed.                                  *)
LEMMA ReceiveSetEffect ==
  ASSUME Types, ReceiveSet
  PROVE  \E ws, f : SetServed(ws, f)
<1> DEFINE ws == Head(up).watches
           f == Sync("replaced", Upserts(ws), Known \ ws, 0)
<1>1. up # <<>> /\ Head(up).type = "set" /\ up' = Tail(up)
  BY DEF ReceiveSet, Requested
<1>2. Head(up) = up[1] /\ Head(up) \in SetFrames
  BY <1>1, UpHead
<1>3. ws \in SUBSET Docs
  BY <1>2 DEF SetFrames
<1>4. Sent(f) /\ session' = [session EXCEPT !.watches = ws, !.cached = CachedFor(ws), !.force = FALSE]
  BY DEF ReceiveSet, Send, Sent
<1>5. Known \ ws \in SUBSET Docs /\ 0 \in Nat
      /\ "replaced" \in {"effect", "added", "replaced", "opened"}
  BY DEF Known
<1>6. up[1].type = "set" /\ up[1].watches = ws
  BY <1>1, <1>2
<1> HIDE DEF ws
<1>7. /\ f \in DownFrame /\ f.type = "replaced" /\ MarkIn(f) = 0
      /\ \A x : Drops(f, x) <=> x \in Known \ ws
      /\ \A x, s : Raises(f, x, s) <=> x \in ws /\ HeadSeq(x) >= s
      /\ \A x \in ws : f.ups[x] = HeadSeq(x)
  <2> DEFINE rs == Known \ ws
  <2>1. rs \in SUBSET Docs /\ f = Sync("replaced", Upserts(ws), rs, 0)
    BY <1>5
  <2> HIDE DEF f, rs
  <2>2. /\ f \in DownFrame /\ f.type = "replaced" /\ MarkIn(f) = 0
        /\ \A x : Drops(f, x) <=> x \in rs
        /\ \A x, s : Raises(f, x, s) <=> x \in ws /\ HeadSeq(x) >= s
        /\ \A x \in ws : f.ups[x] = HeadSeq(x)
    <3>1. SyncFrame(f, "replaced", ws, rs, 0)
      BY <1>3, <1>5, <2>1, SyncTyped
    <3> QED BY <3>1 DEF SyncFrame
  <2> QED BY <2>2 DEF rs
<1>8. \A x : Drops(f, x) => x \in Docs \ ws
  BY <1>7 DEF Known
<1>9. /\ CachedFor(ws) \in [Docs -> Int]
      /\ \A x \in ws : CachedFor(ws)[x] = HeadSeq(x)
      /\ \A x \in Docs \ ws : CachedFor(ws)[x] = Nothing
  <2>1. \A x \in Docs : HeadSeq(x) \in Int /\ Nothing \in Int
    BY HeadFacts DEF Nothing
  <2> QED BY <1>3, <2>1 DEF CachedFor
<1>10. session \in State
  BY DEF Types
<1>11. /\ session' \in State /\ session'.force = FALSE
       /\ session'.owed = session.owed /\ session'.caught = session.caught
       /\ session'.watches = ws /\ session'.cached = CachedFor(ws)
  BY <1>3, <1>4, <1>9, <1>10 DEF State
<1> HIDE DEF f
<1>12. SetServed(ws, f)
  BY <1>1, <1>3, <1>4, <1>6, <1>7, <1>8, <1>9, <1>11 DEF SetServed
<1> QED BY <1>12

OpenServed(f) ==
  /\ up # <<>> /\ up[1].type = "open" /\ up' = Tail(up) /\ up[1].holdings \in [Docs -> Nat]
  /\ f \in DownFrame /\ f.type = "opened" /\ MarkIn(f) = Top /\ down' = Append(down, f)
  /\ \A x : Drops(f, x) => x \in Docs \ session.watches
  /\ \A x, s : Raises(f, x, s) => x \in session.watches /\ HeadSeq(x) >= s
  /\ \A x : Raises(f, x, 0) => f.ups[x] = HeadSeq(x)
  /\ \A x \in session.watches : up[1].holdings[x] # HeadSeq(x) => \A s : HeadSeq(x) >= s =>
       Raises(f, x, s)
  /\ session' \in State /\ session'.force = FALSE /\ session'.watches = session.watches
  /\ session'.owed = 0 /\ session'.caught = Top
  /\ \A x \in session.watches : session'.cached[x] = HeadSeq(x)
  /\ \A x \in Docs \ session.watches : session'.cached[x] = Nothing
  /\ link' = "live" /\ skipped' = FALSE
  /\ pass' \in Batch /\ pass'.on = pass.on /\ pass'.docs = pass.docs
     /\ pass'.origin = pass.origin
  /\ pass'.served \in BOOLEAN /\ (~pass.on => pass'.served = FALSE)

(* The effect of ReceiveOpen is OpenServed.                                *)
LEMMA ReceiveOpenEffect ==
  ASSUME Types, ReceiveOpen
  PROVE  \E f : OpenServed(f)
<1> DEFINE hs == Head(up).holdings
           told == [d \in Docs |-> IF hs[d] > 0 THEN hs[d] ELSE Nothing]
           sync == FullSync(Declared(session, told))
           mark == Larger(session.caught, session.owed)
           f == Sync("opened", Upserts(sync.ups), sync.rems, mark)
           s == session
           ws == s.watches
<1>1. up # <<>> /\ Head(up).type = "open" /\ up' = Tail(up)
  BY DEF ReceiveOpen, Requested
<1>2. Head(up) = up[1] /\ Head(up) \in OpenFrames
  BY <1>1, UpHead
<1>3. hs \in [Docs -> Nat] /\ up[1].holdings = hs /\ up[1].type = "open"
  BY <1>1, <1>2 DEF OpenFrames
<1>4. /\ session' = [session EXCEPT !.cached = sync.cached, !.force = FALSE, !.caught = mark, !.owed = 0]
      /\ down' = Append(down, f)
      /\ link' = "live" /\ skipped' = FALSE
      /\ \E served \in BOOLEAN : pass' = [pass EXCEPT !.served = pass.on /\ served]
  BY DEF ReceiveOpen
<1>5. /\ session \in State /\ session.watches \in SUBSET Docs /\ session.caught \in Nat /\ session.owed \in Nat
      /\ session.cached \in [Docs -> Int]
  BY DEF Types, State
<1>6. mark = Top /\ mark \in Nat
  BY <1>5 DEF Top, Larger
<1> DEFINE s1 == Declared(session, told)
<1>7. s1.cached = told /\ s1.watches = ws
  BY <1>5 DEF Declared, State
<1> HIDE DEF hs, s1, mark
<1>8. /\ sync.ups = {d \in ws : told[d] # HeadSeq(d)}
      /\ sync.rems = {d \in Docs : told[d] # Nothing} \ ws
      /\ sync.cached = CachedFor(ws)
  BY <1>7 DEF FullSync, Stale, s1
<1>9. \A x \in Docs : HeadSeq(x) \in Nat /\ HeadSeq(x) >= 1 /\ Nothing \in Int
  BY HeadFacts DEF Nothing
<1>10. /\ CachedFor(ws) \in [Docs -> Int]
       /\ \A x \in ws : CachedFor(ws)[x] = HeadSeq(x)
       /\ \A x \in Docs \ ws : CachedFor(ws)[x] = Nothing
  BY <1>5, <1>9 DEF CachedFor
<1>11. \A x \in ws : hs[x] # HeadSeq(x) => x \in sync.ups
  <2>1. \A x \in ws : x \in Docs
    BY <1>5
  <2>2. \A x \in ws : hs[x] # HeadSeq(x) => told[x] # HeadSeq(x)
    BY <1>3, <1>9, <2>1 DEF Nothing
  <2> QED BY <1>8, <2>2
<1>12. sync.ups \in SUBSET ws /\ sync.ups \in SUBSET Docs
       /\ sync.rems \in SUBSET (Docs \ ws) /\ sync.rems \in SUBSET Docs
  BY <1>5, <1>8
<1> DEFINE ups == sync.ups
           rems == sync.rems
<1> HIDE DEF sync
<1>13. /\ f \in DownFrame /\ f.type = "opened" /\ MarkIn(f) = Top
       /\ \A x : Drops(f, x) <=> x \in rems
       /\ \A x, t : Raises(f, x, t) <=> x \in ups /\ HeadSeq(x) >= t
       /\ \A x \in ups : f.ups[x] = HeadSeq(x)
  <2>1. "opened" \in {"effect", "added", "replaced", "opened"} /\ ups \in SUBSET Docs
        /\ rems \in SUBSET Docs
    BY <1>12
  <2>2. f = Sync("opened", Upserts(ups), rems, mark)
    OBVIOUS
  <2> HIDE DEF ups, rems, f
  <2>3. /\ f \in DownFrame /\ f.type = "opened" /\ MarkIn(f) = mark
        /\ \A x : Drops(f, x) <=> x \in rems
        /\ \A x, t : Raises(f, x, t) <=> x \in ups /\ HeadSeq(x) >= t
        /\ \A x \in ups : f.ups[x] = HeadSeq(x)
    <3>1. SyncFrame(f, "opened", ups, rems, mark)
      BY <1>6, <2>1, <2>2, SyncTyped
    <3> QED BY <3>1 DEF SyncFrame
  <2> QED BY <1>6, <2>3 DEF ups, rems
<1> HIDE DEF f
<1>14. /\ session' \in State /\ session'.force = FALSE /\ session'.watches = session.watches
       /\ session'.owed = 0 /\ session'.caught = Top /\ session'.cached = CachedFor(ws)
  <2>1. session' = [session EXCEPT !.cached = CachedFor(ws), !.force = FALSE, !.caught = Top, !.owed = 0]
    BY <1>4, <1>6, <1>8 DEF s1
  <2>2. Top \in Nat
    BY <1>6
  <2> QED BY <1>5, <1>10, <2>1, <2>2 DEF State
<1>15. /\ pass' \in Batch /\ pass'.on = pass.on /\ pass'.docs = pass.docs /\ pass'.origin = pass.origin
       /\ pass'.served \in BOOLEAN /\ (~pass.on => pass'.served = FALSE)
  <2>1. pass \in Batch
    BY DEF Types
  <2>2. PICK served \in BOOLEAN : pass' = [pass EXCEPT !.served = pass.on /\ served]
    BY <1>4
  <2> QED BY <2>1, <2>2 DEF Batch
<1>16. \A x : Raises(f, x, 0) => f.ups[x] = HeadSeq(x)
  BY <1>13
<1>17. /\ \A x : Drops(f, x) => x \in Docs \ session.watches
       /\ \A x, t : Raises(f, x, t) => x \in session.watches /\ HeadSeq(x) >= t
       /\ \A x \in session.watches : up[1].holdings[x] # HeadSeq(x) => \A t :
            HeadSeq(x) >= t => Raises(f, x, t)
  BY <1>3, <1>11, <1>12, <1>13
<1>18. down' = Append(down, f)
  BY <1>4 DEF f, s1, sync, mark
<1>19. OpenServed(f)
  BY <1>1, <1>3, <1>4, <1>10, <1>13, <1>14, <1>15, <1>16, <1>17, <1>18 DEF OpenServed
<1> QED BY <1>19

(* A frame that is sent keeps the type of the wire.                        *)
LEMMA SentTyped ==
  ASSUME Types, NEW f \in DownFrame, Sent(f)
  PROVE  down' \in Seq(DownFrame)
<1>1. down \in Seq(DownFrame)
  BY DEF Types
<1>2. Append(down, f) \in Seq(DownFrame)
  BY <1>1
<1> QED BY <1>1, <1>2 DEF Sent

(* The variables a step leaves alone.                                      *)
LEMMA Unchanged ==
        /\ \A d \in Docs : ForeignCommit(d) =>
             UNCHANGED <<pass, session, skipped, link, up, down, clientVars, bounds>>
        /\ ReceiveCommit => UNCHANGED <<pass, skipped, link, clientVars, bounds>>
        /\ ReceiveAdd => UNCHANGED <<log, dirtyVars, pass, skipped, link, clientVars, bounds>>
        /\ ReceiveSet => UNCHANGED <<log, dirtyVars, pass, skipped, link, clientVars, bounds>>
        /\ ReceiveOpen => UNCHANGED <<log, dirtyVars, clientVars, bounds>>
        /\ Serve => UNCHANGED <<log, dirtyVars, link, up, clientVars, faults, losses, calls>>
        /\ EvaluationFails =>
             UNCHANGED <<log, dirtyVars, link, up, down, clientVars, losses, calls>>
        /\ SendFails => UNCHANGED <<log, up, down, clientVars, losses, calls>>
        /\ \A d \in Docs : \A op \in {"set", "patch"} : Commit(d, op) =>
             UNCHANGED <<log, serverVars, down, conn, wanted, call, held, delivered, marker, bounds>>
        /\ \A n \in DOMAIN mine : Resolve(n) =>
             UNCHANGED <<log, serverVars, up, down, conn, wanted, call, delivered, marker, bounds>>
BY
   DEF ForeignCommit, ReceiveCommit, ReceiveAdd, ReceiveSet, ReceiveOpen, Serve,
       EvaluationFails, SendFails,
       Commit, Resolve, Settle, RepairTimesOut

(* A frame that is absorbed keeps the types of the replica.                *)
LEMMA AbsorbTypes ==
  ASSUME Types, ValueInv, Received, Head(down).type # "verdict", Absorb(Head(down))
  PROVE  /\ down' \in Seq(DownFrame) /\ held' \in [Docs -> Record] /\ delivered' \in [Docs -> Nat]
         /\ marker' \in Nat /\ mine' \in Seq(Own)
<1>1. down # <<>> /\ down' = Tail(down)
  BY DEF Received
<1>2. Head(down) \in Syncs /\ Head(down) = down[1] /\ 1 \in DOMAIN down
      /\ Tail(down) \in Seq(DownFrame)
  BY <1>1, DownHead
<1>3. PICK f \in Syncs : f = Head(down)
  BY <1>2
<1>4. /\ marker' \in Nat /\ Settled(f) /\ delivered' \in [Docs -> Nat] /\ held' \in [Docs -> Record]
  <2>1. f = down[1] /\ Absorb(f)
    BY <1>2, <1>3
  <2> QED BY <1>2, <2>1, AbsorbEffect
<1> QED BY <1>1, <1>2, <1>4 DEF Settled, SameCore

(* The server's actions keep the types.                                    *)
LEMMA TypesServer ==
  ASSUME Types, LogInv, OrderInv,
         \/ \E d \in Docs : ForeignCommit(d)
         \/ ServerStep \/ StartPass \/ Serve \/ EvaluationFails \/ SendFails \/ EndPass
            \/ FailPass \/ Detach
  PROVE  Types'
<1>1. ASSUME NEW d \in Docs, ForeignCommit(d) PROVE Types'
  <2>1. PICK e \in Entry : /\ log' = Append(log, e)
           /\ due' = TRUE /\ dirty' = dirty \union {d} /\ origin' \in [Docs -> Stamp]
    BY <1>1, ForeignCommitEffect
  <2>2. UNCHANGED <<pass, session, skipped, link, up, down, clientVars, bounds>>
    BY <1>1, Unchanged
  <2>3. log' \in Seq(Entry)
    BY <2>1 DEF Types
  <2> QED BY <2>1, <2>2, <2>3 DEF Types, clientVars
<1>2. CASE ReceiveCommit
  <2>1. PICK n, ok, seq : CommitServed(n, ok, seq)
    BY <1>2, ReceiveCommitEffect
  <2>2. UNCHANGED <<pass, skipped, link, clientVars, bounds>>
    BY <1>2, Unchanged
  <2>3. log' \in Seq(Entry)
    <3>1. log' = log \/ \E e \in Entry : log' = Append(log, e)
      BY <2>1 DEF CommitServed, Answered, Accepted, Refused
    <3>2. log \in Seq(Entry)
      BY DEF Types
    <3>3. \A e \in Entry : Append(log, e) \in Seq(Entry)
      BY <3>2
    <3> QED BY <3>1, <3>2, <3>3
  <2>4. up' \in Seq(UpFrame)
    BY <2>1 DEF CommitServed, Types
  <2>5. down' \in Seq(DownFrame)
    <3> DEFINE f == [type |-> "verdict", id |-> n, ok |-> ok, seq |-> seq]
    <3>1. n \in Nat /\ ok \in BOOLEAN /\ seq \in Nat /\ Sent(f)
      BY <2>1, TypeFacts DEF CommitServed, Sent
    <3>2. f \in DownFrame
      BY <3>1 DEF DownFrame, Verdicts
    <3> HIDE DEF f
    <3> QED BY <3>1, <3>2, SentTyped
  <2>6. /\ due' \in BOOLEAN /\ dirty' \in SUBSET Docs /\ origin' \in [Docs -> Stamp] /\ session' \in State
    <3>1. n \in DOMAIN mine /\ due' = TRUE /\ dirty' = dirty \union {mine[n].doc}
          /\ origin' \in [Docs -> Stamp] /\ session' \in State
      BY <2>1 DEF CommitServed
    <3>2. mine[n].doc \in Docs
      BY <3>1, TypeFacts DEF Own
    <3> QED BY <3>1, <3>2 DEF Types
  <2> QED BY <2>2, <2>3, <2>4, <2>5, <2>6 DEF Types, clientVars
<1>3. CASE ReceiveAdd
  <2>1. PICK d, f : AddServed(d, f)
    BY <1>3, ReceiveAddEffect
  <2>2. UNCHANGED <<log, dirtyVars, pass, skipped, link, clientVars, bounds>>
    BY <1>3, Unchanged
  <2>3. up' \in Seq(UpFrame) /\ session' \in State /\ f \in DownFrame /\ Sent(f)
    BY <2>1 DEF AddServed, Types
  <2>4. down' \in Seq(DownFrame)
    BY <2>3, SentTyped
  <2> QED BY <2>2, <2>3, <2>4 DEF Types, clientVars, dirtyVars
<1>4. CASE ReceiveSet
  <2>1. PICK ws, f : SetServed(ws, f)
    BY <1>4, ReceiveSetEffect
  <2>2. UNCHANGED <<log, dirtyVars, pass, skipped, link, clientVars, bounds>>
    BY <1>4, Unchanged
  <2>3. up' \in Seq(UpFrame) /\ session' \in State /\ f \in DownFrame /\ Sent(f)
    BY <2>1 DEF SetServed, Types
  <2>4. down' \in Seq(DownFrame)
    BY <2>3, SentTyped
  <2> QED BY <2>2, <2>3, <2>4 DEF Types, clientVars, dirtyVars
<1>5. CASE ReceiveOpen
  <2>1. PICK f : OpenServed(f)
    BY <1>5, ReceiveOpenEffect
  <2>2. UNCHANGED <<log, dirtyVars, clientVars, bounds>>
    BY <1>5, Unchanged
  <2>3. /\ up' \in Seq(UpFrame) /\ session' \in State /\ f \in DownFrame /\ down' = Append(down, f)
        /\ link' = "live" /\ skipped' = FALSE /\ pass' \in Batch
    BY <2>1 DEF OpenServed, Types
  <2>4. down' \in Seq(DownFrame)
    BY <2>3 DEF Types
  <2> QED BY <2>2, <2>3, <2>4 DEF Types, clientVars, dirtyVars
<1>6. CASE Serve
  <2>1. /\ pass' \in Batch /\ skipped' = FALSE /\ session' = ServedBy.after
        /\ Empty(ServedBy) => down' = down
        /\ ~Empty(ServedBy) => Sent(EffectFrame)
    BY <1>6, ServeEffect
  <2>2. UNCHANGED <<log, dirtyVars, link, up, clientVars, faults, losses, calls>>
    BY <1>6, Unchanged
  <2>3. session' \in State
    BY <2>1, ServedFacts
  <2>4. down' \in Seq(DownFrame)
    <3>1. CASE Empty(ServedBy)
      BY <2>1, <3>1 DEF Types
    <3>2. CASE ~Empty(ServedBy)
      BY <2>1, <3>2, EffectFrameFacts, SentTyped
    <3> QED BY <3>1, <3>2
  <2> QED BY <2>1, <2>2, <2>3, <2>4 DEF Types, clientVars, dirtyVars
<1>7. CASE EvaluationFails
  <2>1. /\ pass' = [pass EXCEPT !.served = TRUE] /\ pass \in Batch
        /\ session' = [session EXCEPT !.force = TRUE] /\ session \in State
        /\ skipped' = TRUE
    BY <1>7 DEF EvaluationFails, Serving, Types
  <2>2. UNCHANGED <<log, dirtyVars, link, up, down, clientVars, losses, calls>>
    BY <1>7, Unchanged
  <2>3. pass' \in Batch /\ session' \in State
    BY <2>1 DEF Batch, State
  <2> QED BY <2>1, <2>2, <2>3 DEF Types, clientVars, dirtyVars
<1>8. CASE SendFails
  <2>1. /\ pass' \in Batch /\ skipped' = FALSE /\ session' \in State
        /\ due' = TRUE /\ dirty' \in SUBSET Docs /\ origin' \in [Docs -> Stamp]
        /\ link' = link \/ (link = "dead" /\ link' = "none")
    BY <1>8, SendFailsEffect
  <2>2. UNCHANGED <<log, up, down, clientVars, losses, calls>>
    BY <1>8, Unchanged
  <2> QED BY <2>1, <2>2 DEF Types, clientVars
<1>9. CASE StartPass
  <2>1. /\ due' = FALSE /\ dirty' = {} /\ origin' = [d \in Docs |-> NoOrigin]
        /\ pass' = [on |-> TRUE, docs |-> dirty, origin |-> origin, served |-> FALSE]
        /\ UNCHANGED <<log, session, skipped, link, up, down, clientVars, bounds>>
    BY <1>9 DEF StartPass
  <2>2. origin' \in [Docs -> Stamp]
    BY <2>1, NoPassTyped
  <2>3. pass' \in Batch
    BY <2>1 DEF Batch, Types
  <2> QED BY <2>1, <2>2, <2>3 DEF Types, clientVars
<1>10. CASE EndPass
  <2>1. /\ pass' = NoPass
        /\ UNCHANGED <<log, dirtyVars, session, skipped, link, up, down, clientVars, bounds>>
    BY <1>10 DEF EndPass
  <2> QED BY <2>1, NoPassTyped DEF Types, clientVars, dirtyVars
<1>11. CASE FailPass
  <2>1. /\ pass' = NoPass /\ due' = TRUE /\ dirty' \in SUBSET Docs
           /\ origin' \in [Docs -> Stamp]
    BY <1>11, FailPassEffect
  <2>2. UNCHANGED <<log, session, skipped, link, up, down, clientVars, losses, calls>>
    BY <1>11 DEF FailPass
  <2> QED BY <2>1, <2>2, NoPassTyped DEF Types, clientVars
<1>12. CASE Detach
  <2>1. /\ link' = "none"
        /\ UNCHANGED <<log, dirtyVars, pass, session, skipped, up, down, clientVars, bounds>>
    BY <1>12 DEF Detach
  <2> QED BY <2>1 DEF Types, clientVars, dirtyVars
<1> QED BY <1>1, <1>2, <1>3, <1>4, <1>5, <1>6, <1>7, <1>8, <1>9, <1>10, <1>11, <1>12
           DEF ServerStep

(* The client's actions keep the types.                                    *)
LEMMA TypesClient ==
  ASSUME Types, OrderInv, AnswerInv, ValueInv,
         \/ \E d \in Docs : \E op \in {"set", "patch"} : Commit(d, op)
         \/ Lose \/ Reconnect \/ Call \/ Effect \/ CallAnswered \/ Restored \/ Verdict
         \/ \E n \in DOMAIN mine : Resolve(n)
  PROVE  Types'
<1>1. ASSUME NEW d \in Docs, NEW op \in {"set", "patch"}, Commit(d, op) PROVE Types'
  <2> DEFINE n == Len(mine) + 1
  <2>1. /\ mine' \in Seq(Own) /\ CommitFrame(mine', n) \in CommitFrames
        /\ conn # "up" => up' = up
        /\ conn = "up" => up' = Append(up, CommitFrame(mine', n))
    BY <1>1, CommitEffect
  <2>2. UNCHANGED <<log, serverVars, down, conn, wanted, call, held, delivered, marker, bounds>>
    BY <1>1, Unchanged
  <2>3. up' \in Seq(UpFrame)
    <3>1. CommitFrame(mine', n) \in UpFrame /\ up \in Seq(UpFrame)
      BY <2>1 DEF UpFrame, Types
    <3> QED BY <2>1, <3>1
  <2> QED BY <2>1, <2>2, <2>3 DEF Types, serverVars, dirtyVars
<1>2. CASE Lose
  <2>1. /\ conn' = "down" /\ up' = <<>> /\ down' = <<>> /\ call' = NoCall
        /\ link' = IF link = "live" THEN "dead" ELSE link
        /\ UNCHANGED <<log, dirtyVars, pass, session, skipped, wanted, held, delivered,
                 marker, mine, faults, calls>>
    BY <1>2 DEF Lose
  <2>2. call' \in Calls /\ up' \in Seq(UpFrame) /\ down' \in Seq(DownFrame)
    BY <2>1 DEF Calls
  <2> QED BY <2>1, <2>2 DEF Types, dirtyVars
<1>3. CASE Reconnect
  <2>1. /\ conn' = "opening" /\ up' = <<[type |-> "open", holdings |-> delivered]>>
        /\ UNCHANGED <<log, serverVars, down, wanted, call, held, delivered, marker, mine, bounds>>
    BY <1>3 DEF Reconnect
  <2>2. up' \in Seq(UpFrame)
    <3>1. [type |-> "open", holdings |-> delivered] \in UpFrame
      BY DEF Types, UpFrame, OpenFrames
    <3> QED BY <2>1, <3>1
  <2> QED BY <2>1, <2>2 DEF Types, serverVars, dirtyVars
<1>4. CASE Call
  <2>1. UNCHANGED <<log, serverVars, down, conn, held, delivered, marker, mine, faults, losses>>
    BY <1>4 DEF Call
  <2>2. up \in Seq(UpFrame) /\ wanted \in SUBSET Docs
    BY DEF Types
  <2>3. up' \in Seq(UpFrame) /\ call' \in Calls /\ wanted' \in SUBSET Docs
    <3>1. ASSUME NEW d \in Docs, call' = [op |-> "add", doc |-> d],
                 up' = Append(up, [type |-> "add", doc |-> d]), wanted' = wanted
          PROVE  up' \in Seq(UpFrame) /\ call' \in Calls /\ wanted' \in SUBSET Docs
      <4>1. [type |-> "add", doc |-> d] \in UpFrame
        BY DEF UpFrame, AddFrames
      <4> QED BY <2>2, <3>1, <4>1 DEF Calls
    <3>2. ASSUME NEW d \in Docs, call' = [op |-> "remove", doc |-> d],
                 up' = Append(up, [type |-> "set", watches |-> wanted']), wanted' = wanted \ {d}
          PROVE  up' \in Seq(UpFrame) /\ call' \in Calls /\ wanted' \in SUBSET Docs
      <4>1. wanted' \in SUBSET Docs
        BY <2>2, <3>2
      <4>2. [type |-> "set", watches |-> wanted'] \in UpFrame
        BY <4>1 DEF UpFrame, SetFrames
      <4> QED BY <2>2, <3>2, <4>1, <4>2 DEF Calls
    <3> QED BY <1>4, <2>2, <3>1, <3>2 DEF Call
  <2> QED BY <2>1, <2>3 DEF Types, serverVars, dirtyVars
<1>5. CASE Effect
  <2>1. Received /\ Head(down).type # "verdict" /\ Absorb(Head(down))
        /\ UNCHANGED <<log, serverVars, up, conn, wanted, call, bounds>>
    BY <1>5 DEF Effect
  <2>2. /\ down' \in Seq(DownFrame) /\ held' \in [Docs -> Record] /\ delivered' \in [Docs -> Nat]
        /\ marker' \in Nat /\ mine' \in Seq(Own)
    BY <2>1, AbsorbTypes
  <2> QED BY <2>1, <2>2 DEF Types, serverVars, dirtyVars
<1>6. CASE CallAnswered
  <2>1. Received /\ Head(down).type # "verdict" /\ Absorb(Head(down))
        /\ wanted' = (IF call.op = "add" THEN wanted \union {call.doc} ELSE wanted)
        /\ call' = NoCall
        /\ UNCHANGED <<log, serverVars, up, conn, bounds>>
    BY <1>6 DEF CallAnswered
  <2>2. /\ down' \in Seq(DownFrame) /\ held' \in [Docs -> Record] /\ delivered' \in [Docs -> Nat]
        /\ marker' \in Nat /\ mine' \in Seq(Own)
    BY <2>1, AbsorbTypes
  <2>3. wanted' \in SUBSET Docs /\ call' \in Calls
    <3>1. call \in Calls /\ wanted \in SUBSET Docs
      BY DEF Types
    <3>2. call.op = "add" => call.doc \in Docs
      BY <3>1 DEF Calls, NoCall
    <3> QED BY <2>1, <3>1, <3>2 DEF Calls
  <2> QED BY <2>1, <2>2, <2>3 DEF Types, serverVars, dirtyVars
<1>7. CASE Restored
  <2>1. Received /\ Head(down).type # "verdict" /\ Absorb(Head(down))
        /\ conn' = "up"
        /\ up' = up \o [i \in DOMAIN Outstanding |-> CommitFrame(mine, Outstanding[i])]
        /\ UNCHANGED <<log, serverVars, wanted, call, bounds>>
    BY <1>7 DEF Restored
  <2>2. /\ down' \in Seq(DownFrame) /\ held' \in [Docs -> Record] /\ delivered' \in [Docs -> Nat]
        /\ marker' \in Nat /\ mine' \in Seq(Own)
    BY <2>1, AbsorbTypes
  <2>3. up' \in Seq(UpFrame)
    <3> DEFINE fs == [i \in DOMAIN Outstanding |-> CommitFrame(mine, Outstanding[i])]
    <3>1. Outstanding \in Seq(DOMAIN mine) /\ up \in Seq(UpFrame)
      BY OutstandingFacts DEF Types
    <3>2. \A n \in DOMAIN mine : CommitFrame(mine, n) \in UpFrame
      <4> TAKE n \in DOMAIN mine
      <4>1. mine[n] \in Own /\ n \in Nat
        BY TypeFacts
      <4> QED BY <4>1 DEF CommitFrame, UpFrame, CommitFrames, Own
    <3>3. fs \in Seq(UpFrame)
      BY <3>1, <3>2
    <3> HIDE DEF fs
    <3> QED BY <2>1, <3>1, <3>3, ConcatFacts DEF fs
  <2> QED BY <2>1, <2>2, <2>3 DEF Types, serverVars, dirtyVars
<1>8. CASE Verdict
  <2>1. UNCHANGED <<log, serverVars, up, conn, wanted, call, held, delivered, marker, bounds>>
    BY <1>8 DEF Verdict
  <2>2. mine' \in Seq(Own)
    BY <1>8, VerdictEffect DEF SameCore
  <2>3. down' \in Seq(DownFrame)
    BY <1>8, DownHead DEF Verdict, Received
  <2> QED BY <2>1, <2>2, <2>3 DEF Types, serverVars, dirtyVars
<1>9. ASSUME NEW n \in DOMAIN mine, Resolve(n) PROVE Types'
  <2>1. UNCHANGED <<log, serverVars, up, down, conn, wanted, call, delivered, marker, bounds>>
    BY <1>9, Unchanged
  <2>2. mine' \in Seq(Own) /\ held' \in [Docs -> Record]
    BY <1>9, ResolveEffect DEF SameCore
  <2> QED BY <2>1, <2>2 DEF Types, serverVars, dirtyVars
<1> QED BY <1>1, <1>2, <1>3, <1>4, <1>5, <1>6, <1>7, <1>8, <1>9

(* The steps of the server that send nothing.                              *)
Inner == \/ \E d \in Docs : ForeignCommit(d)
         \/ StartPass \/ EvaluationFails \/ SendFails \/ EndPass \/ FailPass \/ Detach
ClientKept == UNCHANGED <<up, down, conn, wanted, call, held, delivered, marker, mine>>

(* Inner actions leave the client, the wire and the watches.               *)
LEMMA InnerFacts ==
  ASSUME Types, Inner
  PROVE  ClientKept /\ (Live' <=> Live) /\ session'.watches = session.watches
<1>1. ASSUME NEW d \in Docs, ForeignCommit(d)
      PROVE  ClientKept /\ (Live' <=> Live) /\ session'.watches = session.watches
  BY <1>1 DEF ForeignCommit, ClientKept, clientVars, Live
<1>2. CASE StartPass
  BY <1>2 DEF StartPass, ClientKept, clientVars, Live
<1>3. CASE EvaluationFails
  <2>1. session' = [session EXCEPT !.force = TRUE] /\ session \in State
    BY <1>3 DEF EvaluationFails, Types
  <2>2. session'.watches = session.watches
    BY <2>1 DEF State
  <2> QED BY <1>3, <2>2 DEF EvaluationFails, ClientKept, clientVars, Live
<1>4. CASE SendFails
  <2>1. session'.watches = session.watches
        /\ (link' = link \/ (link = "dead" /\ link' = "none"))
    BY <1>4, SendFailsEffect
  <2>2. UNCHANGED <<log, up, down, clientVars, losses, calls>>
    BY <1>4, Unchanged
  <2> QED BY <2>1, <2>2 DEF ClientKept, clientVars, Live
<1>5. CASE EndPass
  BY <1>5 DEF EndPass, ClientKept, clientVars, Live
<1>6. CASE FailPass
  BY <1>6 DEF FailPass, ClientKept, clientVars, Live
<1>7. CASE Detach
  BY <1>7 DEF Detach, ClientKept, clientVars, Live
<1> QED BY <1>1, <1>2, <1>3, <1>4, <1>5, <1>6, <1>7 DEF Inner

(* What is received of a connection that is up.                            *)
LEMMA Connected ==
  ASSUME Types, LinkInv
  PROVE  /\ down # <<>> /\ down[1].type # "opened" => conn = "up" /\ Live
         /\ down # <<>> /\ down[1].type = "opened" => conn = "opening" /\ Live /\ up = <<>>
         /\ up # <<>> /\ up[1].type # "open" => conn = "up" /\ Live
         /\ up # <<>> /\ up[1].type = "open" =>
              /\ conn = "opening" /\ ~Live /\ down = <<>> /\ call = NoCall
              /\ up = <<[type |-> "open", holdings |-> delivered]>>
         /\ Live => conn # "down"
         /\ Live => \A i \in DOMAIN up : up[i].type # "open"
         /\ call # NoCall => conn = "up" /\ Live
<1>1. conn \in {"up", "down", "opening"} /\ up \in Seq(UpFrame) /\ down \in Seq(DownFrame)
  BY DEF Types
<1>2. /\ down # <<>> => 1 \in DOMAIN down
      /\ up # <<>> => 1 \in DOMAIN up
  BY <1>1
<1> QED BY <1>1, <1>2 DEF LinkInv

(* A frame sent on a live connection, other than the answer to an open.    *)
LEMMA LinkSent ==
  ASSUME Types, LinkInv, NEW f \in DownFrame, f.type # "opened", Sent(f) \/ down' = down,
         Live' <=> Live, UNCHANGED <<conn, call, delivered>>,
         up' = up \/ (up' = Tail(up) /\ up # <<>> /\ up[1].type # "open")
  PROVE  LinkInv'
<1>1. up \in Seq(UpFrame) /\ down \in Seq(DownFrame)
  BY DEF Types
<1>2. /\ ~Live => down' = down
      /\ \A k \in DOMAIN down' : (k \in DOMAIN down /\ down'[k] = down[k]) \/ down'[k] = f
      /\ down # <<>> => down' # <<>> /\ down'[1] = down[1]
  <2>1. CASE down' = down
    BY <2>1
  <2>2. CASE Live /\ down' = Append(down, f)
    <3>1. down # <<>> => 1 \in DOMAIN down
      BY <1>1
    <3> QED BY <1>1, <2>2, <3>1, AppendFacts
  <2> QED BY <2>1, <2>2 DEF Sent, Live
<1>3. CASE up' = up
  BY <1>1, <1>2, <1>3 DEF LinkInv, Live
<1>4. CASE up' = Tail(up) /\ up # <<>> /\ up[1].type # "open"
  <2>1. conn = "up" /\ Live
    BY <1>4, Connected
  <2>2. \A i \in DOMAIN up' : i + 1 \in DOMAIN up /\ up'[i] = up[i + 1]
    BY <1>1, <1>4, TailFacts
  <2> QED BY <1>1, <1>2, <2>1, <2>2 DEF LinkInv, Live
<1> QED BY <1>3, <1>4

(* A frame received, other than the answer to an open.                     *)
LEMMA LinkReceived ==
  ASSUME Types, LinkInv, down # <<>>, down[1].type # "opened", down' = Tail(down),
         UNCHANGED <<conn, up, link>>
  PROVE  LinkInv'
<1>1. conn = "up" /\ Live /\ down \in Seq(DownFrame)
  BY Connected DEF Types
<1>2. \A i \in DOMAIN down' : i \in Nat \ {0} /\ i + 1 \in DOMAIN down /\ down'[i] = down[i + 1]
  BY <1>1, TailFacts
<1>3. \A i \in DOMAIN down' : down'[i].type # "opened"
  <2>1. \A i \in Nat \ {0} : i + 1 # 1
    OBVIOUS
  <2> QED BY <1>2, <2>1 DEF LinkInv
<1> QED BY <1>1, <1>3 DEF LinkInv, Live

(* Every step keeps what can be on the connection.                         *)
LEMMA LinkStep == ASSUME DeliveryInv, Next PROVE LinkInv'
<1>0. Types /\ LinkInv /\ OrderInv /\ LogInv /\ AnswerInv
  BY DEF DeliveryInv
<1>1. CASE Inner
  <2>1. UNCHANGED <<up, down, conn, call, delivered>> /\ (Live' <=> Live)
    BY <1>0, <1>1, InnerFacts DEF ClientKept
  <2> QED BY <1>0, <2>1 DEF LinkInv
<1>2. CASE ReceiveCommit
  <2>1. PICK n, ok, seq : CommitServed(n, ok, seq)
    BY <1>0, <1>2, ReceiveCommitEffect
  <2> DEFINE f == [type |-> "verdict", id |-> n, ok |-> ok, seq |-> seq]
  <2>2. UNCHANGED <<pass, skipped, link, clientVars, bounds>>
    BY <1>2, Unchanged
  <2>3. f \in DownFrame
    <3>1. n \in Nat /\ ok \in BOOLEAN /\ seq \in Nat
      BY <1>0, <2>1, TypeFacts DEF CommitServed
    <3> QED BY <3>1 DEF DownFrame, Verdicts
  <2>4. f.type # "opened"
    OBVIOUS
  <2>5. Sent(f) /\ up' = Tail(up) /\ up # <<>> /\ up[1].type # "open"
    BY <2>1 DEF CommitServed, Sent
  <2> HIDE DEF f
  <2> QED BY <1>0, <2>2, <2>3, <2>4, <2>5, LinkSent DEF clientVars, Live
<1>3. CASE ReceiveAdd
  <2>1. PICK d, f : AddServed(d, f)
    BY <1>0, <1>3, ReceiveAddEffect
  <2>2. UNCHANGED <<log, dirtyVars, pass, skipped, link, clientVars, bounds>>
    BY <1>3, Unchanged
  <2>3. Sent(f) /\ up' = Tail(up) /\ up # <<>> /\ up[1].type # "open" /\ f \in DownFrame
        /\ f.type # "opened"
    BY <2>1 DEF AddServed
  <2> QED BY <1>0, <2>2, <2>3, LinkSent DEF clientVars, Live
<1>4. CASE ReceiveSet
  <2>1. PICK ws, f : SetServed(ws, f)
    BY <1>0, <1>4, ReceiveSetEffect
  <2>2. UNCHANGED <<log, dirtyVars, pass, skipped, link, clientVars, bounds>>
    BY <1>4, Unchanged
  <2>3. Sent(f) /\ up' = Tail(up) /\ up # <<>> /\ up[1].type # "open" /\ f \in DownFrame
        /\ f.type # "opened"
    BY <2>1 DEF SetServed
  <2> QED BY <1>0, <2>2, <2>3, LinkSent DEF clientVars, Live
<1>5. CASE ReceiveOpen
  <2>1. PICK f : OpenServed(f)
    BY <1>0, <1>5, ReceiveOpenEffect
  <2>2. UNCHANGED <<log, dirtyVars, clientVars, bounds>>
    BY <1>5, Unchanged
  <2>3. /\ up # <<>> /\ up[1].type = "open" /\ up' = Tail(up) /\ down' = Append(down, f)
        /\ f \in DownFrame /\ f.type = "opened" /\ link' = "live"
    BY <2>1 DEF OpenServed
  <2>4. /\ conn = "opening" /\ ~Live /\ down = <<>> /\ call = NoCall
        /\ up = <<[type |-> "open", holdings |-> delivered]>>
    BY <1>0, <2>3, Connected
  <2>5. up' = <<>> /\ down' = <<f>> /\ down' # <<>> /\ down'[1] = f
        /\ \A k \in DOMAIN down' : k = 1
    BY <2>3, <2>4
  <2> QED BY <2>2, <2>3, <2>4, <2>5 DEF LinkInv, Live, clientVars
<1>6. CASE Serve
  <2>1. Sent(EffectFrame) \/ down' = down
    BY <1>0, <1>6, ServeEffect
  <2>2. UNCHANGED <<log, dirtyVars, link, up, clientVars, faults, losses, calls>>
    BY <1>6, Unchanged
  <2>3. EffectFrame \in DownFrame /\ EffectFrame.type # "opened"
    BY <1>0, EffectFrameFacts
  <2> QED BY <1>0, <2>1, <2>2, <2>3, LinkSent DEF clientVars, Live
<1>7. ASSUME NEW d \in Docs, NEW op \in {"set", "patch"}, Commit(d, op) PROVE LinkInv'
  <2> DEFINE n == Len(mine) + 1
  <2>1. /\ CommitFrame(mine', n) \in CommitFrames
        /\ conn # "up" => up' = up
        /\ conn = "up" => up' = Append(up, CommitFrame(mine', n))
    BY <1>0, <1>7, CommitEffect
  <2>2. UNCHANGED <<log, serverVars, down, conn, wanted, call, held, delivered, marker, bounds>>
    BY <1>7, Unchanged
  <2>3. CASE conn # "up"
    BY <1>0, <2>1, <2>2, <2>3 DEF LinkInv, Live, serverVars
  <2>4. CASE conn = "up"
    <3>1. \A i \in DOMAIN up' : up'[i].type # "open"
      <4>1. up \in Seq(UpFrame) /\ CommitFrame(mine', n).type = "commit"
        BY <1>0, <2>1 DEF Types, CommitFrames
      <4>2. PICK g : g = CommitFrame(mine', n)
        OBVIOUS
      <4>3. \A i \in DOMAIN up' : (i \in DOMAIN up /\ up'[i] = up[i]) \/ up'[i] = g
        BY <2>1, <2>4, <4>1, <4>2
      <4> QED BY <1>0, <2>4, <4>1, <4>2, <4>3 DEF LinkInv
    <3> QED BY <1>0, <2>2, <2>4, <3>1 DEF LinkInv, Live, serverVars
  <2> QED BY <2>3, <2>4
<1>8. CASE Lose
  <2>1. conn' = "down" /\ up' = <<>> /\ down' = <<>> /\ call' = NoCall /\ link' # "live"
    BY <1>8 DEF Lose
  <2> QED BY <2>1 DEF LinkInv, Live
<1>9. CASE Reconnect
  <2>1. /\ conn = "down" /\ conn' = "opening" /\ up' = <<[type |-> "open", holdings |-> delivered]>>
        /\ UNCHANGED <<link, down, call, delivered>>
    BY <1>9 DEF Reconnect, serverVars
  <2> QED BY <1>0, <2>1 DEF LinkInv, Live
<1>10. CASE Call
  <2>1. conn = "up" /\ UNCHANGED <<conn, link, down, delivered>> /\ up \in Seq(UpFrame)
    BY <1>0, <1>10 DEF Call, serverVars, Types
  <2>2. PICK g : up' = Append(up, g) /\ g.type # "open"
    <3>1. \A d : [type |-> "add", doc |-> d].type = "add" /\ [type |-> "set", watches |-> d].type = "set"
      OBVIOUS
    <3>2. \E g : up' = Append(up, g) /\ g.type \in {"add", "set"}
      BY <1>10, <3>1 DEF Call
    <3> QED BY <3>2
  <2>3. \A i \in DOMAIN up' : (i \in DOMAIN up /\ up'[i] = up[i]) \/ up'[i] = g
    BY <2>1, <2>2
  <2> QED BY <1>0, <2>1, <2>2, <2>3 DEF LinkInv, Live
<1>11. CASE Effect
  <2>1. down # <<>> /\ down' = Tail(down) /\ Head(down).type = "effect"
        /\ UNCHANGED <<conn, up, link>>
    BY <1>11 DEF Effect, Received, serverVars
  <2> QED BY <1>0, <2>1, LinkReceived, DownHead
<1>12. CASE CallAnswered
  <2>1. down # <<>> /\ down' = Tail(down) /\ Head(down).type # "opened"
        /\ UNCHANGED <<conn, up, link>>
    BY <1>12 DEF CallAnswered, Received, serverVars
  <2> QED BY <1>0, <2>1, LinkReceived, DownHead
<1>13. CASE Verdict
  <2>1. down # <<>> /\ down' = Tail(down) /\ Head(down).type = "verdict"
        /\ UNCHANGED <<conn, up, link>>
    BY <1>13 DEF Verdict, Received, serverVars
  <2> QED BY <1>0, <2>1, LinkReceived, DownHead
<1>14. CASE Restored
  <2>1. /\ down # <<>> /\ down' = Tail(down) /\ Head(down).type = "opened" /\ UNCHANGED <<link, call>>
        /\ conn' = "up"
           /\ up' = up \o [i \in DOMAIN Outstanding |-> CommitFrame(mine, Outstanding[i])]
    BY <1>14 DEF Restored, Received, serverVars
  <2>2. down[1].type = "opened" /\ down \in Seq(DownFrame)
    BY <1>0, <2>1, DownHead DEF Types
  <2>3. conn = "opening" /\ Live /\ up = <<>>
    BY <1>0, <2>1, <2>2, Connected
  <2> DEFINE fs == [i \in DOMAIN Outstanding |-> CommitFrame(mine, Outstanding[i])]
  <2>4. Outstanding \in Seq(DOMAIN mine)
    BY <1>0, OutstandingFacts
  <2>5. fs \in Seq({CommitFrame(mine, n) : n \in DOMAIN mine})
    BY <2>4
  <2>6. \A i \in DOMAIN fs : fs[i].type = "commit"
    BY DEF CommitFrame
  <2> HIDE DEF fs
  <2>7. up' = fs
    <3>1. up' = <<>> \o fs
      BY <2>1, <2>3 DEF fs
    <3> QED BY <2>5, <3>1
  <2>8. \A i \in DOMAIN up' : up'[i].type # "open"
    BY <2>6, <2>7
  <2>9. \A i \in DOMAIN down' :
          i \in Nat \ {0} /\ i + 1 \in DOMAIN down /\ down'[i] = down[i + 1]
    BY <2>1, <2>2, TailFacts
  <2>10. \A i \in DOMAIN down' : down'[i].type # "opened"
    <3>1. \A i \in Nat \ {0} : i + 1 # 1
      OBVIOUS
    <3> QED BY <1>0, <2>9, <3>1 DEF LinkInv
  <2> QED BY <2>1, <2>3, <2>8, <2>10 DEF LinkInv, Live
<1>15. ASSUME NEW n \in DOMAIN mine, Resolve(n) PROVE LinkInv'
  <2>1. UNCHANGED <<log, serverVars, up, down, conn, wanted, call, delivered, marker, bounds>>
    BY <1>15, Unchanged
  <2> QED BY <1>0, <2>1 DEF LinkInv, Live, serverVars
<1> QED BY <1>1, <1>2, <1>3, <1>4, <1>5, <1>6, <1>7, <1>8, <1>9, <1>10, <1>11, <1>12,
           <1>13, <1>14, <1>15
        DEF Next, ServerStep, Inner

(* The steps of the client leave the server as it is.                      *)
Outer == \/ \E d \in Docs : \E op \in {"set", "patch"} : Commit(d, op)
         \/ Lose \/ Reconnect \/ Call \/ Effect \/ CallAnswered \/ Restored \/ Verdict
         \/ \E n \in DOMAIN mine : Resolve(n)

(* Outer actions leave the server.                                         *)
LEMMA OuterFacts ==
  ASSUME Outer
  PROVE  UNCHANGED <<log, due, dirty, origin, pass, session, skipped>> /\ (Live' => Live)
<1>1. UNCHANGED <<log, due, dirty, origin, pass, session, skipped>>
  BY
     DEF Outer, Commit, Lose, Reconnect, Call, Effect, CallAnswered, Restored, Verdict,
         Resolve, Settle, RepairTimesOut,
         serverVars, dirtyVars
<1>2. Live' => Live
  BY
     DEF Outer, Commit, Lose, Reconnect, Call, Effect, CallAnswered, Restored, Verdict,
         Resolve, Settle, RepairTimesOut,
         serverVars, Live
<1> QED BY <1>1, <1>2

(* Every step keeps the batch.                                             *)
LEMMA BatchStep == ASSUME DeliveryInv, Next PROVE BatchInv'
<1>0. Types /\ LinkInv /\ BatchInv /\ OrderInv /\ LogInv
  BY DEF DeliveryInv
<1>1. ASSUME NEW d \in Docs, ForeignCommit(d) PROVE BatchInv'
  <2>1. /\ due' = TRUE /\ dirty' = dirty \union {d}
        /\ \A x \in Docs : origin'[x] \in {NoOrigin, origin[x]}
    BY <1>0, <1>1, ForeignCommitEffect
  <2>2. pass' = pass
    BY <1>1 DEF ForeignCommit
  <2> QED BY <1>0, <2>1, <2>2 DEF BatchInv
<1>2. CASE ReceiveCommit
  <2>1. PICK n, ok, seq : CommitServed(n, ok, seq)
    BY <1>0, <1>2, ReceiveCommitEffect
  <2>2. /\ due' = TRUE /\ dirty' = dirty \union {mine[n].doc}
        /\ \A d \in Docs : d # mine[n].doc => origin'[d] = origin[d]
    BY <2>1 DEF CommitServed
  <2>3. pass' = pass
    BY <1>2 DEF ReceiveCommit
  <2> QED BY <1>0, <2>2, <2>3 DEF BatchInv
<1>3. CASE ReceiveAdd \/ ReceiveSet
  BY <1>0, <1>3 DEF ReceiveAdd, ReceiveSet, dirtyVars, BatchInv
<1>4. CASE ReceiveOpen
  <2>1. UNCHANGED <<due, dirty, origin>>
        /\ \E served \in BOOLEAN : pass' = [pass EXCEPT !.served = pass.on /\ served]
    BY <1>4 DEF ReceiveOpen, dirtyVars
  <2>2. pass \in Batch
    BY <1>0 DEF Types
  <2>3. ~pass'.on => pass' = NoPass
    <3>1. pass'.on = pass.on
      BY <2>1, <2>2 DEF Batch
    <3>2. ~pass.on => /\ pass = NoPass /\ pass' = [pass EXCEPT !.served = pass.served]
      <4>1. NoPass.served = FALSE
        BY DEF NoPass
      <4> QED BY <1>0, <2>1, <4>1 DEF BatchInv
    <3>3. [pass EXCEPT !.served = pass.served] = pass
      BY <2>2 DEF Batch
    <3> QED BY <3>1, <3>2, <3>3
  <2> QED BY <1>0, <2>1, <2>3 DEF BatchInv
<1>5. CASE Serve
  <2>1. pass.on /\ pass'.on = pass.on
    BY <1>0, <1>5, ServeEffect
  <2> QED BY <1>0, <1>5, <2>1 DEF Serve, dirtyVars, BatchInv
<1>6. CASE EvaluationFails
  <2>1. pass' = [pass EXCEPT !.served = TRUE] /\ pass \in Batch /\ pass.on
    BY <1>0, <1>6 DEF EvaluationFails, Serving, Types
  <2>2. pass'.on
    BY <2>1 DEF Batch
  <2> QED BY <1>0, <1>6, <2>2 DEF EvaluationFails, dirtyVars, BatchInv
<1>7. CASE SendFails
  <2>1. /\ pass.on /\ pass'.on = pass.on
        /\ due' = TRUE /\ dirty' = dirty \union (ServedBy.ups \union ServedBy.rems)
        /\ \A d \in Docs : origin'[d] \in {NoOrigin, origin[d]}
    BY <1>0, <1>7, SendFailsEffect
  <2> QED BY <1>0, <2>1 DEF BatchInv
<1>8. CASE StartPass
  <2>1. dirty' = {} /\ origin' = [d \in Docs |-> NoOrigin] /\ pass'.on
    BY <1>8 DEF StartPass
  <2> QED BY <2>1 DEF BatchInv
<1>9. CASE EndPass
  BY <1>0, <1>9 DEF EndPass, dirtyVars, BatchInv
<1>10. CASE FailPass
  <2>1. /\ pass' = NoPass /\ due' = TRUE /\ dirty' = dirty \union pass.docs
        /\ \A d \in Docs : d \notin pass.docs => origin'[d] = origin[d]
    BY <1>0, <1>10, FailPassEffect
  <2> QED BY <1>0, <2>1 DEF BatchInv
<1>11. CASE Detach
  BY <1>0, <1>11 DEF Detach, dirtyVars, BatchInv
<1>12. CASE Outer
  <2>1. UNCHANGED <<due, dirty, origin, pass>>
    BY <1>12, OuterFacts
  <2> QED BY <1>0, <2>1 DEF BatchInv
<1> QED BY <1>1, <1>2, <1>3, <1>4, <1>5, <1>6, <1>7, <1>8, <1>9, <1>10, <1>11, <1>12
        DEF Next, ServerStep, Outer

(* What a step makes of the frames in flight.                              *)
LEMMA SentFrames ==
  ASSUME Types, NEW f \in DownFrame, Sent(f) \/ down' = down
  PROVE  /\ \A k \in DOMAIN down' : (k \in DOMAIN down /\ down'[k] = down[k])
                                    \/ (Live /\ k = End + 1 /\ End' = End + 1 /\ down'[k] = f)
         /\ \A k \in DOMAIN down : k \in DOMAIN down' /\ down'[k] = down[k]
         /\ End' \in {End, End + 1} /\ End \in Nat
<1>1. down \in Seq(DownFrame) /\ End \in Nat /\ DOMAIN down = 1..End
  BY TypeFacts DEF Types
<1>2. CASE down' = down
  BY <1>1, <1>2 DEF End
<1>3. CASE Live /\ down' = Append(down, f)
  <2>1. End' = End + 1
    <3>1. Len(Append(down, f)) = Len(down) + 1
      BY <1>1
    <3> QED BY <1>3, <3>1 DEF End
  <2>2. \A k \in DOMAIN down' : k \in DOMAIN down \/ k = Len(down) + 1
    BY <1>1, <1>3, AppendFacts
  <2>3. /\ \A k \in DOMAIN down : k \in DOMAIN down' /\ down'[k] = down[k]
        /\ down'[Len(down) + 1] = f
    BY <1>1, <1>3, AppendFacts
  <2> QED BY <1>1, <1>3, <2>1, <2>2, <2>3 DEF End
<1> QED BY <1>2, <1>3 DEF Sent, Live

(* The frames behind the one received move up.                             *)
LEMMA ReceivedFrames ==
  ASSUME Types, down # <<>>, down' = Tail(down)
  PROVE  /\ \A k \in DOMAIN down' : k \in Nat \ {0} /\ k + 1 \in DOMAIN down /\ down'[k] = down[k + 1]
         /\ \A k \in DOMAIN down : k \in Nat \ {0} /\ (k # 1 => k - 1 \in DOMAIN down')
         /\ 1 \in DOMAIN down /\ Head(down) = down[1] /\ End' = End - 1 /\ End \in Nat \ {0}
<1>1. down \in Seq(DownFrame) /\ End \in Nat /\ DOMAIN down = 1..End
  BY TypeFacts DEF Types
<1>2. End' = End - 1 /\ End # 0
  BY <1>1 DEF End
<1> QED BY <1>1, <1>2, TailFacts

(* Frames that leave, and new ones that are neither calls nor answers,     *)
(* keep the call where it is.                                              *)
LEMMA CallKept ==
  ASSUME CallInv, UNCHANGED <<call, wanted>>, session'.watches = session.watches,
         NEW u \in {0, 1}, NEW o \in {0, 1},
         \A i \in DOMAIN up' :
           (i \in Int /\ i + u \in DOMAIN up /\ up'[i] = up[i + u]) \/ ~IsCall(up'[i]),
         \A k \in DOMAIN down' :
           (k \in Int /\ k + o \in DOMAIN down /\ down'[k] = down[k + o]) \/ ~IsAnswer(down'[k])
  PROVE  CallInv'
<1>1. \A i \in DOMAIN up' : IsCall(up'[i]) =>
        i \in Int /\ i + u \in DOMAIN up /\ up'[i] = up[i + u]
  OBVIOUS
<1>2. \A k \in DOMAIN down' : IsAnswer(down'[k]) =>
        k \in Int /\ k + o \in DOMAIN down /\ down'[k] = down[k + o]
  OBVIOUS
<1>3. \A i, j \in Int : i + u = j + u => i = j
  OBVIOUS
<1>4. \A i, j \in Int : i + o = j + o => i = j
  OBVIOUS
<1>5. \A i \in DOMAIN up' : IsCall(up'[i]) =>
        /\ call # NoCall
        /\ \A j \in DOMAIN up' : IsCall(up'[j]) => j = i
        /\ \A k \in DOMAIN down' : ~IsAnswer(down'[k])
  BY <1>1, <1>2, <1>3 DEF CallInv
<1>6. \A k \in DOMAIN down' : IsAnswer(down'[k]) =>
       /\ call # NoCall
       /\ \A j \in DOMAIN down' : IsAnswer(down'[j]) => j = k
  BY <1>2, <1>4 DEF CallInv
<1>7. /\ \A i \in DOMAIN up' : up'[i].type = "add" => call.op = "add" /\ up'[i].doc = call.doc
      /\ \A i \in DOMAIN up' : up'[i].type = "set" =>
           call.op = "remove" /\ up'[i].watches = wanted
  BY <1>1 DEF CallInv, IsCall
<1>8. /\ \A k \in DOMAIN down' : down'[k].type = "added" => call.op = "add" /\ call.doc \in session.watches
      /\ \A k \in DOMAIN down' : down'[k].type = "replaced" => call.op = "remove"
  BY <1>2 DEF CallInv, IsAnswer
<1>9. call # NoCall => call.doc \notin wanted
  BY DEF CallInv
<1> HIDE DEF IsCall, IsAnswer
<1> QED BY <1>5, <1>6, <1>7, <1>8, <1>9 DEF CallInv

(* Every step keeps the call where it is.                                  *)
LEMMA CallStep == ASSUME DeliveryInv, Next PROVE CallInv'
<1>0. Types /\ LinkInv /\ CallInv /\ OrderInv /\ LogInv /\ AnswerInv
  BY DEF DeliveryInv
<1>00. /\ DOMAIN up = 1..Len(up) /\ Len(up) \in Nat /\ DOMAIN down = 1..Len(down) /\ Len(down) \in Nat
       /\ up \in Seq(UpFrame) /\ down \in Seq(DownFrame)
  BY <1>0, TypeFacts DEF Types
<1>1. CASE Inner
  <2>1. UNCHANGED <<up, down, wanted, call>> /\ session'.watches = session.watches
    BY <1>0, <1>1, InnerFacts DEF ClientKept
  <2> QED BY <1>0, <2>1 DEF CallInv
<1>2. CASE ReceiveCommit
  <2>1. PICK n, ok, seq : CommitServed(n, ok, seq)
    BY <1>0, <1>2, ReceiveCommitEffect
  <2> DEFINE f == [type |-> "verdict", id |-> n, ok |-> ok, seq |-> seq]
  <2>2. UNCHANGED <<pass, skipped, link, clientVars, bounds>>
    BY <1>2, Unchanged
  <2>3. f \in DownFrame
    <3>1. n \in Nat /\ ok \in BOOLEAN /\ seq \in Nat
      BY <1>0, <2>1, TypeFacts DEF CommitServed
    <3> QED BY <3>1 DEF DownFrame, Verdicts
  <2>4. ~IsAnswer(f)
    BY DEF IsAnswer
  <2>5. Sent(f) /\ up' = Tail(up) /\ up # <<>> /\ session'.watches = session.watches
    BY <2>1 DEF CommitServed, Sent
  <2> HIDE DEF f
  <2>6. \A i \in DOMAIN up' : i \in Int /\ i + 1 \in DOMAIN up /\ up'[i] = up[i + 1]
    BY <1>00, <2>5, TailFacts
  <2>7. \A k \in DOMAIN down' :
          (k \in Int /\ k + 0 \in DOMAIN down /\ down'[k] = down[k + 0]) \/ ~IsAnswer(down'[k])
    BY <1>0, <1>00, <2>3, <2>4, <2>5, SentFrames
  <2>8. UNCHANGED <<call, wanted>> /\ 1 \in {0, 1} /\ 0 \in {0, 1}
    BY <2>2 DEF clientVars
  <2> QED BY <1>0, <2>5, <2>6, <2>7, <2>8, CallKept
<1>3. CASE ReceiveAdd
  <2>1. PICK d, f : AddServed(d, f)
    BY <1>0, <1>3, ReceiveAddEffect
  <2>2. UNCHANGED <<call, wanted>>
    BY <1>3 DEF ReceiveAdd, clientVars
  <2>3. /\ Sent(f) /\ up' = Tail(up) /\ up # <<>> /\ up[1].type = "add" /\ up[1].doc = d
        /\ f \in DownFrame /\ f.type = "added" /\ d \in session'.watches
    BY <2>1 DEF AddServed
  <2>4. 1 \in DOMAIN up /\ IsCall(up[1])
    BY <1>00, <2>3 DEF IsCall
  <2>5. /\ call # NoCall /\ call.op = "add" /\ call.doc = d
        /\ \A j \in DOMAIN up : IsCall(up[j]) => j = 1
        /\ \A k \in DOMAIN down : ~IsAnswer(down[k])
        /\ call.doc \notin wanted
    BY <1>0, <2>3, <2>4 DEF CallInv
  <2>6. \A i \in DOMAIN up' : ~IsCall(up'[i])
    <3>1. \A i \in DOMAIN up' : i \in Nat \ {0} /\ i + 1 \in DOMAIN up /\ up'[i] = up[i + 1]
      BY <1>00, <2>3, TailFacts
    <3>2. \A i \in Nat \ {0} : i + 1 # 1
      OBVIOUS
    <3> QED BY <2>5, <3>1, <3>2
  <2>7. \A k \in DOMAIN down' : IsAnswer(down'[k]) => k = End + 1 /\ down'[k] = f
    BY <1>0, <2>3, <2>5, SentFrames
  <2>8. \A k \in DOMAIN down' : down'[k].type \in {"added", "replaced"} =>
          down'[k].type = "added"
    BY <2>3, <2>7 DEF IsAnswer
  <2>9. \A k \in DOMAIN down' : down'[k].type # "replaced"
    BY <2>8
  <2>10. \A i \in DOMAIN up' : up'[i].type # "add" /\ up'[i].type # "set"
    BY <2>6 DEF IsCall
  <2> HIDE DEF IsCall, IsAnswer
  <2> QED BY <2>2, <2>3, <2>5, <2>6, <2>7, <2>9, <2>10 DEF CallInv
<1>4. CASE ReceiveSet
  <2>1. PICK ws, f : SetServed(ws, f)
    BY <1>0, <1>4, ReceiveSetEffect
  <2>2. UNCHANGED <<call, wanted>>
    BY <1>4 DEF ReceiveSet, clientVars
  <2>3. /\ Sent(f) /\ up' = Tail(up) /\ up # <<>> /\ up[1].type = "set"
        /\ f \in DownFrame /\ f.type = "replaced"
    BY <2>1 DEF SetServed
  <2>4. 1 \in DOMAIN up /\ IsCall(up[1])
    BY <1>00, <2>3 DEF IsCall
  <2>5. /\ call # NoCall /\ call.op = "remove"
        /\ \A j \in DOMAIN up : IsCall(up[j]) => j = 1
        /\ \A k \in DOMAIN down : ~IsAnswer(down[k])
        /\ call.doc \notin wanted
    BY <1>0, <2>3, <2>4 DEF CallInv
  <2>6. \A i \in DOMAIN up' : ~IsCall(up'[i])
    <3>1. \A i \in DOMAIN up' : i \in Nat \ {0} /\ i + 1 \in DOMAIN up /\ up'[i] = up[i + 1]
      BY <1>00, <2>3, TailFacts
    <3>2. \A i \in Nat \ {0} : i + 1 # 1
      OBVIOUS
    <3> QED BY <2>5, <3>1, <3>2
  <2>7. \A k \in DOMAIN down' : IsAnswer(down'[k]) => k = End + 1 /\ down'[k] = f
    BY <1>0, <2>3, <2>5, SentFrames
  <2>8. \A k \in DOMAIN down' : down'[k].type \in {"added", "replaced"} =>
          down'[k].type = "replaced"
    BY <2>3, <2>7 DEF IsAnswer
  <2>9. \A k \in DOMAIN down' : down'[k].type # "added"
    BY <2>8
  <2>10. \A i \in DOMAIN up' : up'[i].type # "add" /\ up'[i].type # "set"
    BY <2>6 DEF IsCall
  <2> HIDE DEF IsCall, IsAnswer
  <2> QED BY <2>2, <2>3, <2>5, <2>6, <2>7, <2>9, <2>10 DEF CallInv
<1>5. CASE ReceiveOpen
  <2>1. PICK f : OpenServed(f)
    BY <1>0, <1>5, ReceiveOpenEffect
  <2>2. UNCHANGED <<call, wanted>>
    BY <1>5 DEF ReceiveOpen, clientVars
  <2>3. /\ up # <<>> /\ up[1].type = "open" /\ up' = Tail(up) /\ down' = Append(down, f)
        /\ f \in DownFrame /\ f.type = "opened"
    BY <2>1 DEF OpenServed
  <2>4. /\ down = <<>> /\ call = NoCall
        /\ up = <<[type |-> "open", holdings |-> delivered]>>
    BY <1>0, <2>3, Connected
  <2>5. up' = <<>> /\ \A k \in DOMAIN down' : down'[k] = f
    BY <2>3, <2>4
  <2> QED BY <2>2, <2>3, <2>4, <2>5 DEF CallInv, IsAnswer
<1>6. CASE Serve
  <2>1. /\ Sent(EffectFrame) \/ down' = down
        /\ session'.watches = session.watches
    BY <1>0, <1>6, ServeEffect, ServedFacts
  <2>2. UNCHANGED <<up, call, wanted>>
    BY <1>6 DEF Serve, clientVars
  <2>3. EffectFrame \in DownFrame /\ ~IsAnswer(EffectFrame)
    BY <1>0, EffectFrameFacts DEF IsAnswer
  <2>4. \A k \in DOMAIN down' :
          (k \in Int /\ k + 0 \in DOMAIN down /\ down'[k] = down[k + 0]) \/ ~IsAnswer(down'[k])
    BY <1>0, <1>00, <2>1, <2>3, SentFrames
  <2>5. \A i \in DOMAIN up' : (i \in Int /\ i + 0 \in DOMAIN up /\ up'[i] = up[i + 0])
    BY <1>00, <2>2
  <2>6. 0 \in {0, 1}
    OBVIOUS
  <2> QED BY <1>0, <2>1, <2>2, <2>4, <2>5, <2>6, CallKept
<1>7. ASSUME NEW d \in Docs, NEW op \in {"set", "patch"}, Commit(d, op) PROVE CallInv'
  <2> DEFINE n == Len(mine) + 1
  <2>1. /\ CommitFrame(mine', n) \in CommitFrames
        /\ conn # "up" => up' = up
        /\ conn = "up" => up' = Append(up, CommitFrame(mine', n))
    BY <1>0, <1>7, CommitEffect
  <2>2. UNCHANGED <<session, down, call, wanted>>
    BY <1>7 DEF Commit, serverVars
  <2>3. PICK g : g = CommitFrame(mine', n) /\ ~IsCall(g) /\ g \in UpFrame
    BY <2>1 DEF CommitFrames, IsCall, UpFrame
  <2>4. \A i \in DOMAIN up' : (i \in Int /\ i + 0 \in DOMAIN up /\ up'[i] = up[i + 0]) \/ ~IsCall(up'[i])
    <3>1. CASE conn # "up"
      <4>1. up' = up
        BY <2>1, <3>1
      <4>2. \A i \in DOMAIN up : i \in Int /\ i + 0 = i
        BY <1>00
      <4> QED BY <4>1, <4>2
    <3>2. CASE conn = "up"
      <4>1. up' = Append(up, g)
        BY <2>1, <2>3, <3>2
      <4>2. \A i \in DOMAIN up' : (i \in DOMAIN up /\ up'[i] = up[i]) \/ up'[i] = g
        BY <1>00, <2>3, <4>1, AppendFacts
      <4>3. \A i \in DOMAIN up' : up'[i] = g => ~IsCall(up'[i])
        BY <2>3
      <4>4. \A i \in DOMAIN up : i \in Int /\ i + 0 = i
        BY <1>00
      <4> SUFFICES ASSUME NEW i \in DOMAIN up', IsCall(up'[i])
                   PROVE  i \in Int /\ i + 0 \in DOMAIN up /\ up'[i] = up[i + 0]
        OBVIOUS
      <4>5. i \in DOMAIN up /\ up'[i] = up[i]
        BY <4>2, <4>3
      <4> QED BY <4>4, <4>5
    <3> QED BY <3>1, <3>2
  <2>5. \A k \in DOMAIN down' : (k \in Int /\ k + 0 \in DOMAIN down /\ down'[k] = down[k + 0])
    BY <1>00, <2>2
  <2>6. 0 \in {0, 1}
    OBVIOUS
  <2> QED BY <1>0, <2>2, <2>4, <2>5, <2>6, CallKept
<1>8. CASE Lose
  <2>1. up' = <<>> /\ down' = <<>> /\ call' = NoCall
    BY <1>8 DEF Lose
  <2> QED BY <2>1 DEF CallInv
<1>9. CASE Reconnect
  <2>1. /\ conn = "down" /\ up' = <<[type |-> "open", holdings |-> delivered]>>
        /\ UNCHANGED <<session, wanted, down, call>>
    BY <1>9 DEF Reconnect, serverVars
  <2>2. down = <<>> /\ call = NoCall
    BY <1>0, <2>1 DEF LinkInv
  <2>3. \A i \in DOMAIN up' : up'[i].type = "open"
    BY <2>1
  <2> QED BY <2>1, <2>2, <2>3 DEF CallInv, IsCall
<1>10. CASE Call
  <2>1. conn = "up" /\ UNCHANGED <<session, down>> /\ call = NoCall
    BY <1>10 DEF Call, serverVars
  <2>2. PICK g, d : /\ up' = Append(up, g)
                    /\ \/ /\ d \in Docs \ wanted
                          /\ call' = [op |-> "add", doc |-> d]
                             /\ g = [type |-> "add", doc |-> d]
                          /\ wanted' = wanted
                       \/ /\ d \in wanted
                          /\ call' = [op |-> "remove", doc |-> d]
                             /\ g = [type |-> "set", watches |-> wanted']
                          /\ wanted' = wanted \ {d}
    BY <1>10 DEF Call
  <2>3. \A i \in DOMAIN up' :
          (i \in DOMAIN up /\ up'[i] = up[i]) \/ (i = Len(up) + 1 /\ up'[i] = g)
    BY <1>00, <2>2
  <2>4. /\ \A i \in DOMAIN up : ~IsCall(up[i])
        /\ \A k \in DOMAIN down : ~IsAnswer(down[k])
    BY <1>0, <2>1 DEF CallInv
  <2>5. \A i \in DOMAIN up' : IsCall(up'[i]) => i = Len(up) + 1 /\ up'[i] = g
    BY <2>3, <2>4
  <2>6. \A i \in DOMAIN up' : up'[i].type \in {"add", "set"} => up'[i] = g
    BY <2>5 DEF IsCall
  <2>7. \A k \in DOMAIN down' :
          ~IsAnswer(down'[k]) /\ down'[k].type # "added" /\ down'[k].type # "replaced"
    BY <2>1, <2>4 DEF IsAnswer
  <2>8. /\ call' # NoCall /\ call'.doc = d /\ d \notin wanted'
        /\ g.type = "add" => call'.op = "add" /\ g.doc = d
        /\ g.type = "set" => call'.op = "remove" /\ g.watches = wanted'
    <3>1. \A x, o : [op |-> o, doc |-> x].op = o /\ [op |-> o, doc |-> x].doc = x
      OBVIOUS
    <3>2. call' # NoCall
      <4>1. call'.op \in {"add", "remove"} /\ NoCall.op = "none"
        BY <2>2, <3>1 DEF NoCall
      <4> QED BY <4>1
    <3> QED BY <2>2, <3>1, <3>2
  <2> QED BY <2>5, <2>6, <2>7, <2>8 DEF CallInv
<1>11. CASE Effect \/ Verdict
  <2>1. down # <<>> /\ down' = Tail(down) /\ UNCHANGED <<up, session, call, wanted>>
    BY <1>11 DEF Effect, Verdict, Received, serverVars
  <2>2. \A k \in DOMAIN down' : k \in Int /\ k + 1 \in DOMAIN down /\ down'[k] = down[k + 1]
    BY <1>0, <2>1, ReceivedFrames
  <2>3. \A i \in DOMAIN up' : (i \in Int /\ i + 0 \in DOMAIN up /\ up'[i] = up[i + 0])
    BY <1>00, <2>1
  <2>4. 0 \in {0, 1} /\ 1 \in {0, 1}
    OBVIOUS
  <2> QED BY <1>0, <2>1, <2>2, <2>3, <2>4, CallKept
<1>12. CASE CallAnswered
  <2>1. down # <<>> /\ down' = Tail(down) /\ Head(down).type \in {"added", "replaced"}
        /\ call' = NoCall /\ up' = up
    BY <1>12 DEF CallAnswered, Received
  <2>2. /\ \A k \in DOMAIN down' : k \in Nat \ {0} /\ k + 1 \in DOMAIN down /\ down'[k] = down[k + 1]
        /\ 1 \in DOMAIN down /\ IsAnswer(down[1])
    BY <1>0, <2>1, ReceivedFrames DEF IsAnswer
  <2>3. /\ \A k \in DOMAIN down : IsAnswer(down[k]) => k = 1
        /\ \A i \in DOMAIN up : ~IsCall(up[i])
    BY <1>0, <2>2 DEF CallInv
  <2>4. \A k \in DOMAIN down' : ~IsAnswer(down'[k])
    <3>1. \A i \in Nat \ {0} : i + 1 # 1
      OBVIOUS
    <3> QED BY <2>2, <2>3, <3>1
  <2> QED BY <2>1, <2>3, <2>4 DEF CallInv, IsCall, IsAnswer
<1>13. CASE Restored
  <2>1. /\ down # <<>> /\ down' = Tail(down) /\ Head(down).type = "opened" /\ UNCHANGED <<session, call, wanted>>
        /\ up' = up \o [i \in DOMAIN Outstanding |-> CommitFrame(mine, Outstanding[i])]
    BY <1>13 DEF Restored, Received, serverVars
  <2>2. down[1].type = "opened"
    BY <1>0, <2>1, DownHead
  <2>3. up = <<>>
    BY <1>0, <2>1, <2>2, Connected
  <2> DEFINE fs == [i \in DOMAIN Outstanding |-> CommitFrame(mine, Outstanding[i])]
  <2>4. Outstanding \in Seq(DOMAIN mine)
    BY <1>0, OutstandingFacts
  <2>5. fs \in Seq({CommitFrame(mine, n) : n \in DOMAIN mine})
    BY <2>4
  <2>6. \A i \in DOMAIN fs : fs[i].type = "commit"
    BY DEF CommitFrame
  <2> HIDE DEF fs
  <2>7. up' = fs
    <3>1. up' = <<>> \o fs
      BY <2>1, <2>3 DEF fs
    <3> QED BY <2>5, <3>1
  <2>8. \A i \in DOMAIN up' :
          (i \in Int /\ i + 0 \in DOMAIN up /\ up'[i] = up[i + 0]) \/ ~IsCall(up'[i])
    BY <2>6, <2>7 DEF IsCall
  <2>9. \A k \in DOMAIN down' : k \in Int /\ k + 1 \in DOMAIN down /\ down'[k] = down[k + 1]
    BY <1>0, <2>1, ReceivedFrames
  <2>10. 0 \in {0, 1} /\ 1 \in {0, 1}
    OBVIOUS
  <2> QED BY <1>0, <2>1, <2>8, <2>9, <2>10, CallKept
<1>14. ASSUME NEW n \in DOMAIN mine, Resolve(n) PROVE CallInv'
  <2>1. UNCHANGED <<log, serverVars, up, down, conn, wanted, call, delivered, marker, bounds>>
    BY <1>14, Unchanged
  <2> QED BY <1>0, <2>1 DEF CallInv, serverVars
<1> QED BY <1>1, <1>2, <1>3, <1>4, <1>5, <1>6, <1>7, <1>8, <1>9, <1>10, <1>11, <1>12,
           <1>13, <1>14
        DEF Next, ServerStep, Inner

(* The drop of a watched document comes before the answer that added it.   *)
DropsOrdered ==
  Live => \A d \in session.watches : \A k \in DOMAIN down : Drops(down[k], d) =>
       call.op = "add" /\ d = call.doc /\ \E j \in (k + 1)..End : down[j].type = "added"
NotBoth == \A k \in DOMAIN down : \A d \in Docs : ~(Drops(down[k], d) /\ Raises(down[k], d, 0))

(* WatchInv in its parts.                                                  *)
LEMMA WatchParts ==
  WatchInv <=> /\ wanted \subseteq session.watches
               /\ \A d \in Docs \ session.watches : session.cached[d] \in {Nothing, 0}
               /\ NotBoth /\ DropsOrdered
BY DEF WatchInv, NotBoth, DropsOrdered

(* WatchInv in its parts, in the next state.                               *)
LEMMA WatchPartsNext ==
  WatchInv' <=> /\ wanted' \subseteq session'.watches
                /\ \A d \in Docs \ session'.watches : session'.cached[d] \in {Nothing, 0}
                /\ NotBoth' /\ DropsOrdered'
BY DEF WatchInv, NotBoth, DropsOrdered

(* A frame is sent that drops no document watched.                         *)
LEMMA DropsSent ==
  ASSUME Types, NotBoth, NEW f \in DownFrame, Sent(f) \/ down' = down, Live' <=> Live,
         \A d \in Docs : ~(Drops(f, d) /\ Raises(f, d, 0))
  PROVE  /\ NotBoth'
         /\ DropsOrdered /\ call' = call /\ session'.watches \subseteq session.watches
            /\ (\A d \in session'.watches : ~Drops(f, d)) => DropsOrdered'
<1>1. /\ \A k \in DOMAIN down' : (k \in DOMAIN down /\ down'[k] = down[k])
                                 \/ (Live /\ k = End + 1 /\ End' = End + 1 /\ down'[k] = f)
      /\ \A k \in DOMAIN down : k \in DOMAIN down' /\ down'[k] = down[k]
      /\ End' \in {End, End + 1} /\ End \in Nat
  BY SentFrames
<1>2. NotBoth'
  <2> SUFFICES ASSUME NEW k \in DOMAIN down', NEW d \in Docs
               PROVE  ~(Drops(down'[k], d) /\ Raises(down'[k], d, 0))
    BY DEF NotBoth
  <2>1. CASE down'[k] = f
    BY <2>1
  <2>2. CASE k \in DOMAIN down /\ down'[k] = down[k]
    BY <2>2 DEF NotBoth
  <2> QED BY <1>1, <2>1, <2>2
<1>3. ASSUME DropsOrdered, call' = call, session'.watches \subseteq session.watches,
             \A d \in session'.watches : ~Drops(f, d)
      PROVE  DropsOrdered'
  <2> SUFFICES ASSUME Live, NEW d \in session'.watches, NEW k \in DOMAIN down', Drops(down'[k], d)
               PROVE  call.op = "add" /\ d = call.doc /\ \E j \in (k + 1)..End' :
                        down'[j].type = "added"
    BY <1>3 DEF DropsOrdered
  <2>1. k \in DOMAIN down /\ down'[k] = down[k]
    <3>1. down'[k] # f
      BY <1>3
    <3> QED BY <1>1, <3>1
  <2>2. Drops(down[k], d) /\ d \in session.watches
    BY <1>3, <2>1
  <2>3. PICK j \in (k + 1)..End : down[j].type = "added" /\ call.op = "add" /\ d = call.doc
    BY <1>3, <2>1, <2>2 DEF DropsOrdered
  <2>4. DOMAIN down = 1..End
    BY TypeFacts
  <2>5. j \in DOMAIN down /\ j \in (k + 1)..End'
    BY <1>1, <2>1, <2>3, <2>4
  <2> QED BY <1>1, <2>3, <2>5
<1> QED BY <1>2, <1>3

(* A frame that is received leaves the order of the others.                *)
LEMMA DropsReceived ==
  ASSUME Types, NotBoth, down # <<>>, down' = Tail(down), Live' => Live
  PROVE  /\ NotBoth'
         /\ DropsOrdered /\ call' = call /\ session'.watches = session.watches
            => DropsOrdered'
<1>1. /\ \A k \in DOMAIN down' : k \in Nat \ {0} /\ k + 1 \in DOMAIN down /\ down'[k] = down[k + 1]
      /\ \A k \in DOMAIN down : k \in Nat \ {0} /\ (k # 1 => k - 1 \in DOMAIN down')
      /\ End' = End - 1 /\ End \in Nat \ {0}
  BY ReceivedFrames
<1>2. NotBoth'
  <2> SUFFICES ASSUME NEW k \in DOMAIN down', NEW d \in Docs
               PROVE  ~(Drops(down'[k], d) /\ Raises(down'[k], d, 0))
    BY DEF NotBoth
  <2>1. k + 1 \in DOMAIN down /\ down'[k] = down[k + 1]
    BY <1>1
  <2> QED BY <2>1 DEF NotBoth
<1>3. ASSUME DropsOrdered, call' = call, session'.watches = session.watches
      PROVE  DropsOrdered'
  <2> SUFFICES ASSUME Live, NEW d \in session.watches, NEW k \in DOMAIN down', Drops(down'[k], d)
               PROVE  call.op = "add" /\ d = call.doc /\ \E j \in (k + 1)..End' :
                        down'[j].type = "added"
    BY <1>3 DEF DropsOrdered
  <2>1. k \in Nat \ {0} /\ k + 1 \in DOMAIN down /\ down'[k] = down[k + 1]
    BY <1>1
  <2>2. Drops(down[k + 1], d)
    BY <2>1
  <2>3. PICK j \in ((k + 1) + 1)..End :
          down[j].type = "added" /\ call.op = "add" /\ d = call.doc
    BY <1>3, <2>1, <2>2 DEF DropsOrdered
  <2>4. DOMAIN down = 1..End
    BY TypeFacts
  <2>5. j \in DOMAIN down /\ j # 1 /\ j - 1 \in (k + 1)..End' /\ (j - 1) + 1 = j
    BY <1>1, <2>1, <2>3, <2>4
  <2>6. j - 1 \in DOMAIN down' /\ down'[j - 1] = down[j]
    BY <1>1, <2>5
  <2> QED BY <2>3, <2>5, <2>6
<1> QED BY <1>2, <1>3

(* Every step keeps the watches. An answer that drops documents is of a    *)
(* call that removes, and the next addition waits for it.                  *)
LEMMA WatchStep == ASSUME DeliveryInv, Next PROVE WatchInv'
<1>0. Types /\ LinkInv /\ CallInv /\ WatchInv /\ OrderInv /\ LogInv /\ AnswerInv
  BY DEF DeliveryInv
<1>00. /\ wanted \subseteq session.watches
       /\ \A d \in Docs \ session.watches : session.cached[d] \in {Nothing, 0}
       /\ NotBoth /\ DropsOrdered
  BY <1>0, WatchParts
<1>1. CASE Inner
  <2>1. ClientKept /\ (Live' <=> Live) /\ session'.watches = session.watches
    BY <1>0, <1>1, InnerFacts
  <2>2. \A d \in Docs \ session.watches : session'.cached[d] \in {Nothing, 0}
    <3>1. CASE SendFails
      <4>1. /\ \A d \in ServedBy.rems : session'.cached[d] = 0
            /\ \A d \in ServedBy.ups : session'.cached[d] = Nothing
            /\ \A d \in Docs : d \notin ServedBy.ups /\ d \notin ServedBy.rems =>
                              session'.cached[d] = ServedBy.after.cached[d]
        BY <1>0, <3>1, SendFailsEffect
      <4>2. \A d \in Docs \ session.watches :
              ServedBy.after.cached[d] \in {Nothing, session.cached[d]}
        BY <1>0, ServedFacts
      <4> QED BY <1>00, <4>1, <4>2
    <3>2. CASE EvaluationFails
      <4>1. session' = [session EXCEPT !.force = TRUE] /\ session \in State
        BY <1>0, <3>2 DEF EvaluationFails, Types
      <4>2. session'.cached = session.cached
        BY <4>1 DEF State
      <4> QED BY <1>00, <4>2
    <3>3. CASE ~SendFails /\ ~EvaluationFails
      <4>1. session' = session
        BY <1>1, <3>3 DEF Inner, ForeignCommit, StartPass, EndPass, FailPass, Detach
      <4> QED BY <1>00, <4>1
    <3> QED BY <3>1, <3>2, <3>3
  <2>3. NotBoth' /\ DropsOrdered'
    BY <1>00, <2>1 DEF NotBoth, DropsOrdered, ClientKept, End
  <2> QED BY <1>00, <2>1, <2>2, <2>3, WatchPartsNext DEF ClientKept
<1>2. CASE ReceiveCommit
  <2>1. PICK n, ok, seq : CommitServed(n, ok, seq)
    BY <1>0, <1>2, ReceiveCommitEffect
  <2> DEFINE f == [type |-> "verdict", id |-> n, ok |-> ok, seq |-> seq]
  <2>2. UNCHANGED <<link, wanted, call>>
    BY <1>2 DEF ReceiveCommit, clientVars
  <2>3. f \in DownFrame
    <3>1. n \in Nat /\ ok \in BOOLEAN /\ seq \in Nat
      BY <1>0, <2>1, TypeFacts DEF CommitServed
    <3> QED BY <3>1 DEF DownFrame, Verdicts
  <2>4. f.type = "verdict"
    OBVIOUS
  <2>5. Sent(f) /\ session'.watches = session.watches /\ session'.cached = session.cached
    BY <2>1 DEF CommitServed, Sent
  <2> HIDE DEF f
  <2>6. \A d : ~Drops(f, d)
    BY <2>4 DEF Drops
  <2>7. NotBoth' /\ DropsOrdered'
    BY <1>0, <1>00, <2>2, <2>3, <2>5, <2>6, DropsSent DEF Live
  <2> QED BY <1>00, <2>2, <2>5, <2>7, WatchPartsNext
<1>3. CASE ReceiveAdd
  <2>1. PICK d, f : AddServed(d, f)
    BY <1>0, <1>3, ReceiveAddEffect
  <2>2. UNCHANGED <<link, wanted, call>>
    BY <1>3 DEF ReceiveAdd, clientVars
  <2>3. /\ Sent(f) /\ up # <<>> /\ up[1].type = "add" /\ up[1].doc = d
        /\ f \in DownFrame /\ f.type = "added" /\ (\A x : ~Drops(f, x))
        /\ session'.watches = session.watches \union {d}
        /\ \A x \in Docs : x # d => session'.cached[x] = session.cached[x]
    BY <2>1 DEF AddServed
  <2>4. Live /\ Live' /\ 1 \in DOMAIN up
    BY <1>0, <2>2, <2>3, Connected DEF Live, Types
  <2>5. call.op = "add" /\ call.doc = d
    BY <1>0, <2>3, <2>4 DEF CallInv
  <2>6. NotBoth'
    BY <1>0, <1>00, <2>3, <2>4, DropsSent
  <2>7. DropsOrdered'
    <3>1. /\ \A k \in DOMAIN down' : (k \in DOMAIN down /\ down'[k] = down[k])
                                 \/ (Live /\ k = End + 1 /\ End' = End + 1 /\ down'[k] = f)
          /\ \A k \in DOMAIN down : k \in DOMAIN down' /\ down'[k] = down[k]
          /\ DOMAIN down = 1..End /\ End \in Nat
      BY <1>0, <2>3, SentFrames, TypeFacts
    <3>2. End' = End + 1 /\ down'[End + 1] = f
      BY <1>0, <2>3, <2>4, AppendFacts DEF Sent, Live, End, Types
    <3> SUFFICES ASSUME NEW x \in session'.watches, NEW k \in DOMAIN down', Drops(down'[k], x)
                 PROVE  call.op = "add" /\ x = call.doc /\ \E j \in (k + 1)..End' :
                          down'[j].type = "added"
      BY <2>2 DEF DropsOrdered
    <3>3. down'[k] # f
      BY <2>3
    <3>4. k \in DOMAIN down /\ down'[k] = down[k] /\ Drops(down[k], x)
      BY <3>1, <3>3
    <3>5. x = d
      <4>1. CASE x \in session.watches
        BY <1>00, <2>4, <2>5, <3>4, <4>1 DEF DropsOrdered
      <4> QED BY <2>3, <4>1
    <3>6. End + 1 \in (k + 1)..End'
      BY <3>1, <3>2, <3>4
    <3> QED BY <2>3, <2>5, <3>2, <3>5, <3>6
  <2>8. wanted' \subseteq session'.watches
    BY <1>00, <2>2, <2>3
  <2>9. \A x \in Docs \ session'.watches : session'.cached[x] \in {Nothing, 0}
    BY <1>00, <2>3
  <2> QED BY <2>6, <2>7, <2>8, <2>9, WatchPartsNext
<1>4. CASE ReceiveSet
  <2>1. PICK ws, f : SetServed(ws, f)
    BY <1>0, <1>4, ReceiveSetEffect
  <2>2. UNCHANGED <<link, wanted, call>>
    BY <1>4 DEF ReceiveSet, clientVars
  <2>3. /\ Sent(f) /\ up # <<>> /\ up[1].type = "set" /\ up[1].watches = ws /\ ws \in SUBSET Docs
        /\ f \in DownFrame /\ f.type = "replaced"
        /\ \A x : Drops(f, x) => x \in Docs \ ws
        /\ \A x, s : Raises(f, x, s) <=> x \in ws /\ HeadSeq(x) >= s
        /\ session'.watches = ws
        /\ \A x \in Docs \ ws : session'.cached[x] = Nothing
    BY <2>1 DEF SetServed
  <2>4. Live /\ Live' /\ 1 \in DOMAIN up
    BY <1>0, <2>2, <2>3, Connected DEF Live, Types
  <2>5. call.op = "remove" /\ ws = wanted
    BY <1>0, <2>3, <2>4 DEF CallInv
  <2>6. NotBoth'
    BY <1>0, <1>00, <2>3, <2>4, DropsSent
  <2>7. DropsOrdered'
    <3>1. ws \subseteq session.watches /\ \A d \in ws : ~Drops(f, d)
      BY <1>00, <2>3, <2>5
    <3> QED BY <1>0, <1>00, <2>2, <2>3, <2>4, <3>1, DropsSent
  <2>8. \A x \in Docs \ session'.watches : session'.cached[x] \in {Nothing, 0}
    BY <2>3
  <2> QED BY <2>2, <2>3, <2>5, <2>6, <2>7, <2>8, WatchPartsNext
<1>5. CASE ReceiveOpen
  <2>1. PICK f : OpenServed(f)
    BY <1>0, <1>5, ReceiveOpenEffect
  <2>2. UNCHANGED <<wanted, call>>
    BY <1>5 DEF ReceiveOpen, clientVars
  <2>3. /\ up # <<>> /\ up[1].type = "open" /\ down' = Append(down, f)
        /\ f \in DownFrame
        /\ \A x : Drops(f, x) => x \in Docs \ session.watches
        /\ \A x, s : Raises(f, x, s) => x \in session.watches /\ HeadSeq(x) >= s
        /\ session'.watches = session.watches
        /\ \A x \in Docs \ session.watches : session'.cached[x] = Nothing
    BY <2>1 DEF OpenServed
  <2>4. down = <<>>
    BY <1>0, <2>3, Connected
  <2>5. \A k \in DOMAIN down' : down'[k] = f
    BY <2>3, <2>4
  <2>6. NotBoth' /\ DropsOrdered'
    BY <2>3, <2>5 DEF NotBoth, DropsOrdered
  <2> QED BY <1>00, <2>2, <2>3, <2>6, WatchPartsNext
<1>6. CASE Serve
  <2>1. /\ Sent(EffectFrame) \/ down' = down
        /\ session' = ServedBy.after
    BY <1>0, <1>6, ServeEffect
  <2>2. UNCHANGED <<link, call, wanted>>
    BY <1>6 DEF Serve, clientVars
  <2>3. /\ session'.watches = session.watches
        /\ \A d \in Docs \ session.watches : session'.cached[d] \in {Nothing, session.cached[d]}
        /\ ServedBy.ups \in SUBSET session.watches
        /\ ServedBy.rems \intersect session.watches = {}
    BY <1>0, <2>1, ServedFacts
  <2>4. /\ EffectFrame \in DownFrame
        /\ \A d : Drops(EffectFrame, d) <=> d \in ServedBy.rems
        /\ \A d, s : Raises(EffectFrame, d, s) <=> d \in ServedBy.ups /\ HeadSeq(d) >= s
    BY <1>0, EffectFrameFacts
  <2>5. /\ \A d \in session'.watches : ~Drops(EffectFrame, d)
        /\ \A d \in Docs : ~(Drops(EffectFrame, d) /\ Raises(EffectFrame, d, 0))
    BY <2>3, <2>4
  <2>6. NotBoth' /\ DropsOrdered'
    BY <1>0, <1>00, <2>1, <2>2, <2>3, <2>4, <2>5, DropsSent DEF Live
  <2> QED BY <1>00, <2>2, <2>3, <2>6, WatchPartsNext
<1>7. ASSUME UNCHANGED <<session, link, wanted, call, down>> PROVE WatchInv'
  <2>1. NotBoth' /\ DropsOrdered'
    BY <1>00, <1>7 DEF NotBoth, DropsOrdered, Live, End
  <2> QED BY <1>00, <1>7, <2>1, WatchPartsNext
<1>8. CASE Lose
  <2>1. down' = <<>> /\ UNCHANGED <<session, wanted>>
    BY <1>8 DEF Lose
  <2>2. NotBoth' /\ DropsOrdered'
    BY <2>1 DEF NotBoth, DropsOrdered
  <2> QED BY <1>00, <2>1, <2>2, WatchPartsNext
<1>9. CASE Call
  <2>1. call = NoCall /\ UNCHANGED <<session, down, link>> /\ wanted' \subseteq wanted
    BY <1>9 DEF Call, serverVars
  <2>2. call.op # "add"
    BY <2>1 DEF NoCall
  <2>3. NotBoth' /\ DropsOrdered'
    BY <1>00, <2>1, <2>2 DEF NotBoth, DropsOrdered, Live
  <2> QED BY <1>00, <2>1, <2>3, WatchPartsNext
<1>10. CASE Effect \/ Verdict \/ Restored
  <2>1. down # <<>> /\ down' = Tail(down) /\ UNCHANGED <<link, session, call, wanted>>
    BY <1>10 DEF Effect, Verdict, Restored, Received, serverVars
  <2>2. NotBoth' /\ DropsOrdered'
    BY <1>0, <1>00, <2>1, DropsReceived DEF Live
  <2> QED BY <1>00, <2>1, <2>2, WatchPartsNext
<1>11. CASE CallAnswered
  <2>1. /\ down # <<>> /\ down' = Tail(down) /\ Head(down).type \in {"added", "replaced"}
        /\ wanted' = IF call.op = "add" THEN wanted \union {call.doc} ELSE wanted
        /\ UNCHANGED <<session, link>>
    BY <1>11 DEF CallAnswered, Received, serverVars
  <2>2. /\ \A k \in DOMAIN down' : k \in Nat \ {0} /\ k + 1 \in DOMAIN down /\ down'[k] = down[k + 1]
        /\ 1 \in DOMAIN down /\ IsAnswer(down[1]) /\ Head(down) = down[1]
        /\ DOMAIN down = 1..End /\ End \in Nat
    BY <1>0, <2>1, ReceivedFrames, TypeFacts DEF IsAnswer
  <2>3. wanted' \subseteq session'.watches
    <3>1. CASE call.op = "add"
      <4>1. down[1].type = "added"
        BY <1>0, <2>1, <2>2, <3>1 DEF CallInv
      <4>2. call.doc \in session.watches
        BY <1>0, <2>2, <4>1 DEF CallInv
      <4> QED BY <1>00, <2>1, <3>1, <4>2
    <3>2. CASE call.op # "add"
      BY <1>00, <2>1, <3>2
    <3> QED BY <3>1, <3>2
  <2>4. NotBoth'
    BY <1>0, <1>00, <2>1, DropsReceived DEF Live
  <2>5. DropsOrdered'
    <3> SUFFICES ASSUME Live, NEW d \in session.watches, NEW k \in DOMAIN down', Drops(down'[k], d)
                 PROVE  FALSE
      BY <2>1 DEF DropsOrdered, Live
    <3>1. k \in Nat \ {0} /\ k + 1 \in DOMAIN down /\ Drops(down[k + 1], d)
      BY <2>2
    <3>2. PICK j \in ((k + 1) + 1)..End : down[j].type = "added"
      BY <1>00, <3>1 DEF DropsOrdered
    <3>3. j \in DOMAIN down /\ j # 1 /\ IsAnswer(down[j])
      BY <2>2, <3>1, <3>2 DEF IsAnswer
    <3> QED BY <1>0, <2>2, <3>3 DEF CallInv
  <2> QED BY <1>00, <2>1, <2>3, <2>4, <2>5, WatchPartsNext
<1>12. CASE \E d \in Docs : \E op \in {"set", "patch"} : Commit(d, op)
  BY <1>7, <1>12 DEF Commit, serverVars
<1>13. CASE Reconnect
  BY <1>7, <1>13 DEF Reconnect, serverVars
<1>14. CASE \E n \in DOMAIN mine : Resolve(n)
  BY <1>7, <1>14 DEF Resolve, Settle, RepairTimesOut, serverVars
<1> QED BY <1>1, <1>2, <1>3, <1>4, <1>5, <1>6, <1>8, <1>9, <1>10, <1>11, <1>12, <1>13,
           <1>14
        DEF Next, ServerStep, Inner

(* The log and the seq of the space after a step.                          *)
LEMMA CommitNext ==
  ASSUME Types, LogInv, OrderInv, NEW n, NEW ok, NEW seq, CommitServed(n, ok, seq)
  PROVE  /\ n \in Nat \ {0} /\ n \in DOMAIN mine
         /\ n > Top => n = Top + 1
         /\ \A e : Accepted(n, e) => n = Top + 1
<1>1. /\ n \in DOMAIN mine /\ up # <<>> /\ up[1].type = "commit" /\ up[1].id = n
  BY DEF CommitServed
<1>2. n \in Nat \ {0} /\ Top \in Nat /\ 1 \in DOMAIN up
  BY <1>1, TypeFacts DEF Types
<1>3. n > Top => n = Top + 1
  <2> SUFFICES ASSUME n > Top, n # Top + 1 PROVE FALSE
    OBVIOUS
  <2>1. Top + 1 \in (Top + 1)..(n - 1)
    BY <1>2
  <2>2. \E j \in 1..(1 - 1) : IsCommit(up[j]) /\ up[j].id = Top + 1
    BY <1>1, <1>2, <2>1 DEF OrderInv, IsCommit
  <2> QED BY <2>2
<1>4. ASSUME NEW e, Accepted(n, e) PROVE n = Top + 1
  <2>1. n <= Top => Decided(n)
    BY <1>2 DEF OrderInv
  <2>2. /\ ~Recorded(n) /\ e \in Entry /\ e.doc = mine[n].doc
        /\ mine[n].op = "set" => mine[n].basis = HeadSeq(mine[n].doc)
    BY <1>4 DEF Accepted
  <2>3. HeadSeq(mine[n].doc) \in Nat
    BY <2>2, HeadFacts DEF Entry
  <2>4. ~Decided(n)
    BY <2>2, <2>3 DEF Decided
  <2> QED BY <1>2, <1>3, <2>1, <2>4
<1> QED BY <1>1, <1>2, <1>3, <1>4

(* Only commits write the log.                                             *)
LEMMA QuietLog ==
  ASSUME Next, ~ReceiveCommit, \A d \in Docs : ~ForeignCommit(d)
  PROVE  log' = log
BY
   DEF Next, ServerStep, ReceiveAdd, ReceiveSet, ReceiveOpen, Serve, EvaluationFails,
       SendFails, StartPass,
       EndPass, FailPass, Detach, Commit, Lose, Reconnect, Call, Effect, CallAnswered, Restored,
       Verdict, Resolve, Settle, RepairTimesOut

(* The log grows, and the commits that were served keep their records.     *)
LEMMA LogStep ==
  ASSUME Types, LogInv, OrderInv, Next
  PROVE  Grown /\ \A n \in 1..Top : OldRecord(n)
<1>0. Top \in Nat
  BY TypeFacts
<1>1. CASE log' = log
  BY <1>0, <1>1, SameLog
<1>2. ASSUME NEW d \in Docs, ForeignCommit(d) PROVE Grown /\ \A n \in 1..Top : OldRecord(n)
  <2>1. PICK e \in Entry : log' = Append(log, e) /\ e.by = 0
    BY <1>2, ForeignCommitEffect
  <2>2. Grown /\ \A n \in Nat : n # e.by => OldRecord(n)
    BY <2>1, LogGrows
  <2> QED BY <1>0, <2>1, <2>2
<1>3. CASE ReceiveCommit
  <2>1. PICK n, ok, seq : CommitServed(n, ok, seq)
    BY <1>3, ReceiveCommitEffect
  <2>2. ASSUME NEW e, Accepted(n, e) PROVE Grown /\ \A m \in 1..Top : OldRecord(m)
    <3>1. e \in Entry /\ log' = Append(log, e) /\ e.by = n /\ n = Top + 1
      BY <2>1, <2>2, CommitNext DEF Accepted
    <3>2. Grown /\ \A m \in Nat : m # e.by => OldRecord(m)
      BY <3>1, LogGrows
    <3> QED BY <1>0, <3>1, <3>2
  <2>3. (\E e : Accepted(n, e)) \/ log' = log
    BY <2>1 DEF CommitServed, Answered, Refused
  <2> QED BY <1>1, <2>2, <2>3
<1> QED BY <1>1, <1>2, <1>3, QuietLog

(* A commit that is served is owed a marker.                               *)
LEMMA TopServed ==
  ASSUME Types, NEW n \in Nat, NEW ok, NEW seq, CommitServed(n, ok, seq)
  PROVE  Top' = Larger(Top, n) /\ Top' \in {Top, n} /\ Top' >= Top /\ Top' >= n
<1>1. session'.owed = Larger(session.owed, n) /\ session'.caught = session.caught
  BY DEF CommitServed
<1>2. session.owed \in Nat /\ session.caught \in Nat
  BY TypeFacts
<1> QED BY <1>1, <1>2 DEF Top, Larger

(* Only a commit that is served moves Top.                                 *)
LEMMA TopKept ==
  ASSUME Types, Next, ~ReceiveCommit
  PROVE  Top' = Top
<1>0. session.owed \in Nat /\ session.caught \in Nat /\ Top \in Nat /\ session \in State
  BY TypeFacts DEF Types
<1>1. CASE session' = session
  BY <1>1 DEF Top
<1>2. CASE Serve
  <2>1. session' = ServedBy.after
    BY <1>2, ServeEffect
  <2>2. /\ session'.caught = Top
        /\ session'.owed = IF session.owed > session.caught THEN 0 ELSE session.owed
    BY <2>1, ServedFacts
  <2>3. session'.owed <= Top /\ session'.owed \in Nat
    BY <1>0, <2>2 DEF Top, Larger
  <2> QED BY <1>0, <2>2, <2>3 DEF Top, Larger
<1>3. CASE SendFails
  <2>1. /\ ServedBy.marker > 0 => session'.owed = Top /\ session'.caught = Top - 1
        /\ ServedBy.marker = 0 =>
             session'.owed = session.owed /\ session'.caught = session.caught
        /\ ServedBy.marker \in Nat
    BY <1>3, SendFailsEffect, ServedFacts
  <2>2. CASE ServedBy.marker > 0
    <3>1. session'.owed = Top /\ session'.caught = Top - 1
      BY <2>1, <2>2
    <3>2. Larger(Top, Top - 1) = Top
      BY <1>0 DEF Larger
    <3> QED BY <3>1, <3>2 DEF Top
  <2>3. CASE ServedBy.marker = 0
    BY <2>1, <2>3 DEF Top
  <2> QED BY <2>1, <2>2, <2>3
<1>4. CASE ReceiveOpen
  <2>1. PICK f : OpenServed(f)
    BY <1>4, ReceiveOpenEffect
  <2>2. session'.owed = 0 /\ session'.caught = Top
    BY <2>1 DEF OpenServed
  <2>3. Larger(0, Top) = Top
    BY <1>0 DEF Larger
  <2> QED BY <2>2, <2>3 DEF Top
<1>5. CASE ReceiveAdd
  <2>1. PICK d, f : AddServed(d, f)
    BY <1>5, ReceiveAddEffect
  <2> QED BY <2>1 DEF AddServed, Top
<1>6. CASE ReceiveSet
  <2>1. PICK ws, f : SetServed(ws, f)
    BY <1>6, ReceiveSetEffect
  <2> QED BY <2>1 DEF SetServed, Top
<1>7. CASE EvaluationFails
  <2>1. session' = [session EXCEPT !.force = TRUE]
    BY <1>7 DEF EvaluationFails
  <2>2. session'.owed = session.owed /\ session'.caught = session.caught
    BY <1>0, <2>1 DEF State
  <2> QED BY <2>2 DEF Top
<1>8. CASE ~(Serve \/ SendFails \/ ReceiveOpen \/ ReceiveAdd \/ ReceiveSet \/ EvaluationFails)
  <2>1. session' = session
    BY <1>8
       DEF Next, ServerStep, ForeignCommit, StartPass, EndPass, FailPass, Detach,
           Commit, Lose,
                Reconnect, Call, Effect, CallAnswered, Restored, Verdict, Resolve, Settle, RepairTimesOut, serverVars
  <2> QED BY <1>1, <2>1
<1> QED BY <1>2, <1>3, <1>4, <1>5, <1>6, <1>7, <1>8

(* What a commit is, and what the client was told of it, stay.             *)
CoreKept ==
  /\ mine' \in Seq(Own) /\ Len(mine) <= Len(mine')
  /\ \A n \in DOMAIN mine :
       /\ n \in DOMAIN mine' /\ mine'[n].doc = mine[n].doc /\ mine'[n].op = mine[n].op
       /\ mine'[n].basis = mine[n].basis
       /\ mine[n].at # "sent" => /\ mine'[n].ok = mine[n].ok /\ mine'[n].seq = mine[n].seq
                                 /\ mine'[n].at # "sent"
       /\ mine[n].at = "done" => mine'[n].at = "done"

(* Every step keeps what was asked and told of a commit.                   *)
LEMMA CoreStep ==
  ASSUME Types, OrderInv, AnswerInv, ValueInv, Next
  PROVE  CoreKept
<1>0. mine \in Seq(Own) /\ Len(mine) \in Nat /\ DOMAIN mine = 1..Len(mine)
  BY TypeFacts DEF Types
<1>1. CASE mine' = mine
  BY <1>0, <1>1 DEF CoreKept
<1>2. ASSUME Received, Head(down).type # "verdict", Absorb(Head(down)) PROVE CoreKept
  <2>1. down # <<>>
    BY <1>2 DEF Received
  <2>2. Head(down) = down[1] /\ 1 \in DOMAIN down /\ Head(down) \in Syncs
    BY <1>2, <2>1, DownHead
  <2>3. PICK f \in Syncs : f = down[1] /\ Absorb(f)
    BY <1>2, <2>2
  <2>4. Settled(f)
    BY <2>2, <2>3, AbsorbEffect
  <2>5. SameCore /\ \A n \in DOMAIN mine :
          /\ mine'[n].ok = mine[n].ok /\ mine'[n].seq = mine[n].seq
          /\ mine'[n].at \in {"done", mine[n].at}
    BY <2>4 DEF Settled
  <2> QED BY <1>0, <2>5 DEF SameCore, CoreKept
<1>3. CASE Effect
  BY <1>2, <1>3 DEF Effect
<1>4. CASE CallAnswered
  BY <1>2, <1>4 DEF CallAnswered
<1>5. CASE Restored
  BY <1>2, <1>5 DEF Restored
<1>6. CASE Verdict
  <2>1. /\ SameCore /\ down[1].id \in DOMAIN mine
        /\ \A n \in DOMAIN mine : n # down[1].id => mine'[n] = mine[n]
        /\ mine[down[1].id].at # "sent" => mine'[down[1].id] = mine[down[1].id]
    BY <1>6, VerdictEffect
  <2> QED BY <1>0, <2>1 DEF SameCore, CoreKept
<1>7. ASSUME NEW n \in DOMAIN mine, Resolve(n) PROVE CoreKept
  <2>1. /\ SameCore /\ mine[n].at \in {"answered", "parked"}
        /\ \A m \in DOMAIN mine : m # n => mine'[m] = mine[m]
        /\ mine'[n].ok = mine[n].ok /\ mine'[n].seq = mine[n].seq
        /\ mine'[n].at \in {"parked", "done"}
    BY <1>7, ResolveEffect
  <2> QED BY <1>0, <2>1 DEF SameCore, CoreKept
<1>8. ASSUME NEW d \in Docs, NEW op \in {"set", "patch"}, Commit(d, op) PROVE CoreKept
  <2>1. /\ mine' \in Seq(Own) /\ Len(mine') = Len(mine) + 1 /\ DOMAIN mine' = DOMAIN mine \union {Len(mine) + 1}
        /\ \A m \in DOMAIN mine : mine'[m] = mine[m]
    BY <1>8, CommitEffect
  <2> QED BY <1>0, <2>1 DEF CoreKept
<1>9. CASE Inner
  BY <1>1, <1>9, InnerFacts DEF ClientKept
<1>10. CASE ServerStep \/ Serve \/ Lose \/ Reconnect \/ Call
  <2>1. mine' = mine
    BY <1>10
       DEF ServerStep, ReceiveCommit, ReceiveAdd, ReceiveSet, ReceiveOpen, Serve, Lose,
           Reconnect, Call, clientVars
  <2> QED BY <1>1, <2>1
<1> QED BY <1>3, <1>4, <1>5, <1>6, <1>7, <1>8, <1>9, <1>10 DEF Next, Inner

(* Every step keeps the own commits recorded once and in their order: the  *)
(* next one to arrive is above Top or has its record.                      *)
LEMMA LogInvStep == ASSUME DeliveryInv, Next PROVE LogInv'
<1>0. Types /\ LogInv /\ OrderInv /\ AnswerInv /\ ValueInv
  BY DEF DeliveryInv
<1>00. /\ Top \in Nat /\ DOMAIN log = 1..Len(log) /\ Len(log) \in Nat /\ SpaceSeq = Len(log) + 1
       /\ \A i \in DOMAIN log : log[i] \in Entry
  BY <1>0, TypeFacts DEF SpaceSeq
<1>1. CoreKept
  BY <1>0, CoreStep
<1>2. Top' >= Top /\ Top' \in Nat
  <2>1. CASE ReceiveCommit
    <3>1. PICK n, ok, seq : CommitServed(n, ok, seq)
      BY <1>0, <2>1, ReceiveCommitEffect
    <3>2. n \in Nat
      BY <1>0, <3>1, CommitNext
    <3> QED BY <1>0, <1>00, <3>1, <3>2, TopServed
  <2>2. CASE ~ReceiveCommit
    BY <1>0, <1>00, <2>2, TopKept
  <2> QED BY <2>1, <2>2
<1>3. CASE log' = log
  <2> SUFFICES ASSUME NEW i \in DOMAIN log, log[i].by # 0
               PROVE  /\ log[i].by \in DOMAIN mine' /\ log[i].by <= Top'
                      /\ log[i].doc = mine'[log[i].by].doc
                      /\ mine'[log[i].by].op = "set" => log[i].value = {i + 1}
    BY <1>0, <1>3 DEF LogInv
  <2>1. /\ log[i].by \in DOMAIN mine /\ log[i].by <= Top
        /\ log[i].doc = mine[log[i].by].doc
        /\ mine[log[i].by].op = "set" => log[i].value = {i + 1}
    BY <1>0 DEF LogInv
  <2>2. log[i].by \in Nat
    BY <1>00 DEF Entry
  <2> QED BY <1>00, <1>1, <1>2, <2>1, <2>2 DEF CoreKept
<1>4. ASSUME NEW e \in Entry, log' = Append(log, e),
             \/ e.by = 0
             \/ /\ e.by > Top /\ e.by <= Top' /\ e.by \in DOMAIN mine /\ e.doc = mine[e.by].doc
                /\ mine[e.by].op = "set" => e.value = {SpaceSeq + 1}
      PROVE  LogInv'
  <2>1. /\ \A i \in DOMAIN log : i \in DOMAIN log' /\ log'[i] = log[i]
        /\ \A i \in DOMAIN log' : i \in DOMAIN log \/ (i = SpaceSeq /\ log'[i] = e)
    BY <1>0, <1>4, LogGrows
  <2>2. ASSUME NEW i \in DOMAIN log', log'[i].by # 0
        PROVE  /\ log'[i].by \in DOMAIN mine' /\ log'[i].by <= Top'
               /\ log'[i].doc = mine'[log'[i].by].doc
               /\ mine'[log'[i].by].op = "set" => log'[i].value = {i + 1}
    <3>1. CASE i \in DOMAIN log
      <4>1. /\ log'[i] = log[i] /\ log[i].by \in DOMAIN mine /\ log[i].by <= Top
            /\ log[i].doc = mine[log[i].by].doc
            /\ mine[log[i].by].op = "set" => log[i].value = {i + 1}
        BY <1>0, <2>1, <2>2, <3>1 DEF LogInv
      <4>2. log[i].by \in Nat
        BY <1>00, <3>1 DEF Entry
      <4> QED BY <1>00, <1>1, <1>2, <4>1, <4>2 DEF CoreKept
    <3>2. CASE i = SpaceSeq /\ log'[i] = e
      BY <1>1, <1>4, <2>2, <3>2 DEF CoreKept
    <3> QED BY <2>1, <3>1, <3>2
  <2>3. ASSUME NEW i \in DOMAIN log', NEW j \in DOMAIN log', i < j, log'[i].by # 0, log'[j].by # 0
        PROVE  log'[i].by < log'[j].by
    <3>1. i \in DOMAIN log
      BY <1>00, <2>1, <2>3
    <3>2. log'[i] = log[i] /\ log[i].by <= Top /\ log[i].by \in Nat
      BY <1>0, <1>00, <2>1, <2>3, <3>1 DEF LogInv, Entry
    <3>3. CASE j \in DOMAIN log
      BY <1>0, <2>1, <2>3, <3>1, <3>3 DEF LogInv
    <3>4. CASE j = SpaceSeq /\ log'[j] = e
      <4>1. e.by > Top /\ e.by \in Nat
        BY <1>4, <2>3, <3>4 DEF Entry
      <4> QED BY <1>00, <3>2, <3>4, <4>1
    <3> QED BY <2>1, <3>3, <3>4
  <2> QED BY <2>2, <2>3 DEF LogInv
<1>5. ASSUME NEW d \in Docs, ForeignCommit(d) PROVE LogInv'
  <2>1. PICK e \in Entry : log' = Append(log, e) /\ e.by = 0
    BY <1>0, <1>5, ForeignCommitEffect
  <2> QED BY <1>4, <2>1
<1>6. CASE ReceiveCommit
  <2>1. PICK n, ok, seq : CommitServed(n, ok, seq)
    BY <1>0, <1>6, ReceiveCommitEffect
  <2>2. n \in Nat /\ n \in DOMAIN mine
    BY <1>0, <2>1, CommitNext
  <2>3. Top' >= n
    BY <1>0, <2>1, <2>2, TopServed
  <2>4. ASSUME NEW e, Accepted(n, e) PROVE LogInv'
    <3>1. /\ e \in Entry /\ log' = Append(log, e) /\ e.by = n /\ n = Top + 1 /\ e.doc = mine[n].doc
          /\ mine[n].op = "set" => e.value = {SpaceSeq + 1}
      BY <1>0, <2>1, <2>4, CommitNext DEF Accepted
    <3>2. n > Top /\ n <= Top'
      BY <1>00, <1>2, <2>2, <2>3, <3>1
    <3> QED BY <1>4, <2>2, <3>1, <3>2
  <2>5. (\E e : Accepted(n, e)) \/ log' = log
    BY <2>1 DEF CommitServed, Answered, Refused
  <2> QED BY <1>3, <2>4, <2>5
<1> QED BY <1>3, <1>5, <1>6, QuietLog

(* The answers given to the client stay true.                              *)
LEMMA ToldStable ==
  ASSUME DeliveryInv, Next, NEW n, NEW ok, NEW seq, seq \in Nat, Told(n, ok, seq)
  PROVE  Told(n, ok, seq)'
<1>0. Types /\ LogInv /\ OrderInv /\ AnswerInv /\ ValueInv /\ Top \in Nat
  BY TypeFacts DEF DeliveryInv
<1>1. n \in 1..Top /\ (ok => RecordedAs(n, seq)) /\ (~ok => ~Recorded(n))
  BY DEF Told
<1>2. Grown /\ OldRecord(n) /\ n \in Nat
  BY <1>0, <1>1, LogStep
<1>3. Top' >= Top /\ Top' \in Nat
  <2>1. CASE ReceiveCommit
    <3>1. PICK m, o, s : CommitServed(m, o, s)
      BY <1>0, <2>1, ReceiveCommitEffect
    <3>2. m \in Nat
      BY <1>0, <3>1, CommitNext
    <3> QED BY <1>0, <3>1, <3>2, TopServed
  <2>2. CASE ~ReceiveCommit
    BY <1>0, <2>2, TopKept
  <2> QED BY <2>1, <2>2
<1>4. n \in 1..Top'
  BY <1>0, <1>1, <1>3
<1>5. ok => RecordedAs(n, seq)'
  BY <1>1, <1>2 DEF OldRecord
<1>6. ~ok => ~Recorded(n)'
  BY <1>1, <1>2 DEF OldRecord
<1> QED BY <1>4, <1>5, <1>6 DEF Told

(* Only a verdict answers a commit.                                        *)
LEMMA SentStays ==
  ASSUME Types, LinkInv, LogInv, OrderInv, AnswerInv, ValueInv, Next, ~Verdict
  PROVE  \A n \in DOMAIN mine' :
           \/ n \in DOMAIN mine /\ (mine[n].at = "sent" => mine'[n].at = "sent")
           \/ n \notin DOMAIN mine /\ mine'[n].at = "sent"
<1>0. mine \in Seq(Own) /\ Len(mine) \in Nat /\ DOMAIN mine = 1..Len(mine)
  BY TypeFacts DEF Types
<1> DEFINE Goal == \A n \in DOMAIN mine' :
           \/ n \in DOMAIN mine /\ (mine[n].at = "sent" => mine'[n].at = "sent")
           \/ n \notin DOMAIN mine /\ mine'[n].at = "sent"
<1> SUFFICES Goal
  OBVIOUS
<1>1. mine' = mine => Goal
  OBVIOUS
<1>2. Received /\ Head(down).type # "verdict" /\ Absorb(Head(down)) => Goal
  <2> SUFFICES ASSUME Received, Head(down).type # "verdict", Absorb(Head(down)) PROVE Goal
    OBVIOUS
  <2>1. down # <<>>
    BY DEF Received
  <2>2. Head(down) = down[1] /\ 1 \in DOMAIN down /\ Head(down) \in Syncs
    BY <2>1, DownHead
  <2>3. PICK f \in Syncs : f = down[1] /\ Absorb(f)
    BY <2>2
  <2>4. Settled(f)
    BY <2>2, <2>3, AbsorbEffect
  <2>5. /\ DOMAIN mine' = DOMAIN mine
        /\ \A n \in DOMAIN mine : mine[n].at # "parked" => mine'[n].at = mine[n].at
    BY <2>4 DEF Settled, SameCore
  <2> QED BY <2>5
<1>3. CASE Effect \/ CallAnswered \/ Restored
  <2>1. Received /\ Head(down).type # "verdict" /\ Absorb(Head(down))
    BY <1>3 DEF Effect, CallAnswered, Restored
  <2> QED BY <1>2, <2>1
<1>7. ASSUME NEW n \in DOMAIN mine, Resolve(n) PROVE Goal
  <2>1. /\ SameCore /\ mine[n].at \in {"answered", "parked"}
        /\ \A m \in DOMAIN mine : m # n => mine'[m] = mine[m]
    BY <1>7, ResolveEffect
  <2> QED BY <1>0, <2>1 DEF SameCore
<1>8. ASSUME NEW d \in Docs, NEW op \in {"set", "patch"}, Commit(d, op) PROVE Goal
  <2>1. /\ DOMAIN mine' = DOMAIN mine \union {Len(mine) + 1}
        /\ \A m \in DOMAIN mine : mine'[m] = mine[m] /\ m # Len(mine) + 1
        /\ mine'[Len(mine) + 1].at = "sent"
    BY <1>8, CommitEffect
  <2> QED BY <1>0, <2>1
<1>9. CASE Inner
  <2>1. mine' = mine
    BY <1>9, InnerFacts DEF ClientKept
  <2> QED BY <1>1, <2>1
<1>10. CASE ServerStep \/ Serve \/ Lose \/ Reconnect \/ Call
  <2>1. mine' = mine
    BY <1>10
       DEF ServerStep, ReceiveCommit, ReceiveAdd, ReceiveSet, ReceiveOpen, Serve, Lose,
           Reconnect, Call, clientVars
  <2> QED BY <1>1, <2>1
<1> HIDE DEF Goal
<1> QED BY <1>3, <1>7, <1>8, <1>9, <1>10 DEF Next, Inner

(* A new verdict on the wire is of the commit that was served.             *)
LEMMA FramesStep ==
  ASSUME Types, LinkInv, LogInv, OrderInv, Next
  PROVE  \A k \in DOMAIN down' :
           \/ \E j \in DOMAIN down : down'[k] = down[j]
           \/ down'[k].type # "verdict"
           \/ \E n, ok, seq : CommitServed(n, ok, seq)
                /\ down'[k] = [type |-> "verdict", id |-> n, ok |-> ok, seq |-> seq]
<1> DEFINE Goal == \A k \in DOMAIN down' :
           \/ \E j \in DOMAIN down : down'[k] = down[j]
           \/ down'[k].type # "verdict"
           \/ \E n, ok, seq : CommitServed(n, ok, seq)
                /\ down'[k] = [type |-> "verdict", id |-> n, ok |-> ok, seq |-> seq]
<1> SUFFICES Goal
  OBVIOUS
<1>1. down' = down => Goal
  OBVIOUS
<1>2. ASSUME NEW f \in DownFrame, Sent(f) \/ down' = down, f.type # "verdict" PROVE Goal
  <2>1. \A k \in DOMAIN down' : (k \in DOMAIN down /\ down'[k] = down[k]) \/ down'[k] = f
    BY <1>2, SentFrames
  <2> HIDE DEF CommitServed
  <2> QED BY <1>2, <2>1
<1>3. down # <<>> /\ down' = Tail(down) => Goal
  <2>1. down # <<>> /\ down' = Tail(down) => \A k \in DOMAIN down' :
          k + 1 \in DOMAIN down /\ down'[k] = down[k + 1]
    BY ReceivedFrames
  <2> QED BY <2>1
<1>4. CASE Inner
  <2>1. down' = down
    BY <1>4, InnerFacts DEF ClientKept
  <2> QED BY <1>1, <2>1
<1>5. CASE Serve
  <2>1. Sent(EffectFrame) \/ down' = down
    BY <1>5, ServeEffect
  <2>2. EffectFrame \in DownFrame /\ EffectFrame.type # "verdict"
    BY EffectFrameFacts
  <2> HIDE DEF Goal
  <2> QED BY <1>2, <2>1, <2>2
<1>6. CASE ReceiveCommit
  <2>1. PICK n, ok, seq : CommitServed(n, ok, seq)
    BY <1>6, ReceiveCommitEffect
  <2> DEFINE f == [type |-> "verdict", id |-> n, ok |-> ok, seq |-> seq]
  <2>2. f \in DownFrame
    <3>1. n \in Nat /\ ok \in BOOLEAN /\ seq \in Nat
      BY <2>1, TypeFacts DEF CommitServed
    <3> QED BY <3>1 DEF DownFrame, Verdicts
  <2>3. Sent(f)
    BY <2>1 DEF CommitServed, Sent
  <2>4. \A k \in DOMAIN down' : (k \in DOMAIN down /\ down'[k] = down[k]) \/ down'[k] = f
    <3> HIDE DEF f
    <3> QED BY <2>2, <2>3, SentFrames
  <2> HIDE DEF CommitServed
  <2> QED BY <2>1, <2>4
<1>7. CASE ReceiveAdd
  <2>1. PICK d, f : AddServed(d, f)
    BY <1>7, ReceiveAddEffect
  <2>2. f \in DownFrame /\ Sent(f) /\ f.type # "verdict"
    BY <2>1 DEF AddServed
  <2> HIDE DEF Goal
  <2> QED BY <1>2, <2>2
<1>8. CASE ReceiveSet
  <2>1. PICK ws, f : SetServed(ws, f)
    BY <1>8, ReceiveSetEffect
  <2>2. f \in DownFrame /\ Sent(f) /\ f.type # "verdict"
    BY <2>1 DEF SetServed
  <2> HIDE DEF Goal
  <2> QED BY <1>2, <2>2
<1>9. CASE ReceiveOpen
  <2>1. PICK f : OpenServed(f)
    BY <1>9, ReceiveOpenEffect
  <2>2. f \in DownFrame /\ down' = Append(down, f) /\ f.type # "verdict"
        /\ down \in Seq(DownFrame)
    BY <2>1 DEF OpenServed, Types
  <2>3. \A k \in DOMAIN down' : (k \in DOMAIN down /\ down'[k] = down[k]) \/ down'[k] = f
    BY <2>2, AppendFacts
  <2> HIDE DEF CommitServed
  <2> QED BY <2>2, <2>3
<1>10. CASE Effect \/ CallAnswered \/ Restored \/ Verdict
  <2>1. down # <<>> /\ down' = Tail(down)
    BY <1>10 DEF Effect, CallAnswered, Restored, Verdict, Received
  <2> QED BY <1>3, <2>1
<1>11. CASE Lose
  BY <1>11 DEF Lose
<1>12. CASE ~(Inner \/ Serve \/ ServerStep \/ Effect \/ CallAnswered \/ Restored \/ Verdict \/ Lose)
  <2>1. down' = down
    BY <1>12 DEF Next, Inner, Commit, Reconnect, Call, Resolve, Settle, RepairTimesOut
  <2> QED BY <1>1, <2>1
<1> HIDE DEF Goal
<1> QED BY <1>4, <1>5, <1>6, <1>7, <1>8, <1>9, <1>10, <1>11, <1>12 DEF ServerStep

(* Every step keeps what the client is told true of the space.             *)
LEMMA AnswerStep == ASSUME DeliveryInv, Next PROVE AnswerInv'
<1>0. Types /\ LinkInv /\ LogInv /\ OrderInv /\ AnswerInv /\ ValueInv /\ DoneInv /\ Top \in Nat
  BY TypeFacts DEF DeliveryInv
<1>00. /\ mine \in Seq(Own) /\ Len(mine) \in Nat /\ DOMAIN mine = 1..Len(mine)
       /\ \A n \in DOMAIN mine : mine[n] \in Own
       /\ \A k \in DOMAIN down : down[k] \in DownFrame
       /\ marker \in Nat
  BY <1>0, TypeFacts DEF Types
<1>1. CoreKept
  BY <1>0, CoreStep
<1>2. \A n \in DOMAIN mine :
        mine[n].seq \in Nat /\ mine[n].at \in {"sent", "answered", "parked", "done"}
  BY <1>00 DEF Own
<1>3. \A k \in DOMAIN down : down[k].type = "verdict" =>
        down[k].seq \in Nat /\ down[k].ok \in BOOLEAN
  BY <1>00 DEF DownFrame, Verdicts, Syncs
<1>4. ASSUME NEW i, NEW o, NEW q, NEW k \in DOMAIN down, down[k].type = "verdict",
             i = down[k].id, o = down[k].ok, q = down[k].seq
      PROVE  Told(i, o, q)'
  <2>1. q \in Nat /\ Told(i, o, q)
    BY <1>0, <1>3, <1>4 DEF AnswerInv
  <2> QED BY <2>1, ToldStable
<1>5. ASSUME NEW k \in DOMAIN down', down'[k].type = "verdict"
      PROVE  Told(down[k].id, down[k].ok, down[k].seq)'
  <2>1. PICK i, o, q : i = down'[k].id /\ o = down'[k].ok /\ q = down'[k].seq
    OBVIOUS
  <2>2. Told(i, o, q)'
    <3>1. CASE \E j \in DOMAIN down : down'[k] = down[j]
      BY <1>4, <1>5, <2>1, <3>1
    <3>2. ASSUME NEW n, NEW ok, NEW seq, CommitServed(n, ok, seq), n = i, ok = o, seq = q
          PROVE  Told(i, o, q)'
      <4>1. /\ n \in Nat \ {0} /\ n <= Top' /\ Top' \in Nat /\ seq \in Nat
            /\ \A e : Accepted(n, e) => n = Top + 1
        BY <1>0, <3>2, CommitNext, TopServed DEF CommitServed
      <4>2. n \in 1..Top'
        BY <4>1
      <4>3. /\ ok => RecordedAs(n, seq)'
            /\ ~ok => ~Recorded(n)'
        <5>1. CASE \E e : ok /\ seq = SpaceSeq + 1 /\ Accepted(n, e)
          <6>1. PICK e \in Entry : ok /\ seq = SpaceSeq + 1 /\ log' = Append(log, e) /\ e.by = n
            BY <5>1 DEF Accepted
          <6>2. RecordedAs(e.by, seq)'
            BY <1>0, <4>1, <6>1, LogGrows
          <6> QED BY <6>1, <6>2
        <5>2. CASE ~ok /\ Refused(n)
          <6>1. ~Recorded(n) /\ log' = log
            BY <5>2 DEF Refused
          <6>2. OldRecord(n)
            BY <1>0, <4>1, <6>1, SameLog
          <6> QED BY <5>2, <6>1, <6>2 DEF OldRecord
        <5>3. CASE ok /\ RecordedAs(n, seq) /\ log' = log
          <6>1. OldRecord(n)
            BY <1>0, <4>1, <5>3, SameLog
          <6> QED BY <4>1, <5>3, <6>1 DEF OldRecord
        <5> QED BY <3>2, <5>1, <5>2, <5>3 DEF CommitServed, Answered
      <4>4. Told(n, ok, seq)'
        BY <4>2, <4>3 DEF Told
      <4> QED BY <3>2, <4>4
    <3>3. CASE \E n, ok, seq : CommitServed(n, ok, seq)
                 /\ down'[k] = [type |-> "verdict", id |-> n, ok |-> ok, seq |-> seq]
      <4>1. PICK n, ok, seq : CommitServed(n, ok, seq)
                 /\ down'[k] = [type |-> "verdict", id |-> n, ok |-> ok, seq |-> seq]
        BY <3>3
      <4>2. n = i /\ ok = o /\ seq = q
        BY <2>1, <4>1
      <4> QED BY <3>2, <4>1, <4>2
    <3> QED BY <1>0, <1>5, <3>1, <3>3, FramesStep
  <2> QED BY <2>1, <2>2
<1>6. ASSUME NEW n \in DOMAIN mine', mine'[n].at # "sent"
      PROVE  Told(n, mine[n].ok, mine[n].seq)'
  <2>1. PICK o, q : o = mine'[n].ok /\ q = mine'[n].seq
    OBVIOUS
  <2>2. Told(n, o, q)'
    <3>1. CASE n \in DOMAIN mine /\ mine[n].at # "sent"
      <4>1. o = mine[n].ok /\ q = mine[n].seq
        BY <1>1, <2>1, <3>1 DEF CoreKept
      <4>2. q \in Nat /\ Told(n, o, q)
        BY <1>0, <1>2, <3>1, <4>1 DEF AnswerInv
      <4> QED BY <4>2, ToldStable
    <3>2. CASE Verdict /\ ~(n \in DOMAIN mine /\ mine[n].at # "sent")
      <4>1. PICK v : v = down[1]
        OBVIOUS
      <4>2. /\ v.type = "verdict" /\ SameCore /\ v.id \in DOMAIN mine
            /\ \A m \in DOMAIN mine : m # v.id => mine'[m] = mine[m]
            /\ mine[v.id].at = "sent" =>
                 mine'[v.id].at = "answered" /\ mine'[v.id].ok = v.ok /\ mine'[v.id].seq = v.seq
        BY <1>0, <3>2, <4>1, VerdictEffect
      <4>3. n = v.id /\ o = v.ok /\ q = v.seq
        BY <1>6, <2>1, <3>2, <4>2 DEF SameCore
      <4>4. down # <<>>
        BY <3>2 DEF Verdict, Received
      <4>5. 1 \in DOMAIN down
        BY <1>0, <4>4, DownHead
      <4> QED BY <1>4, <4>1, <4>2, <4>3, <4>5
    <3>3. CASE ~Verdict /\ ~(n \in DOMAIN mine /\ mine[n].at # "sent")
      BY <1>0, <1>6, <3>3, SentStays
    <3> QED BY <3>1, <3>2, <3>3
  <2> QED BY <2>1, <2>2
<1>7. ASSUME NEW n \in DOMAIN mine', mine'[n].at = "parked" PROVE n > marker'
  <2> DEFINE Goal == n > marker'
  <2> SUFFICES Goal
    OBVIOUS
  <2>1. (mine' = mine /\ marker' = marker) => Goal
    BY <1>0, <1>7 DEF AnswerInv
  <2>2. Received /\ Head(down).type # "verdict" /\ Absorb(Head(down)) => Goal
    <3> SUFFICES ASSUME Received, Head(down).type # "verdict", Absorb(Head(down)) PROVE Goal
      OBVIOUS
    <3>1. down # <<>>
      BY DEF Received
    <3>2. Head(down) = down[1] /\ 1 \in DOMAIN down /\ Head(down) \in Syncs
      BY <1>0, <3>1, DownHead
    <3>3. PICK f \in Syncs : f = down[1] /\ Absorb(f)
      BY <3>2
    <3>4. Settled(f) /\ marker' \in Nat
      BY <1>0, <3>2, <3>3, AbsorbEffect
    <3>5. /\ DOMAIN mine' = DOMAIN mine
          /\ \A m \in DOMAIN mine : m <= marker' /\ mine[m].at = "parked" =>
               mine'[m].at = "done"
          /\ \A m \in DOMAIN mine : ~(m <= marker' /\ mine[m].at = "parked") =>
               mine'[m].at = mine[m].at
      BY <3>4 DEF Settled, SameCore
    <3>6. ~(n <= marker')
      BY <1>7, <3>5
    <3>7. n \in Nat
      BY <1>00, <3>5
    <3> QED BY <3>4, <3>6, <3>7
  <2>3. CASE Effect \/ CallAnswered \/ Restored
    <3>1. Received /\ Head(down).type # "verdict" /\ Absorb(Head(down))
      BY <2>3 DEF Effect, CallAnswered, Restored
    <3> QED BY <2>2, <3>1
  <2>4. CASE Verdict
    <3>1. /\ SameCore /\ down[1].id \in DOMAIN mine
          /\ \A m \in DOMAIN mine : m # down[1].id => mine'[m] = mine[m]
          /\ mine[down[1].id].at # "sent" => mine'[down[1].id] = mine[down[1].id]
          /\ mine[down[1].id].at = "sent" => mine'[down[1].id].at = "answered"
      BY <1>0, <2>4, VerdictEffect
    <3>2. n \in DOMAIN mine /\ mine[n].at = "parked"
      <4>1. n \in DOMAIN mine
        BY <1>7, <3>1 DEF SameCore
      <4>0. PICK i : i = down[1].id
        OBVIOUS
      <4>2. n # i => mine'[n] = mine[n]
        BY <3>1, <4>0, <4>1
      <4>3. n = i /\ mine[n].at # "sent" => mine'[n] = mine[n]
        BY <3>1, <4>0
      <4>4. n = i /\ mine[n].at = "sent" => mine'[n].at = "answered"
        BY <3>1, <4>0
      <4>5. mine'[n].at # "answered"
        BY <1>7
      <4>6. mine'[n] = mine[n]
        BY <4>2, <4>3, <4>4, <4>5
      <4> QED BY <1>7, <4>1, <4>6
    <3>3. marker' = marker
      BY <2>4 DEF Verdict
    <3> QED BY <1>0, <3>2, <3>3 DEF AnswerInv
  <2>5. ASSUME NEW m \in DOMAIN mine, Resolve(m) PROVE Goal
    <3>1. /\ SameCore
          /\ \A i \in DOMAIN mine : i # m => mine'[i] = mine[i]
          /\ mine'[m].at = "parked" => m > marker
      BY <1>0, <2>5, ResolveEffect
    <3>2. marker' = marker /\ n \in DOMAIN mine /\ n \in Nat
      BY <1>00, <1>7, <2>5, <3>1 DEF Resolve, Settle, RepairTimesOut, SameCore
    <3> QED BY <1>0, <1>00, <1>7, <3>1, <3>2 DEF AnswerInv
  <2>6. ASSUME NEW d \in Docs, NEW op \in {"set", "patch"}, Commit(d, op) PROVE Goal
    <3>1. /\ DOMAIN mine' = DOMAIN mine \union {Len(mine) + 1}
          /\ \A m \in DOMAIN mine : mine'[m] = mine[m] /\ m # Len(mine) + 1
          /\ mine'[Len(mine) + 1].at = "sent"
      BY <1>0, <2>6, CommitEffect
    <3>2. marker' = marker
      BY <2>6 DEF Commit
    <3> QED BY <1>0, <1>7, <3>1, <3>2 DEF AnswerInv
  <2>7. CASE Inner
    <3>1. mine' = mine /\ marker' = marker
      BY <1>0, <2>7, InnerFacts DEF ClientKept
    <3> QED BY <2>1, <3>1
  <2>8. CASE ServerStep \/ Serve \/ Lose \/ Reconnect \/ Call
    <3>1. mine' = mine /\ marker' = marker
      BY <2>8
         DEF ServerStep, ReceiveCommit, ReceiveAdd, ReceiveSet, ReceiveOpen, Serve,
             Lose, Reconnect, Call, clientVars
    <3> QED BY <2>1, <3>1
  <2> HIDE DEF Goal
  <2> QED BY <2>3, <2>4, <2>5, <2>6, <2>7, <2>8 DEF Next, Inner
<1>8. ASSUME NEW n \in DOMAIN mine', mine'[n].op = "set", NEW m \in 1..(n - 1), mine'[m].doc = mine'[n].doc
      PROVE  /\ mine'[m].at = "done"
             /\ mine'[m].ok => mine'[n].basis >= mine'[m].seq
  <2>1. CASE n \in DOMAIN mine
    <3>1. m \in DOMAIN mine
      BY <1>00, <2>1
    <3>2. /\ mine[n].op = "set" /\ mine[m].doc = mine[n].doc /\ mine'[n].basis = mine[n].basis
      BY <1>1, <1>8, <2>1, <3>1 DEF CoreKept
    <3>3. mine[m].at = "done" /\ (mine[m].ok => mine[n].basis >= mine[m].seq)
      BY <1>0, <2>1, <3>2 DEF AnswerInv
    <3> QED BY <1>1, <3>1, <3>2, <3>3 DEF CoreKept
  <2>2. CASE n \notin DOMAIN mine
    <3>1. PICK d \in Docs, op \in {"set", "patch"} : Commit(d, op)
      <4>1. CASE Inner
        BY <1>0, <1>8, <2>2, <4>1, InnerFacts DEF ClientKept
      <4>2. CASE ServerStep \/ Serve \/ Lose \/ Reconnect \/ Call
        BY <1>8, <2>2, <4>2
           DEF ServerStep, ReceiveCommit, ReceiveAdd, ReceiveSet, ReceiveOpen, Serve,
               Lose, Reconnect, Call, clientVars
      <4>3. CASE Effect \/ CallAnswered \/ Restored
        BY <1>8, <2>2, <4>3 DEF Effect, CallAnswered, Restored, Absorb
      <4>4. CASE Verdict
        BY <1>0, <1>8, <2>2, <4>4, VerdictEffect DEF SameCore
      <4>5. CASE \E i \in DOMAIN mine : Resolve(i)
        BY <1>0, <1>8, <2>2, <4>5, ResolveEffect DEF SameCore
      <4> QED BY <4>1, <4>2, <4>3, <4>4, <4>5 DEF Next, Inner
    <3>2. /\ DOMAIN mine' = DOMAIN mine \union {Len(mine) + 1}
          /\ \A i \in DOMAIN mine : mine'[i] = mine[i] /\ i # Len(mine) + 1
          /\ mine'[Len(mine) + 1].doc = d /\ mine'[Len(mine) + 1].op = op
          /\ mine'[Len(mine) + 1].basis = held[d].seq /\ d \in wanted
          /\ op = "set" => \A i \in DOMAIN mine : mine[i].doc = d => mine[i].at = "done"
      BY <1>0, <3>1, CommitEffect
    <3>3. n = Len(mine) + 1 /\ m \in DOMAIN mine /\ op = "set" /\ mine[m].doc = d
      BY <1>00, <1>8, <2>2, <3>2
    <3>4. mine[m].at = "done" /\ mine'[m] = mine[m]
      BY <3>2, <3>3
    <3>5. mine[m].ok => held[d].seq >= mine[m].seq
      <4> SUFFICES ASSUME mine[m].ok PROVE held[d].seq >= mine[m].seq
        OBVIOUS
      <4>1. 0 \in 0..End /\ Point(mine[m].doc, 0)
        BY <1>0, <3>2, <3>3, TypeFacts DEF Point
      <4>2. Reaches(held, down, d, 0, mine[m].seq)
        BY <1>0, <3>3, <3>4, <4>1 DEF DoneInv
      <4> QED BY <4>2 DEF Reaches
    <3> QED BY <3>2, <3>3, <3>4, <3>5
  <2> QED BY <2>1, <2>2
<1> QED BY <1>5, <1>6, <1>7, <1>8 DEF AnswerInv

(* The commit frames: in the order of the commits, and none left behind.   *)
InOrder ==
  \A i \in DOMAIN up : IsCommit(up[i]) =>
    /\ up[i].id \in DOMAIN mine
    /\ up[i] = CommitFrame(mine, up[i].id)
    /\ \A m \in (Top + 1)..(up[i].id - 1) : \E j \in 1..(i - 1) :
         IsCommit(up[j]) /\ up[j].id = m
AllSent ==
  conn = "up" =>
    \A m \in (Top + 1)..Len(mine) : \E j \in DOMAIN up : IsCommit(up[j]) /\ up[j].id = m
AddLast ==
  call.op = "add" => \A i \in DOMAIN up : IsCommit(up[i]) /\ up[i].doc = call.doc =>
                           \E j \in (i + 1)..Len(up) : up[j].type = "add"

(* An interval within another.                                             *)
LEMMA Between ==
  ASSUME NEW a \in Nat, NEW b \in Nat, a <= b, NEW c \in Nat, NEW m \in (b + 1)..c
  PROVE  m \in (a + 1)..c /\ m \in Nat /\ m > b
OBVIOUS

(* An interval from 1 has one end.                                         *)
LEMMA SameInterval ==
  ASSUME NEW a \in Nat, NEW b \in Nat, 1..a = 1..b
  PROVE  a = b
<1>1. a > 0 => a \in 1..b
  OBVIOUS
<1>2. b > 0 => b \in 1..a
  OBVIOUS
<1> QED BY <1>1, <1>2

(* OrderInv in its parts.                                                  *)
LEMMA OrderParts ==
  OrderInv <=> /\ Top <= Len(mine) /\ \A n \in 1..Top : Decided(n)
               /\ \A n \in DOMAIN mine : mine[n].basis <= HeadSeq(mine[n].doc)
               /\ InOrder /\ AllSent /\ AddLast
BY DEF OrderInv, InOrder, AllSent, AddLast

(* OrderInv in its parts, in the next state.                               *)
LEMMA OrderPartsNext ==
  OrderInv' <=> /\ Top' <= Len(mine') /\ \A n \in 1..Top' : Decided(n)'
                /\ \A n \in DOMAIN mine' : mine'[n].basis <= HeadSeq(mine[n].doc)'
                /\ InOrder' /\ AllSent' /\ AddLast'
BY DEF OrderInv, InOrder, AllSent, AddLast

(* A commit is asked again as it was.                                      *)
LEMMA FrameKept ==
  ASSUME CoreKept, NEW n \in DOMAIN mine
  PROVE  CommitFrame(mine', n) = CommitFrame(mine, n)
BY DEF CommitFrame, CoreKept

(* Nothing happens on the way up.                                          *)
LEMMA UpSame ==
  ASSUME Types, OrderInv, CoreKept, Len(mine') = Len(mine), Top' = Top, up' = up,
         conn' = conn \/ conn' # "up", call' = call \/ call'.op # "add"
  PROVE  InOrder' /\ AllSent' /\ AddLast'
<1>0. InOrder /\ AllSent /\ AddLast
  BY OrderParts
<1>1. ASSUME NEW i \in DOMAIN up', IsCommit(up'[i])
      PROVE  /\ up'[i].id \in DOMAIN mine'
             /\ up'[i] = CommitFrame(mine', up'[i].id)
             /\ \A m \in (Top' + 1)..(up'[i].id - 1) : \E j \in 1..(i - 1) :
                  IsCommit(up'[j]) /\ up'[j].id = m
  <2>1. /\ up[i].id \in DOMAIN mine
        /\ up[i] = CommitFrame(mine, up[i].id)
        /\ \A m \in (Top + 1)..(up[i].id - 1) : \E j \in 1..(i - 1) :
             IsCommit(up[j]) /\ up[j].id = m
    BY <1>0, <1>1 DEF InOrder
  <2>2. up[i].id \in DOMAIN mine'
    BY <2>1 DEF CoreKept
  <2>3. CommitFrame(mine', up[i].id) = CommitFrame(mine, up[i].id)
    BY <2>1, FrameKept
  <2> QED BY <2>1, <2>2, <2>3
<1>2. InOrder'
  BY <1>1 DEF InOrder, IsCommit
<1>3. AllSent'
  BY <1>0 DEF AllSent, IsCommit
<1>4. AddLast'
  BY <1>0 DEF AddLast, IsCommit
<1> QED BY <1>2, <1>3, <1>4

(* The first frame on the way up is taken: a commit is now below Top.      *)
LEMMA UpTaken ==
  ASSUME Types, OrderInv, up # <<>>, up' = Tail(up), mine' = mine, conn' = conn, call' = call,
         Top' \in Nat, Top' >= Top, IsCommit(up[1]) => up[1].id <= Top'
  PROVE  InOrder' /\ AllSent' /\ AddLast'
<1>0. InOrder /\ AllSent /\ AddLast /\ up \in Seq(UpFrame) /\ Top \in Nat
  BY OrderParts, TypeFacts DEF Types
<1>1. /\ 1 \in DOMAIN up
      /\ \A i \in DOMAIN up' : i \in Nat \ {0} /\ i + 1 \in DOMAIN up /\ up'[i] = up[i + 1]
      /\ \A i \in DOMAIN up : i \in Nat \ {0} /\ (i # 1 => i - 1 \in DOMAIN up')
  BY <1>0, TailFacts
<1>2. Len(up) \in Nat /\ Len(up') = Len(up) - 1 /\ DOMAIN up = 1..Len(up)
  BY <1>0
<1>3. ASSUME NEW j \in DOMAIN up, IsCommit(up[j]), up[j].id > Top', up[j].id \in Nat
      PROVE  j - 1 \in DOMAIN up' /\ up'[j - 1] = up[j] /\ j - 1 \in Nat /\ j \in Nat
  <2>1. j # 1
    BY <1>0, <1>3
  <2>2. j - 1 \in DOMAIN up' /\ j \in Nat
    BY <1>1, <2>1
  <2>3. up'[j - 1] = up[(j - 1) + 1] /\ (j - 1) + 1 = j /\ j - 1 \in Nat
    BY <1>1, <2>2
  <2> QED BY <2>2, <2>3
<1>4. ASSUME NEW i \in DOMAIN up', IsCommit(up'[i])
      PROVE  /\ up'[i].id \in DOMAIN mine'
             /\ up'[i] = CommitFrame(mine', up'[i].id)
             /\ \A m \in (Top' + 1)..(up'[i].id - 1) : \E j \in 1..(i - 1) :
                  IsCommit(up'[j]) /\ up'[j].id = m
  <2>1. i + 1 \in DOMAIN up /\ up'[i] = up[i + 1] /\ i \in Nat
    BY <1>1
  <2>2. /\ up[i + 1].id \in DOMAIN mine
        /\ up[i + 1] = CommitFrame(mine, up[i + 1].id)
        /\ \A m \in (Top + 1)..(up[i + 1].id - 1) : \E j \in 1..((i + 1) - 1) :
             IsCommit(up[j]) /\ up[j].id = m
    BY <1>0, <1>4, <2>1 DEF InOrder
  <2>3. up[i + 1].id \in Nat
    BY <2>2, TypeFacts
  <2>4. ASSUME NEW m \in (Top' + 1)..(up'[i].id - 1)
        PROVE  \E j \in 1..(i - 1) : IsCommit(up'[j]) /\ up'[j].id = m
    <3>1. m \in (Top + 1)..(up[i + 1].id - 1) /\ m \in Nat /\ m > Top'
      BY <1>0, <2>1, <2>3
    <3>2. PICK j \in 1..((i + 1) - 1) : IsCommit(up[j]) /\ up[j].id = m
      BY <2>2, <3>1
    <3>3. j \in DOMAIN up /\ j \in Nat /\ j <= i
      BY <1>2, <2>1, <3>2
    <3>4. j - 1 \in DOMAIN up' /\ up'[j - 1] = up[j] /\ j - 1 \in Nat
      BY <1>3, <3>1, <3>2, <3>3
    <3>5. j - 1 \in 1..(i - 1)
      BY <1>1, <2>1, <3>3, <3>4
    <3> QED BY <3>2, <3>4, <3>5
  <2> QED BY <2>1, <2>2, <2>4
<1>5. InOrder'
  BY <1>4 DEF InOrder, IsCommit
<1>6. AllSent'
  <2> SUFFICES ASSUME conn = "up", NEW m \in (Top' + 1)..Len(mine)
               PROVE  \E j \in DOMAIN up' : IsCommit(up'[j]) /\ up'[j].id = m
    BY DEF AllSent, IsCommit
  <2>0. Len(mine) \in Nat
    BY TypeFacts
  <2>1. m \in (Top + 1)..Len(mine) /\ m \in Nat /\ m > Top'
    BY <1>0, <2>0, Between
  <2>2. PICK j \in DOMAIN up : IsCommit(up[j]) /\ up[j].id = m
    BY <1>0, <2>1 DEF AllSent
  <2> QED BY <1>3, <2>1, <2>2
<1>7. AddLast'
  <2> SUFFICES ASSUME call.op = "add", NEW i \in DOMAIN up', IsCommit(up'[i]), up'[i].doc = call.doc
               PROVE  \E j \in (i + 1)..Len(up') : up'[j].type = "add"
    BY DEF AddLast, IsCommit
  <2>1. i + 1 \in DOMAIN up /\ up'[i] = up[i + 1] /\ i \in Nat
    BY <1>1
  <2>2. PICK j \in ((i + 1) + 1)..Len(up) : up[j].type = "add"
    BY <1>0, <2>1 DEF AddLast
  <2>3. j \in DOMAIN up /\ j \in Nat /\ j # 1 /\ j - 1 \in (i + 1)..Len(up')
    BY <1>2, <2>1, <2>2
  <2>4. j - 1 \in DOMAIN up' /\ (j - 1) + 1 = j
    BY <1>1, <2>3
  <2>5. up'[j - 1] = up[j]
    BY <1>1, <2>4
  <2> QED BY <2>2, <2>3, <2>5
<1> QED BY <1>5, <1>6, <1>7

(* A commit is sent behind those before it.                                *)
LEMMA UpCommitted ==
  ASSUME Types, LinkInv, CallInv, OrderInv, CoreKept, Top' = Top,
         NEW d \in Docs, NEW op \in {"set", "patch"}, Commit(d, op)
  PROVE  InOrder' /\ AllSent' /\ AddLast'
<1>0. InOrder /\ AllSent /\ AddLast /\ up \in Seq(UpFrame) /\ Top \in Nat /\ Len(mine) \in Nat
      /\ Len(up) \in Nat /\ DOMAIN up = 1..Len(up)
  BY OrderParts, TypeFacts DEF Types
<1>1. PICK n \in Nat : n = Len(mine) + 1
  BY <1>0
<1>2. /\ Len(mine') = n /\ DOMAIN mine' = DOMAIN mine \union {n}
      /\ mine'[n].doc = d /\ d \in wanted
      /\ conn # "up" => up' = up
      /\ conn = "up" => up' = Append(up, CommitFrame(mine', n))
      /\ CommitFrame(mine', n) \in CommitFrames
  BY <1>1, CommitEffect
<1>3. UNCHANGED <<conn, wanted, call>>
  BY Unchanged
<1>4. CASE conn # "up"
  <2>1. ASSUME NEW i \in DOMAIN up', IsCommit(up'[i])
        PROVE  /\ up'[i].id \in DOMAIN mine'
               /\ up'[i] = CommitFrame(mine', up'[i].id)
               /\ \A m \in (Top' + 1)..(up'[i].id - 1) : \E j \in 1..(i - 1) :
                    IsCommit(up'[j]) /\ up'[j].id = m
    <3>1. /\ up[i].id \in DOMAIN mine
          /\ up[i] = CommitFrame(mine, up[i].id)
          /\ \A m \in (Top + 1)..(up[i].id - 1) : \E j \in 1..(i - 1) :
               IsCommit(up[j]) /\ up[j].id = m
      BY <1>0, <1>2, <1>4, <2>1 DEF InOrder
    <3> QED BY <1>2, <1>4, <3>1, FrameKept
  <2>2. InOrder'
    BY <2>1 DEF InOrder, IsCommit
  <2>3. AllSent'
    BY <1>3, <1>4 DEF AllSent
  <2>4. AddLast'
    BY <1>0, <1>2, <1>3, <1>4 DEF AddLast, IsCommit
  <2> QED BY <2>2, <2>3, <2>4
<1>5. CASE conn = "up"
  <2>1. PICK e \in UpFrame : e = CommitFrame(mine', n)
    BY <1>2 DEF UpFrame
  <2>2. up' = Append(up, e) /\ e.type = "commit" /\ e.id = n /\ e.doc = d
    BY <1>2, <1>5, <2>1 DEF CommitFrame
  <2>3. /\ Len(up) + 1 \in DOMAIN up' /\ up'[Len(up) + 1] = e /\ Len(up') = Len(up) + 1
        /\ \A i \in DOMAIN up :
             i \in Nat \ {0} /\ i <= Len(up) /\ i \in DOMAIN up' /\ up'[i] = up[i]
        /\ \A i \in DOMAIN up' : i \in DOMAIN up \/ i = Len(up) + 1
    BY <1>0, <2>2, AppendFacts
  <2>4. ASSUME NEW m \in (Top + 1)..Len(mine)
        PROVE  \E j \in 1..Len(up) : IsCommit(up'[j]) /\ up'[j].id = m
    <3>1. PICK j \in DOMAIN up : IsCommit(up[j]) /\ up[j].id = m
      BY <1>0, <1>5 DEF AllSent
    <3> QED BY <1>0, <2>3, <3>1
  <2>5. ASSUME NEW i \in DOMAIN up', IsCommit(up'[i])
        PROVE  /\ up'[i].id \in DOMAIN mine'
               /\ up'[i] = CommitFrame(mine', up'[i].id)
               /\ \A m \in (Top' + 1)..(up'[i].id - 1) : \E j \in 1..(i - 1) :
                    IsCommit(up'[j]) /\ up'[j].id = m
    <3>1. CASE i \in DOMAIN up
      <4>1. up'[i] = up[i] /\ i \in Nat /\ i <= Len(up)
        BY <2>3, <3>1
      <4>2. /\ up[i].id \in DOMAIN mine
            /\ up[i] = CommitFrame(mine, up[i].id)
            /\ \A m \in (Top + 1)..(up[i].id - 1) : \E j \in 1..(i - 1) :
                 IsCommit(up[j]) /\ up[j].id = m
        BY <1>0, <2>5, <3>1, <4>1 DEF InOrder
      <4>3. \A j \in 1..(i - 1) : j \in DOMAIN up /\ up'[j] = up[j]
        BY <1>0, <2>3, <4>1
      <4>4. \A m \in (Top' + 1)..(up'[i].id - 1) : \E j \in 1..(i - 1) :
              IsCommit(up'[j]) /\ up'[j].id = m
        BY <4>1, <4>2, <4>3
      <4> QED BY <1>2, <4>1, <4>2, <4>4, FrameKept
    <3>2. CASE i = Len(up) + 1
      <4>1. up'[i].id = n /\ up'[i] = CommitFrame(mine', n) /\ n \in DOMAIN mine'
        BY <1>2, <2>1, <2>2, <2>3, <3>2
      <4>2. n - 1 = Len(mine) /\ i - 1 = Len(up)
        BY <1>0, <1>1, <3>2
      <4> QED BY <2>4, <4>1, <4>2
    <3> QED BY <2>3, <3>1, <3>2
  <2>6. InOrder'
    BY <2>5 DEF InOrder, IsCommit
  <2>7. AllSent'
    <3> SUFFICES ASSUME NEW m \in (Top + 1)..n
                 PROVE  \E j \in DOMAIN up' : IsCommit(up'[j]) /\ up'[j].id = m
      BY <1>2 DEF AllSent, IsCommit
    <3>1. CASE m = n
      BY <2>2, <2>3, <3>1 DEF IsCommit
    <3>2. CASE m # n
      <4>1. m \in (Top + 1)..Len(mine)
        BY <1>0, <1>1, <3>2
      <4> QED BY <1>0, <2>3, <2>4, <4>1
    <3> QED BY <3>1, <3>2
  <2>8. AddLast'
    <3> SUFFICES ASSUME call.op = "add", NEW i \in DOMAIN up', IsCommit(up'[i]), up'[i].doc = call.doc
                 PROVE  \E j \in (i + 1)..Len(up') : up'[j].type = "add"
      BY <1>3 DEF AddLast, IsCommit
    <3>1. call.doc \notin wanted
      BY DEF CallInv, NoCall
    <3>2. i \in DOMAIN up /\ up'[i] = up[i] /\ i \in Nat
      BY <1>2, <2>2, <2>3, <3>1
    <3>3. PICK j \in (i + 1)..Len(up) : up[j].type = "add"
      BY <1>0, <3>2 DEF AddLast
    <3>4. j \in DOMAIN up /\ j \in (i + 1)..Len(up')
      BY <1>0, <2>3, <3>2, <3>3
    <3> QED BY <2>3, <3>3, <3>4
  <2> QED BY <2>6, <2>7, <2>8
<1> QED BY <1>4, <1>5

(* A call is sent behind the commits.                                      *)
LEMMA UpCalled ==
  ASSUME Types, LinkInv, OrderInv, Top' = Top, mine' = mine, Call
  PROVE  InOrder' /\ AllSent' /\ AddLast'
<1>0. InOrder /\ AllSent /\ AddLast /\ up \in Seq(UpFrame) /\ Len(up) \in Nat
      /\ DOMAIN up = 1..Len(up)
  BY OrderParts, TypeFacts DEF Types
<1>1. conn = "up" /\ conn' = conn
  BY DEF Call
<1>2. PICK e : /\ up' = Append(up, e) /\ e.type \in {"add", "set"}
               /\ call'.op = "add" => e.type = "add"
  <2>1. CASE \E d \in Docs : /\ call' = [op |-> "add", doc |-> d]
                             /\ up' = Append(up, [type |-> "add", doc |-> d])
    BY <2>1
  <2>2. CASE \E d \in Docs : /\ call' = [op |-> "remove", doc |-> d]
                             /\ up' = Append(up, [type |-> "set", watches |-> wanted'])
    BY <2>2
  <2>3. wanted \in SUBSET Docs
    BY DEF Types
  <2> QED BY <2>1, <2>2, <2>3 DEF Call
<1>3. /\ Len(up) + 1 \in DOMAIN up' /\ up'[Len(up) + 1] = e /\ Len(up') = Len(up) + 1
      /\ \A i \in DOMAIN up :
           i \in Nat \ {0} /\ i <= Len(up) /\ i \in DOMAIN up' /\ up'[i] = up[i]
      /\ \A i \in DOMAIN up' : i \in DOMAIN up \/ i = Len(up) + 1
  BY <1>0, <1>2
<1>4. \A i \in DOMAIN up' : IsCommit(up'[i]) => i \in DOMAIN up
  BY <1>2, <1>3 DEF IsCommit
<1>5. ASSUME NEW i \in DOMAIN up', IsCommit(up'[i])
      PROVE  /\ up'[i].id \in DOMAIN mine'
             /\ up'[i] = CommitFrame(mine', up'[i].id)
             /\ \A m \in (Top' + 1)..(up'[i].id - 1) : \E j \in 1..(i - 1) :
                  IsCommit(up'[j]) /\ up'[j].id = m
  <2>1. i \in DOMAIN up /\ up'[i] = up[i] /\ i \in Nat /\ i <= Len(up)
    BY <1>3, <1>4, <1>5
  <2>2. /\ up[i].id \in DOMAIN mine
        /\ up[i] = CommitFrame(mine, up[i].id)
        /\ \A m \in (Top + 1)..(up[i].id - 1) : \E j \in 1..(i - 1) :
             IsCommit(up[j]) /\ up[j].id = m
    BY <1>0, <1>5, <2>1 DEF InOrder
  <2>3. \A j \in 1..(i - 1) : j \in DOMAIN up /\ up'[j] = up[j]
    BY <1>0, <1>3, <2>1
  <2>4. \A m \in (Top' + 1)..(up'[i].id - 1) : \E j \in 1..(i - 1) :
          IsCommit(up'[j]) /\ up'[j].id = m
    BY <2>1, <2>2, <2>3
  <2> QED BY <2>1, <2>2, <2>4
<1>6. InOrder'
  BY <1>5 DEF InOrder, IsCommit
<1>7. AllSent'
  <2> SUFFICES ASSUME NEW m \in (Top + 1)..Len(mine)
               PROVE  \E j \in DOMAIN up' : IsCommit(up'[j]) /\ up'[j].id = m
    BY DEF AllSent, IsCommit
  <2>1. PICK j \in DOMAIN up : IsCommit(up[j]) /\ up[j].id = m
    BY <1>0, <1>1 DEF AllSent
  <2> QED BY <1>3, <2>1
<1>8. AddLast'
  <2> SUFFICES ASSUME call'.op = "add", NEW i \in DOMAIN up', IsCommit(up'[i])
               PROVE  \E j \in (i + 1)..Len(up') : up'[j].type = "add"
    BY DEF AddLast, IsCommit
  <2>1. i \in Nat /\ i <= Len(up)
    BY <1>3, <1>4
  <2>2. Len(up) + 1 \in (i + 1)..Len(up') /\ up'[Len(up) + 1].type = "add"
    BY <1>0, <1>2, <1>3, <2>1
  <2> QED BY <2>2
<1> QED BY <1>6, <1>7, <1>8

(* After an open, what is unanswered is sent again, in its order; what was *)
(* answered is below Top.                                                  *)
LEMMA UpRestored ==
  ASSUME Types, LinkInv, OrderInv, AnswerInv, CoreKept, Len(mine') = Len(mine), Top' = Top,
         Restored
  PROVE  InOrder' /\ AllSent' /\ AddLast'
<1>1. down # <<>> /\ down[1].type = "opened"
  BY DEF Restored, Received, Types
<1>2. up = <<>> /\ conn = "opening" /\ call = NoCall /\ call' = call
  BY <1>1, Connected DEF Restored, LinkInv
<1>3. PICK O \in Seq(DOMAIN mine) : O = Outstanding
  BY OutstandingFacts
<1>4. /\ \A i \in DOMAIN O : mine[O[i]].at = "sent"
      /\ \A i, j \in DOMAIN O : i < j => O[i] < O[j]
      /\ \A n \in DOMAIN mine : mine[n].at = "sent" => \E i \in DOMAIN O : O[i] = n
  BY <1>3, OutstandingFacts
<1>5. /\ \A i \in DOMAIN O : O[i] \in DOMAIN mine /\ O[i] \in Nat
      /\ Len(O) \in Nat /\ DOMAIN O = 1..Len(O)
      /\ DOMAIN mine = 1..Len(mine) /\ Len(mine) \in Nat /\ Top \in Nat
      /\ DOMAIN mine' = DOMAIN mine
  <2>1. mine' \in Seq(Own)
    BY DEF CoreKept
  <2> QED BY <1>3, <2>1, TypeFacts
<1>6. up' = [i \in DOMAIN O |-> CommitFrame(mine, O[i])]
  <2>1. up' = <<>> \o [i \in DOMAIN O |-> CommitFrame(mine, O[i])]
    BY <1>2, <1>3 DEF Restored
  <2>2. \A i \in DOMAIN O : CommitFrame(mine, O[i]) \in UpFrame
    BY <1>5, TypeFacts DEF UpFrame, CommitFrames, CommitFrame, Own
  <2> DEFINE t == [i \in DOMAIN O |-> CommitFrame(mine, O[i])]
  <2>3. t \in Seq(UpFrame)
    BY <1>5, <2>2
  <2> HIDE DEF t
  <2>4. <<>> \o t = t
    BY <2>3
  <2> QED BY <2>1, <2>4 DEF t
<1>7. ASSUME NEW m \in (Top + 1)..Len(mine)
      PROVE  \E i \in DOMAIN O : O[i] = m
  <2>1. m \in DOMAIN mine /\ m \notin 1..Top
    BY <1>5
  <2>2. mine[m].at = "sent"
    BY <2>1 DEF AnswerInv, Told
  <2> QED BY <1>4, <2>1, <2>2
<1>8. ASSUME NEW i \in DOMAIN up'
      PROVE  /\ i \in DOMAIN O /\ IsCommit(up'[i]) /\ up'[i].id = O[i]
             /\ up'[i] = CommitFrame(mine', O[i])
  <2>1. i \in DOMAIN O /\ up'[i] = CommitFrame(mine, O[i])
    BY <1>6
  <2>2. CommitFrame(mine', O[i]) = CommitFrame(mine, O[i])
    BY <1>5, <2>1, FrameKept
  <2> QED BY <2>1, <2>2 DEF CommitFrame, IsCommit
<1>9. ASSUME NEW i \in DOMAIN up', NEW m \in (Top' + 1)..(up'[i].id - 1)
      PROVE  \E j \in 1..(i - 1) : IsCommit(up'[j]) /\ up'[j].id = m
  <2>1. m \in (Top + 1)..Len(mine) /\ m < O[i] /\ i \in DOMAIN O /\ m \in Nat
    BY <1>5, <1>8
  <2>2. PICK j \in DOMAIN O : O[j] = m
    BY <1>7, <2>1
  <2>3. j < i
    <3>1. ~(i < j) /\ i # j
      BY <1>4, <1>5, <2>1, <2>2
    <3> QED BY <1>5, <2>1, <3>1
  <2>4. j \in 1..(i - 1) /\ j \in DOMAIN up'
    BY <1>5, <1>6, <2>1, <2>3
  <2> QED BY <1>8, <2>2, <2>4
<1>10. InOrder'
  BY <1>5, <1>8, <1>9 DEF InOrder, IsCommit
<1>11. AllSent'
  <2> SUFFICES ASSUME NEW m \in (Top + 1)..Len(mine)
               PROVE  \E j \in DOMAIN up' : IsCommit(up'[j]) /\ up'[j].id = m
    BY DEF AllSent, IsCommit
  <2>1. PICK j \in DOMAIN O : O[j] = m
    BY <1>7
  <2> QED BY <1>6, <1>8, <2>1
<1>12. AddLast'
  BY <1>2 DEF AddLast, NoCall
<1> QED BY <1>10, <1>11, <1>12

(* A new commit comes of Commit.                                           *)
LEMMA Committed ==
  ASSUME Types, OrderInv, AnswerInv, Next, NEW n \in DOMAIN mine', n \notin DOMAIN mine
  PROVE  \E d \in Docs : \E op \in {"set", "patch"} : Commit(d, op)
<1>1. CASE Inner
  BY <1>1, InnerFacts DEF ClientKept
<1>2. CASE ServerStep \/ Serve \/ Lose \/ Reconnect \/ Call
  BY <1>2
     DEF ServerStep, ReceiveCommit, ReceiveAdd, ReceiveSet, ReceiveOpen, Serve, Lose,
         Reconnect, Call, clientVars
<1>3. CASE Effect \/ CallAnswered \/ Restored
  BY <1>3 DEF Effect, CallAnswered, Restored, Absorb
<1>4. CASE Verdict
  BY <1>4, VerdictEffect DEF SameCore
<1>5. CASE \E i \in DOMAIN mine : Resolve(i)
  BY <1>5, ResolveEffect DEF SameCore
<1> QED BY <1>1, <1>2, <1>3, <1>4, <1>5 DEF Next, Inner

HeadsTyped == \A d \in Docs : HeadSeq(d) \in Nat

(* Heads are naturals.                                                     *)
LEMMA HeadNat == Types => HeadsTyped
BY HeadFacts DEF HeadsTyped

(* Every step keeps the order on the way up.                               *)
LEMMA OrderStep == ASSUME DeliveryInv, Next PROVE OrderInv'
<1>0. Types /\ LinkInv /\ CallInv /\ LogInv /\ OrderInv /\ AnswerInv /\ ValueInv
  BY DEF DeliveryInv
<1>00. /\ Top \in Nat /\ DOMAIN mine = 1..Len(mine) /\ Len(mine) \in Nat
       /\ \A n \in DOMAIN mine : mine[n] \in Own
  BY <1>0, TypeFacts
<1>1. CoreKept
  BY <1>0, CoreStep
<1>2. Grown /\ \A n \in 1..Top : OldRecord(n)
  BY <1>0, LogStep
<1>3. DOMAIN mine' = 1..Len(mine') /\ Len(mine') \in Nat /\ Len(mine) <= Len(mine')
  BY <1>1 DEF CoreKept
<1>4. \A n \in DOMAIN mine : mine[n].doc \in Docs /\ mine[n].basis \in Nat
  BY <1>00 DEF Own
<1>5. \A d \in Docs : HeadSeq(d) \in Nat /\ HeadSeq(d) <= HeadSeq(d)' /\ HeadSeq(d)' \in Nat
  <2>1. \A d \in Docs : HeadSeq(d) \in Nat /\ HeadSeq(d) <= HeadSeq(d)'
    BY <1>0, <1>2, HeadFacts DEF Grown
  <2>2. Types'
    BY <1>0, TypesServer, TypesClient DEF Next
  <2>4. HeadsTyped'
    BY <2>2, HeadNat, PTL
  <2>3. \A d \in Docs : HeadSeq(d)' \in Nat
    BY <2>4 DEF HeadsTyped
  <2> QED BY <2>1, <2>3
<1>6. ASSUME NEW n \in DOMAIN mine' PROVE mine'[n].basis <= HeadSeq(mine[n].doc)'
  <2>1. CASE n \in DOMAIN mine
    <3>1. mine'[n].doc = mine[n].doc /\ mine'[n].basis = mine[n].basis
      BY <1>1, <2>1 DEF CoreKept
    <3>2. mine[n].basis <= HeadSeq(mine[n].doc)
      BY <1>0, <2>1 DEF OrderInv
    <3> QED BY <1>4, <1>5, <2>1, <3>1, <3>2
  <2>2. CASE n \notin DOMAIN mine
    <3>1. PICK d \in Docs, op \in {"set", "patch"} : Commit(d, op)
      BY <1>0, <2>2, Committed
    <3>2. DOMAIN mine' = DOMAIN mine \union {Len(mine) + 1} /\ mine'[Len(mine) + 1].doc = d
          /\ mine'[Len(mine) + 1].basis = held[d].seq
      BY <1>0, <3>1, CommitEffect
    <3>3. held[d].seq <= HeadSeq(d) /\ held[d].seq \in Nat
      BY <1>0 DEF ValueInv, Types, Record
    <3>4. mine'[n].doc = d /\ mine'[n].basis = held[d].seq
      BY <2>2, <3>2
    <3> QED BY <1>5, <3>3, <3>4
  <2> QED BY <2>1, <2>2
<1>7. ASSUME NEW n \in 1..Top PROVE Decided(n)'
  <2>1. n \in DOMAIN mine /\ Decided(n)
    BY <1>0, <1>00 DEF OrderInv
  <2>2. CASE Recorded(n)
    BY <1>2, <2>2 DEF OldRecord, Decided
  <2>3. CASE mine[n].op = "set" /\ mine[n].basis < HeadSeq(mine[n].doc)
    <3>1. mine'[n].op = "set" /\ mine'[n].doc = mine[n].doc /\ mine'[n].basis = mine[n].basis
      BY <1>1, <2>1, <2>3 DEF CoreKept
    <3>2. mine'[n].basis < HeadSeq(mine[n].doc)'
      BY <1>4, <1>5, <2>1, <2>3, <3>1
    <3> QED BY <3>1, <3>2 DEF Decided
  <2> QED BY <2>1, <2>2, <2>3 DEF Decided
<1>8. CASE ReceiveCommit
  <2>1. PICK n, ok, seq : CommitServed(n, ok, seq)
    BY <1>0, <1>8, ReceiveCommitEffect
  <2>2. n \in Nat \ {0} /\ n \in DOMAIN mine /\ (n > Top => n = Top + 1)
    BY <1>0, <2>1, CommitNext
  <2>3. Top' \in {Top, n} /\ Top' >= Top /\ Top' >= n
    BY <1>0, <2>1, <2>2, TopServed
  <2>4. UNCHANGED <<conn, call, mine>>
    BY <1>8, Unchanged DEF clientVars
  <2>5. Top' <= Len(mine')
    BY <1>0, <1>00, <2>2, <2>3, <2>4 DEF OrderInv
  <2>6. ASSUME NEW m \in 1..Top' PROVE Decided(m)'
    <3>1. CASE m \in 1..Top
      BY <1>7, <3>1
    <3>2. CASE m \notin 1..Top
      <4>1. m = n /\ n = Top + 1
        BY <1>00, <2>2, <2>3, <3>2
      <4>2. mine[n].doc \in Docs /\ mine[n].basis <= HeadSeq(mine[n].doc)
        BY <1>0, <1>4, <2>2 DEF OrderInv
      <4>3. CASE \E e : Accepted(n, e)
        <5>1. PICK e \in Entry : log' = Append(log, e) /\ e.by = n
          BY <4>3 DEF Accepted
        <5>2. Recorded(e.by)'
          BY <1>0, <5>1, LogGrows
        <5> QED BY <4>1, <5>1, <5>2 DEF Decided
      <4>4. CASE Refused(n)
        <5>1. /\ mine[n].op = "set" /\ mine[n].basis # HeadSeq(mine[n].doc)
              /\ log' = log
          BY <4>4 DEF Refused
        <5>3. \A d \in Docs : HeadSeq(d)' = HeadSeq(d)
          BY <1>0, <5>1, SameLog
        <5>4. HeadSeq(mine[n].doc)' = HeadSeq(mine[n].doc)
          BY <2>4, <4>2, <5>3
        <5>5. mine[n].basis < HeadSeq(mine[n].doc)
          BY <1>4, <1>5, <2>2, <4>2, <5>1
        <5> QED BY <2>4, <4>1, <5>1, <5>4, <5>5 DEF Decided
      <4>5. CASE RecordedAs(n, seq)
        <5>1. seq \in Nat /\ n <= Top
          BY <1>0, <2>1, <2>2, <4>5, RecordFacts DEF CommitServed
        <5> QED BY <1>00, <4>1, <5>1
      <4> QED BY <2>1, <4>3, <4>4, <4>5 DEF CommitServed, Answered
    <3> QED BY <3>1, <3>2
  <2>7. up # <<>> /\ up' = Tail(up) /\ (IsCommit(up[1]) => up[1].id <= Top')
    BY <2>1, <2>3 DEF CommitServed
  <2>8. InOrder' /\ AllSent' /\ AddLast'
    BY <1>0, <1>00, <2>2, <2>3, <2>4, <2>7, UpTaken
  <2> QED BY <1>6, <2>5, <2>6, <2>8, OrderPartsNext
<1>9. CASE ~ReceiveCommit
  <2>1. Top' = Top
    BY <1>0, <1>9, TopKept
  <2>2. Top' <= Len(mine')
    BY <1>0, <1>00, <1>3, <2>1 DEF OrderInv
  <2> DEFINE Goal == InOrder' /\ AllSent' /\ AddLast'
  <2>3. SUFFICES Goal
    BY <1>6, <1>7, <2>1, <2>2, OrderPartsNext
  <2>4. CASE Inner
    <3>1. UNCHANGED <<up, conn, call, mine>>
      BY <1>0, <2>4, InnerFacts DEF ClientKept
    <3> QED BY <1>0, <1>1, <2>1, <3>1, UpSame
  <2>5. CASE Serve
    <3>1. UNCHANGED <<up, conn, call, mine>>
      BY <2>5, Unchanged DEF clientVars
    <3> QED BY <1>0, <1>1, <2>1, <3>1, UpSame
  <2>6. CASE ReceiveAdd \/ ReceiveSet \/ ReceiveOpen
    <3>1. UNCHANGED <<conn, call, mine>>
      BY <2>6, Unchanged DEF clientVars
    <3>2. up # <<>> /\ up' = Tail(up) /\ ~IsCommit(up[1])
      <4>1. up # <<>> /\ up' = Tail(up) /\ Head(up).type # "commit"
        BY <2>6 DEF ReceiveAdd, ReceiveSet, ReceiveOpen, Requested
      <4> QED BY <1>0, <4>1, UpHead DEF IsCommit
    <3> QED BY <1>0, <1>00, <2>1, <3>1, <3>2, UpTaken
  <2>7. CASE Lose
    <3>1. up' = <<>> /\ conn' = "down" /\ call' = NoCall
      BY <2>7 DEF Lose
    <3> QED BY <3>1 DEF InOrder, AllSent, AddLast, NoCall
  <2>8. CASE Reconnect
    <3>1. up' = <<[type |-> "open", holdings |-> delivered]>> /\ conn' = "opening"
          /\ call' = call /\ conn = "down"
      BY <2>8 DEF Reconnect
    <3>2. call = NoCall
      BY <1>0, <3>1 DEF LinkInv
    <3>3. \A i \in DOMAIN up' : ~IsCommit(up'[i])
      BY <3>1 DEF IsCommit
    <3> QED BY <3>1, <3>2, <3>3 DEF InOrder, AllSent, AddLast, NoCall, IsCommit
  <2>9. CASE Call
    <3>1. mine' = mine
      BY <2>9 DEF Call
    <3> QED BY <1>0, <2>1, <2>9, <3>1, UpCalled
  <2>10. CASE Effect \/ CallAnswered
    <3>1. up' = up /\ conn' = conn /\ (call' = call \/ call' = NoCall)
          /\ DOMAIN mine' = DOMAIN mine
      BY <2>10 DEF Effect, CallAnswered, Absorb
    <3>2. Len(mine') = Len(mine)
      BY <1>00, <1>3, <3>1, SameInterval
    <3>3. call' = call \/ call'.op # "add"
      BY <3>1 DEF NoCall
    <3> QED BY <1>0, <1>1, <2>1, <3>1, <3>2, <3>3, UpSame
  <2>11. CASE Restored
    <3>1. DOMAIN mine' = DOMAIN mine
      BY <2>11 DEF Restored, Absorb
    <3>2. Len(mine') = Len(mine)
      BY <1>00, <1>3, <3>1, SameInterval
    <3> QED BY <1>0, <1>1, <2>1, <2>11, <3>2, UpRestored
  <2>12. CASE Verdict
    <3>1. up' = up /\ conn' = conn /\ call' = call
      BY <2>12 DEF Verdict
    <3>2. SameCore
      BY <1>0, <2>12, VerdictEffect
    <3>3. Len(mine') = Len(mine)
      BY <3>2 DEF SameCore
    <3> QED BY <1>0, <1>1, <2>1, <3>1, <3>3, UpSame
  <2>13. ASSUME NEW n \in DOMAIN mine, Resolve(n) PROVE Goal
    <3>1. up' = up /\ conn' = conn /\ call' = call
      BY <2>13 DEF Resolve, Settle, RepairTimesOut
    <3>2. SameCore
      BY <1>0, <2>13, ResolveEffect
    <3>3. Len(mine') = Len(mine)
      BY <3>2 DEF SameCore
    <3> QED BY <1>0, <1>1, <2>1, <3>1, <3>3, UpSame
  <2>14. ASSUME NEW d \in Docs, NEW op \in {"set", "patch"}, Commit(d, op) PROVE Goal
    BY <1>0, <1>1, <2>1, <2>14, UpCommitted
  <2> HIDE DEF Goal
  <2> QED BY <1>9, <2>4, <2>5, <2>6, <2>7, <2>8, <2>9, <2>10, <2>11, <2>12, <2>13,
             <2>14 DEF Next, ServerStep, Inner
<1> QED BY <1>8, <1>9

(* Only a commit that is received is refused.                              *)
LEMMA QuietRefused ==
  ASSUME Next, ~ReceiveCommit
  PROVE  refused' = refused
BY
   DEF Next, ServerStep, ForeignCommit, ReceiveAdd, ReceiveSet, ReceiveOpen, Serve,
       EvaluationFails, SendFails, StartPass, EndPass, FailPass, Detach, Commit, Lose,
       Reconnect, Call, Effect, CallAnswered, Restored, Verdict,
       Resolve, Settle, RepairTimesOut

(* A refusal notes the head it was made over, the first time.              *)
LEMMA RefusalNoted ==
  ASSUME Types, OrderInv, RefusedInv, ReceiveCommit,
         NEW n, NEW ok, NEW seq, CommitServed(n, ok, seq)
  PROVE  /\ refused' \in [1..MaxOwn -> Nat]
         /\ \A m \in 1..MaxOwn : m # n \/ refused[m] # 0 => refused'[m] = refused[m]
         /\ Refused(n) /\ refused[n] = 0 => refused'[n] = HeadSeq(mine[n].doc)
<1> DEFINE c == Head(up)
           new == RecordedAt(c.id) = {}
           okay == ~new \/ c.op = "patch" \/ c.basis = HeadSeq(c.doc)
<1>1. n \in DOMAIN mine /\ up # <<>> /\ up[1].type = "commit" /\ up[1].id = n
  BY DEF CommitServed
<1>2. c = up[1] /\ 1 \in DOMAIN up
  BY <1>1, UpHead DEF Types
<1>3. c = CommitFrame(mine, n) /\ c.id = n
  BY <1>1, <1>2 DEF OrderInv, IsCommit
<1>4. mine[n] \in Own /\ n \in 1..MaxOwn /\ MaxOwn \in Nat
  <2>1. mine[n] \in Own /\ n \in Nat \ {0} /\ n <= Len(mine) /\ Len(mine) \in Nat
    BY <1>1, TypeFacts
  <2>2. MaxOwn \in Nat
    BY BoundsAssumption
  <2> QED BY <2>1, <2>2 DEF RefusedInv
<1>5. c.doc = mine[n].doc /\ c.op = mine[n].op /\ c.basis = mine[n].basis /\ mine[n].doc \in Docs
  BY <1>3, <1>4 DEF CommitFrame, Own
<1>6. HeadSeq(c.doc) \in Nat
  BY <1>5, HeadFacts
<1>7. refused' = IF okay \/ refused[c.id] # 0 THEN refused
                 ELSE [refused EXCEPT ![c.id] = HeadSeq(c.doc)]
  BY DEF ReceiveCommit
<1>8. refused' = refused \/ refused' = [refused EXCEPT ![n] = HeadSeq(c.doc)]
  BY <1>3, <1>7
<1>9. refused[n] # 0 => refused' = refused
  BY <1>3, <1>7
<1>10. Refused(n) => ~okay
  <2>1. Refused(n) => new
    BY <1>3 DEF Refused, Recorded, RecordedAt
  <2> QED BY <1>5, <2>1 DEF Refused
<1>11. Refused(n) /\ refused[n] = 0 => refused' = [refused EXCEPT ![n] = HeadSeq(c.doc)]
  BY <1>3, <1>7, <1>10
<1> HIDE DEF c, new, okay
<1> QED BY <1>4, <1>5, <1>6, <1>8, <1>9, <1>11 DEF RefusedInv

(* Every step keeps the heads that refused a commit.                       *)
LEMMA RefusedStep == ASSUME DeliveryInv, Next PROVE RefusedInv'
<1>0. Types /\ LogInv /\ OrderInv /\ AnswerInv /\ ValueInv /\ RefusedInv
  BY DEF DeliveryInv
<1>1. /\ Top \in Nat /\ DOMAIN mine = 1..Len(mine) /\ Len(mine) \in Nat
      /\ \A n \in DOMAIN mine : mine[n] \in Own
  BY <1>0, TypeFacts
<1>2. CoreKept /\ Grown /\ (\A n \in 1..Top : OldRecord(n)) /\ MaxOwn \in Nat
  BY <1>0, CoreStep, LogStep, BoundsAssumption
<1>3. Len(mine') <= MaxOwn
  <2>1. CASE \E d \in Docs : \E op \in {"set", "patch"} : Commit(d, op)
    <3>1. PICK d \in Docs, op \in {"set", "patch"} : Commit(d, op)
      BY <2>1
    <3>2. Len(mine') = Len(mine) + 1
      BY <1>0, <3>1, CommitEffect
    <3>3. Len(mine) < MaxOwn
      BY <3>1 DEF Commit
    <3> QED BY <1>1, <1>2, <3>2, <3>3
  <2>2. CASE ~\E d \in Docs : \E op \in {"set", "patch"} : Commit(d, op)
    <3>1. \A n \in DOMAIN mine' : n \in DOMAIN mine
      BY <1>0, <2>2, Committed
    <3>2. DOMAIN mine' = 1..Len(mine') /\ Len(mine') \in Nat
      BY <1>2 DEF CoreKept
    <3>3. Len(mine') = 0 \/ Len(mine') \in DOMAIN mine
      BY <3>1, <3>2
    <3> QED BY <1>0, <1>1, <1>2, <3>2, <3>3 DEF RefusedInv
  <2> QED BY <2>1, <2>2
<1>4. ASSUME NEW n \in 1..Top, ~Recorded(n)', refused'[n] = refused[n]
      PROVE  refused'[n] # 0 /\ refused'[n] <= HeadSeq(mine[n].doc)'
  <2>1. ~Recorded(n)
    BY <1>2, <1>4 DEF OldRecord
  <2>2. n \in DOMAIN mine /\ n \in 1..MaxOwn
    BY <1>0, <1>1, <1>2 DEF OrderInv, RefusedInv
  <2>3. mine'[n].doc = mine[n].doc /\ mine[n].doc \in Docs
    BY <1>1, <1>2, <2>2 DEF CoreKept, Own
  <2>4. refused[n] # 0 /\ refused[n] <= HeadSeq(mine[n].doc) /\ refused[n] \in Nat
    BY <1>0, <2>1, <2>2 DEF RefusedInv
  <2>5. HeadSeq(mine[n].doc) \in Nat /\ HeadSeq(mine[n].doc) <= HeadSeq(mine[n].doc)'
        /\ HeadSeq(mine[n].doc)' \in Nat
    <3>1. \A d \in Docs : HeadSeq(d) \in Nat /\ HeadSeq(d) <= HeadSeq(d)'
      BY <1>0, <1>2, HeadFacts DEF Grown
    <3>2. Types'
      BY <1>0, TypesServer, TypesClient DEF Next
    <3>3. HeadsTyped'
      BY <3>2, HeadNat, PTL
    <3>4. \A d \in Docs : HeadSeq(d)' \in Nat
      BY <3>3 DEF HeadsTyped
    <3> QED BY <2>3, <3>1, <3>4
  <2> QED BY <1>4, <2>4, <2>5
<1>5. CASE ~ReceiveCommit
  <2>1. refused' = refused /\ Top' = Top
    BY <1>0, <1>5, QuietRefused, TopKept
  <2> QED BY <1>0, <1>3, <1>4, <2>1 DEF RefusedInv
<1>6. CASE ReceiveCommit
  <2>1. PICK n, ok, seq : CommitServed(n, ok, seq)
    BY <1>0, <1>6, ReceiveCommitEffect
  <2>2. n \in Nat \ {0} /\ n \in DOMAIN mine /\ (n > Top => n = Top + 1)
    BY <1>0, <2>1, CommitNext
  <2>3. Top' \in {Top, n} /\ Top' >= Top /\ Top' >= n
    BY <1>0, <2>1, <2>2, TopServed
  <2>4. /\ refused' \in [1..MaxOwn -> Nat]
        /\ \A m \in 1..MaxOwn : m # n \/ refused[m] # 0 => refused'[m] = refused[m]
        /\ Refused(n) /\ refused[n] = 0 => refused'[n] = HeadSeq(mine[n].doc)
    BY <1>0, <1>6, <2>1, RefusalNoted
  <2>5. ASSUME NEW m \in 1..Top', ~Recorded(m)'
        PROVE  refused'[m] # 0 /\ refused'[m] <= HeadSeq(mine[m].doc)'
    <3>1. CASE m \in 1..Top
      <4>1. m \in 1..MaxOwn
        BY <1>0, <1>1, <1>2, <3>1 DEF OrderInv, RefusedInv
      <4>2. ~Recorded(m)
        BY <1>2, <2>5, <3>1 DEF OldRecord
      <4>3. refused'[m] = refused[m]
        BY <1>0, <2>4, <3>1, <4>1, <4>2 DEF RefusedInv
      <4> QED BY <1>4, <2>5, <3>1, <4>3
    <3>2. CASE m \notin 1..Top
      <4>1. m = n /\ n = Top + 1 /\ n \in 1..MaxOwn
        BY <1>0, <1>1, <1>2, <2>2, <2>3, <3>2 DEF RefusedInv
      <4>2. refused[n] = 0
        BY <1>0, <1>1, <4>1 DEF RefusedInv
      <4>3. mine[n].doc \in Docs /\ mine' = mine
        BY <1>1, <1>6, <2>2, Unchanged DEF Own, clientVars
      <4>4. CASE \E e : Accepted(n, e)
        <5>1. PICK e \in Entry : log' = Append(log, e) /\ e.by = n
          BY <4>4 DEF Accepted
        <5>2. Recorded(e.by)'
          BY <1>0, <5>1, LogGrows
        <5> QED BY <2>5, <4>1, <5>1, <5>2
      <4>5. CASE Refused(n)
        <5>1. \A d \in Docs : HeadSeq(d)' = HeadSeq(d)
          BY <1>0, <4>5, SameLog DEF Refused
        <5>2. HeadSeq(mine[n].doc)' = HeadSeq(mine[n].doc)
          BY <4>3, <5>1
        <5>3. HeadSeq(mine[n].doc) \in Nat /\ HeadSeq(mine[n].doc) >= 1
          BY <1>0, <4>3, HeadFacts
        <5> QED BY <2>4, <4>1, <4>2, <4>5, <5>2, <5>3
      <4>6. CASE RecordedAs(n, seq)
        <5>1. seq \in Nat /\ n <= Top
          BY <1>0, <2>1, <2>2, <4>6, RecordFacts DEF CommitServed
        <5> QED BY <1>1, <4>1, <5>1
      <4> QED BY <2>1, <4>4, <4>5, <4>6 DEF CommitServed, Answered
    <3> QED BY <3>1, <3>2
  <2>6. ASSUME NEW m \in 1..MaxOwn, m > Top' PROVE refused'[m] = 0
    <3>1. m # n /\ m > Top
      BY <1>1, <1>2, <2>2, <2>3, <2>6
    <3> QED BY <1>0, <2>4, <3>1 DEF RefusedInv
  <2> QED BY <1>3, <2>4, <2>5, <2>6 DEF RefusedInv
<1> QED BY <1>5, <1>6

(* Every step keeps the types.                                             *)
LEMMA TypesStep == ASSUME DeliveryInv, Next PROVE Types'
<1>1. Types /\ LogInv /\ OrderInv /\ AnswerInv /\ ValueInv
  BY DEF DeliveryInv
<1> QED BY <1>1, TypesServer, TypesClient DEF Next

(* Top never falls.                                                        *)
LEMMA TopGrows == ASSUME Types, LogInv, OrderInv, Next PROVE Top' >= Top /\ Top' \in Nat
/\ Top \in Nat
<1>0. Top \in Nat
  BY TypeFacts
<1>1. CASE ReceiveCommit
  <2>1. PICK n, ok, seq : CommitServed(n, ok, seq)
    BY <1>1, ReceiveCommitEffect
  <2>2. n \in Nat
    BY <2>1, CommitNext
  <2> QED BY <1>0, <2>1, <2>2, TopServed
<1>2. CASE ~ReceiveCommit
  BY <1>0, <1>2, TopKept
<1> QED BY <1>1, <1>2

(* The marks that reach the client.                                        *)
BringsHeads(f) == \A d \in Docs : Raises(f, d, 0) => f.ups[d] = HeadSeq(d)

(* A new frame has a marker of at most Top, and brings the heads of what   *)
(* it brings.                                                              *)
LEMMA MarksStep ==
  ASSUME DeliveryInv, Next
  PROVE  \A k \in DOMAIN down' :
           \/ \E j \in DOMAIN down : down'[k] = down[j]
           \/ MarkIn(down'[k]) <= Top /\ BringsHeads(down'[k])
<1>0. Types /\ LogInv /\ OrderInv /\ Top \in Nat /\ session.owed <= Top
  BY TypeFacts DEF DeliveryInv
<1> DEFINE Goal == \A k \in DOMAIN down' :
           \/ \E j \in DOMAIN down : down'[k] = down[j]
           \/ MarkIn(down'[k]) <= Top /\ BringsHeads(down'[k])
<1> SUFFICES Goal
  OBVIOUS
<1>1. down' = down => Goal
  OBVIOUS
<1>2. ASSUME NEW f \in DownFrame, Sent(f) \/ down' = down, MarkIn(f) <= Top, BringsHeads(f) PROVE Goal
  <2>1. \A k \in DOMAIN down' : (k \in DOMAIN down /\ down'[k] = down[k]) \/ down'[k] = f
    BY <1>0, <1>2, SentFrames
  <2> QED BY <1>2, <2>1
<1>3. down # <<>> /\ down' = Tail(down) => Goal
  <2>1. down # <<>> /\ down' = Tail(down) => \A k \in DOMAIN down' :
          k + 1 \in DOMAIN down /\ down'[k] = down[k + 1]
    BY <1>0, ReceivedFrames
  <2> QED BY <2>1
<1> HIDE DEF Goal
<1>4. CASE Inner
  BY <1>0, <1>1, <1>4, InnerFacts DEF ClientKept
<1>5. CASE Serve
  <2>1. Sent(EffectFrame) \/ down' = down
    BY <1>0, <1>5, ServeEffect
  <2>2. EffectFrame \in DownFrame /\ MarkIn(EffectFrame) <= Top /\ BringsHeads(EffectFrame)
    <3>1. ServedBy.marker = IF session.owed > session.caught THEN session.owed ELSE 0
      BY <1>0, ServedFacts
    <3>2. BringsHeads(EffectFrame)
      BY <1>0, EffectFrameFacts DEF BringsHeads
    <3> QED BY <1>0, <3>1, <3>2, EffectFrameFacts
  <2> QED BY <1>2, <2>1, <2>2
<1>6. CASE ReceiveCommit
  <2>1. PICK n, ok, seq : CommitServed(n, ok, seq)
    BY <1>0, <1>6, ReceiveCommitEffect
  <2>2. PICK f : f = [type |-> "verdict", id |-> n, ok |-> ok, seq |-> seq]
    OBVIOUS
  <2>3. f \in DownFrame /\ MarkIn(f) <= Top /\ BringsHeads(f)
    <3>1. n \in Nat /\ ok \in BOOLEAN /\ seq \in Nat
      BY <1>0, <2>1, TypeFacts DEF CommitServed
    <3> QED BY <1>0, <2>2, <3>1 DEF DownFrame, Verdicts, MarkIn, BringsHeads, Raises
  <2>4. Sent(f)
    BY <2>1, <2>2 DEF CommitServed, Sent
  <2> QED BY <1>2, <2>3, <2>4
<1>7. CASE ReceiveAdd
  <2>1. PICK d, f : AddServed(d, f)
    BY <1>0, <1>7, ReceiveAddEffect
  <2>2. f \in DownFrame /\ Sent(f) /\ MarkIn(f) = 0 /\ BringsHeads(f)
    BY <2>1 DEF AddServed, BringsHeads
  <2> QED BY <1>0, <1>2, <2>2
<1>8. CASE ReceiveSet
  <2>1. PICK ws, f : SetServed(ws, f)
    BY <1>0, <1>8, ReceiveSetEffect
  <2>2. f \in DownFrame /\ Sent(f) /\ MarkIn(f) = 0 /\ BringsHeads(f)
    BY <2>1 DEF SetServed, BringsHeads
  <2> QED BY <1>0, <1>2, <2>2
<1>9. CASE ReceiveOpen
  <2>1. PICK f : OpenServed(f)
    BY <1>0, <1>9, ReceiveOpenEffect
  <2>2. f \in DownFrame /\ down' = Append(down, f) /\ MarkIn(f) <= Top /\ BringsHeads(f)
        /\ down \in Seq(DownFrame)
    BY <1>0, <2>1 DEF OpenServed, Types, BringsHeads
  <2>3. \A k \in DOMAIN down' : (k \in DOMAIN down /\ down'[k] = down[k]) \/ down'[k] = f
    BY <2>2, AppendFacts
  <2> QED BY <2>2, <2>3 DEF Goal
<1>10. CASE Effect \/ CallAnswered \/ Restored \/ Verdict
  BY <1>3, <1>10 DEF Effect, CallAnswered, Restored, Verdict, Received
<1>11. CASE Lose
  BY <1>11 DEF Lose, Goal
<1>12. CASE ~(Inner \/ Serve \/ ServerStep \/ Effect \/ CallAnswered \/ Restored \/ Verdict \/ Lose)
  <2>1. down' = down
    BY <1>12 DEF Next, Inner, Commit, Reconnect, Call, Resolve, Settle, RepairTimesOut
  <2> QED BY <1>1, <2>1
<1> QED BY <1>4, <1>5, <1>6, <1>7, <1>8, <1>9, <1>10, <1>11, <1>12 DEF ServerStep

(* A mark on its way arrives.                                              *)
LEMMA MarkStays ==
  ASSUME DeliveryInv, Next, ~Lose, NEW n \in Nat, MarkReached(n)
  PROVE  MarkReached(n)'
<1>0. Types /\ LogInv /\ OrderInv /\ ValueInv /\ marker \in Nat
  BY TypeFacts DEF DeliveryInv
<1> DEFINE Goal == MarkReached(n)'
<1> SUFFICES Goal
  OBVIOUS
<1>1. ASSUME marker' = marker, \A k \in DOMAIN down : k \in DOMAIN down' /\ down'[k] = down[k]
      PROVE  Goal
  BY <1>1 DEF MarkReached
<1>2. ASSUME NEW f \in DownFrame, Sent(f) \/ down' = down, marker' = marker PROVE Goal
  <2>1. \A k \in DOMAIN down : k \in DOMAIN down' /\ down'[k] = down[k]
    BY <1>0, <1>2, SentFrames
  <2> HIDE DEF Goal
  <2> QED BY <1>1, <1>2, <2>1
<1>3. ASSUME down # <<>>, down' = Tail(down), marker' \in Nat, marker' >= marker, marker' >= MarkIn(down[1])
      PROVE  Goal
  <2>1. \A k \in DOMAIN down : k \in Nat \ {0} /\ (k # 1 => k - 1 \in DOMAIN down')
    BY <1>0, <1>3, ReceivedFrames
  <2>2. \A k \in DOMAIN down' : down'[k] = down[k + 1]
    BY <1>0, <1>3, ReceivedFrames
  <2>3. CASE marker >= n
    BY <1>0, <1>3, <2>3 DEF MarkReached
  <2>4. ASSUME NEW k \in DOMAIN down, MarkIn(down[k]) >= n PROVE Goal
    <3>1. CASE k = 1
      <4>1. MarkIn(down[1]) \in Nat
        <5>1. 1 \in DOMAIN down /\ down[1] \in DownFrame
          BY <1>0, <1>3, DownHead
        <5> QED BY <5>1, FrameFacts
      <4> QED BY <1>3, <2>4, <3>1, <4>1 DEF MarkReached
    <3>2. CASE k # 1
      <4>1. k - 1 \in DOMAIN down' /\ (k - 1) + 1 = k
        BY <2>1, <2>4, <3>2
      <4>2. down'[k - 1] = down[k]
        BY <2>2, <4>1
      <4> QED BY <2>4, <4>1, <4>2 DEF MarkReached
    <3> QED BY <3>1, <3>2
  <2> HIDE DEF Goal
  <2> QED BY <2>3, <2>4 DEF MarkReached
<1> HIDE DEF Goal
<1>4. CASE Inner
  <2>1. down' = down /\ marker' = marker
    BY <1>0, <1>4, InnerFacts DEF ClientKept
  <2> QED BY <1>1, <2>1
<1>5. CASE Serve
  <2>1. Sent(EffectFrame) \/ down' = down
    BY <1>0, <1>5, ServeEffect
  <2>2. EffectFrame \in DownFrame /\ marker' = marker
    BY <1>0, <1>5, EffectFrameFacts, Unchanged DEF clientVars
  <2> QED BY <1>2, <2>1, <2>2
<1>6. CASE ReceiveCommit
  <2>1. PICK m, ok, seq : CommitServed(m, ok, seq)
    BY <1>0, <1>6, ReceiveCommitEffect
  <2>2. PICK f : f = [type |-> "verdict", id |-> m, ok |-> ok, seq |-> seq]
    OBVIOUS
  <2>3. f \in DownFrame
    <3>1. m \in Nat /\ ok \in BOOLEAN /\ seq \in Nat
      BY <1>0, <2>1, TypeFacts DEF CommitServed
    <3> QED BY <2>2, <3>1 DEF DownFrame, Verdicts
  <2>4. Sent(f) /\ marker' = marker
    BY <1>6, <2>1, <2>2, Unchanged DEF CommitServed, Sent, clientVars
  <2> QED BY <1>2, <2>3, <2>4
<1>7. CASE ReceiveAdd
  <2>1. PICK d, f : AddServed(d, f)
    BY <1>0, <1>7, ReceiveAddEffect
  <2>2. f \in DownFrame /\ Sent(f) /\ marker' = marker
    BY <1>7, <2>1, Unchanged DEF AddServed, clientVars
  <2> QED BY <1>2, <2>2
<1>8. CASE ReceiveSet
  <2>1. PICK ws, f : SetServed(ws, f)
    BY <1>0, <1>8, ReceiveSetEffect
  <2>2. f \in DownFrame /\ Sent(f) /\ marker' = marker
    BY <1>8, <2>1, Unchanged DEF SetServed, clientVars
  <2> QED BY <1>2, <2>2
<1>9. CASE ReceiveOpen
  <2>1. PICK f : OpenServed(f)
    BY <1>0, <1>9, ReceiveOpenEffect
  <2>2. f \in DownFrame /\ down' = Append(down, f) /\ down \in Seq(DownFrame)
    BY <1>0, <2>1 DEF OpenServed, Types
  <2>3. \A k \in DOMAIN down : k \in DOMAIN down' /\ down'[k] = down[k]
    BY <2>2, AppendFacts
  <2>4. marker' = marker
    BY <1>9, Unchanged DEF clientVars
  <2> QED BY <1>1, <2>3, <2>4
<1>10. CASE Effect \/ CallAnswered \/ Restored
  <2>1. down # <<>> /\ down' = Tail(down) /\ Absorb(Head(down)) /\ Head(down).type # "verdict"
    BY <1>10 DEF Effect, CallAnswered, Restored, Received
  <2>2. PICK f \in Syncs : f = down[1] /\ 1 \in DOMAIN down /\ Absorb(f)
    BY <1>0, <2>1, DownHead
  <2>3. marker' \in Nat /\ marker' >= marker /\ marker' >= MarkIn(f)
    BY <1>0, <2>2, AbsorbEffect
  <2> QED BY <1>3, <2>1, <2>2, <2>3
<1>11. CASE Verdict
  <2>1. down # <<>> /\ down' = Tail(down) /\ Head(down).type = "verdict" /\ marker' = marker
    BY <1>11 DEF Verdict, Received
  <2>2. MarkIn(down[1]) = 0
    BY <1>0, <2>1, DownHead DEF MarkIn
  <2> QED BY <1>0, <1>3, <2>1, <2>2
<1>12. CASE ~(Inner \/ Serve \/ ServerStep \/ Effect \/ CallAnswered \/ Restored \/ Verdict)
  <2>1. down' = down /\ marker' = marker
    BY <1>12 DEF Next, Inner, Commit, Reconnect, Call, Resolve, Settle, RepairTimesOut
  <2> QED BY <1>1, <2>1
<1> QED BY <1>4, <1>5, <1>6, <1>7, <1>8, <1>9, <1>10, <1>11, <1>12 DEF ServerStep

(* What the server owes the session of its markers.                        *)
MarkDue == \/ session.owed > session.caught /\ (due \/ Unserved \/ skipped)
           \/ session.owed <= session.caught /\ MarkReached(session.caught)

(* A step that serves nothing keeps the marker due.                        *)
LEMMA MarkDueKept ==
  ASSUME MarkDue, session'.owed = session.owed, session'.caught = session.caught,
         due \/ Unserved \/ skipped => due' \/ Unserved' \/ skipped',
         MarkReached(session.caught) => MarkReached(session.caught)'
  PROVE  MarkDue'
BY DEF MarkDue

(* Every step on a live connection keeps the marker due or on its way: an  *)
(* effect that is empty is skipped only with its marker owed.              *)
LEMMA MarkDueStep ==
  ASSUME DeliveryInv, Next, Live', ~Lose
  PROVE  MarkDue'
<1>0. Types /\ LinkInv /\ LogInv /\ OrderInv /\ ValueInv /\ MarkInv
  BY DEF DeliveryInv
<1>00. /\ session.owed \in Nat /\ session.caught \in Nat /\ Top \in Nat
       /\ session.owed <= Top /\ session.caught <= Top /\ marker \in Nat
  BY <1>0, TypeFacts
<1>01. Top = IF session.owed > session.caught THEN session.owed ELSE session.caught
  BY <1>00 DEF Top, Larger
<1>02. Live => MarkDue
  BY <1>0 DEF MarkInv, MarkDue
<1> DEFINE Goal == MarkDue'
<1> SUFFICES Goal
  OBVIOUS
<1>1. ASSUME Live, session' = session, due \/ Unserved \/ skipped => due' \/ Unserved' \/ skipped'
      PROVE  Goal
  <2>1. MarkReached(session.caught) => MarkReached(session.caught)'
    <3>1. PICK c \in Nat : c = session.caught
      BY <1>00
    <3>2. MarkReached(c) => MarkReached(c)'
      BY MarkStays
    <3> QED BY <1>1, <3>1, <3>2
  <2> QED BY <1>1, <1>02, <2>1, MarkDueKept
<1> HIDE DEF Goal
<1>2. CASE Outer
  <2>1. UNCHANGED <<due, pass, session, skipped>> /\ Live
    BY <1>2, OuterFacts
  <2> QED BY <1>1, <2>1 DEF Unserved
<1>3. ASSUME NEW d \in Docs, ForeignCommit(d) PROVE Goal
  <2>1. due' = TRUE
    BY <1>0, <1>3, ForeignCommitEffect
  <2>2. session' = session /\ Live
    BY <1>3, Unchanged DEF Live
  <2> QED BY <1>1, <2>1, <2>2
<1>4. CASE StartPass
  <2>1. Unserved' /\ session' = session /\ Live
    BY <1>4 DEF StartPass, Unserved, Live
  <2> QED BY <1>1, <2>1
<1>5. CASE EvaluationFails
  <2>1. skipped' = TRUE /\ session'.owed = session.owed /\ session'.caught = session.caught
        /\ Live
    BY <1>0, <1>5 DEF EvaluationFails, Live, Types, State
  <2>2. PICK c \in Nat : c = session.caught
    BY <1>00
  <2>3. MarkReached(c) => MarkReached(c)'
    BY MarkStays
  <2>4. MarkReached(session.caught) => MarkReached(session.caught)'
    BY <2>1, <2>2, <2>3
  <2> QED BY <1>02, <2>1, <2>4, MarkDueKept DEF Goal
<1>6. CASE EndPass
  <2>1. session' = session /\ due' = due /\ skipped' = skipped /\ Live /\ ~Unserved
    BY <1>6 DEF EndPass, Live, Unserved, dirtyVars
  <2> QED BY <1>1, <2>1
<1>7. CASE FailPass
  <2>1. due' = TRUE /\ session' = session /\ Live
    BY <1>7 DEF FailPass, Live
  <2> QED BY <1>1, <2>1
<1>8. CASE Detach
  BY <1>8 DEF Detach, Live
<1>9. CASE SendFails
  <2>1. /\ ServedBy.marker > 0 => session'.owed = Top /\ session'.caught = Top - 1
        /\ ServedBy.marker = 0 =>
             session'.owed = session.owed /\ session'.caught = session.caught
        /\ due' = TRUE /\ (link' = link \/ link' = "none")
    BY <1>0, <1>9, SendFailsEffect
  <2>2. ServedBy.marker = IF session.owed > session.caught THEN session.owed ELSE 0
    BY <1>0, ServedFacts
  <2>3. Live
    BY <2>1 DEF Live
  <2>4. CASE session.owed > session.caught
    <3>1. session'.owed > session'.caught
      BY <1>00, <2>1, <2>2, <2>4
    <3> QED BY <2>1, <3>1 DEF Goal, MarkDue
  <2>5. CASE ~(session.owed > session.caught)
    <3>1. session'.owed = session.owed /\ session'.caught = session.caught
      BY <2>1, <2>2, <2>5
    <3>2. PICK c \in Nat : c = session.caught
      BY <1>00
    <3>3. MarkReached(c) => MarkReached(c)'
      BY MarkStays
    <3>4. MarkReached(session.caught) => MarkReached(session.caught)'
      BY <3>1, <3>2, <3>3
    <3> QED BY <1>02, <2>1, <2>3, <3>1, <3>4, MarkDueKept DEF Goal
  <2> QED BY <2>4, <2>5
<1>10. CASE Serve
  <2>1. /\ session' = ServedBy.after /\ link' = link
        /\ Empty(ServedBy) => down' = down
        /\ ~Empty(ServedBy) => Sent(EffectFrame)
    BY <1>0, <1>10, ServeEffect, Unchanged
  <2>2. /\ ServedBy.marker = IF session.owed > session.caught THEN session.owed ELSE 0
        /\ ServedBy.after.caught = Top
        /\ ServedBy.after.owed = IF session.owed > session.caught THEN 0 ELSE session.owed
    BY <1>0, ServedFacts
  <2>3. Live
    BY <2>1 DEF Live
  <2>4. session'.owed <= session'.caught /\ session'.caught = Top
    BY <1>00, <2>1, <2>2
  <2>5. MarkReached(Top)'
    <3>1. CASE session.owed > session.caught
      <4>1. ServedBy.marker = Top /\ ServedBy.marker # 0
        BY <1>00, <1>01, <2>2, <3>1
      <4>2. ~Empty(ServedBy)
        BY <4>1 DEF Empty
      <4>3. down' = Append(down, EffectFrame) /\ down \in Seq(DownFrame)
        BY <1>0, <2>1, <2>3, <4>2 DEF Sent, Live, Types
      <4>4. EffectFrame \in DownFrame /\ MarkIn(EffectFrame) = Top
        BY <1>0, <4>1, EffectFrameFacts
      <4>5. Len(down) + 1 \in DOMAIN down' /\ down'[Len(down) + 1] = EffectFrame
        BY <4>3, <4>4, AppendFacts
      <4>6. PICK t \in Nat : t = Top
        BY <1>00
      <4>7. \E k \in DOMAIN down' : MarkIn(down'[k]) >= t
        BY <4>4, <4>5, <4>6
      <4>8. Top' = Top
        BY <1>0, <1>10, TopKept DEF Serve, ReceiveCommit, Serving
      <4> QED BY <4>6, <4>7, <4>8 DEF MarkReached, MarkIn
    <3>2. CASE ~(session.owed > session.caught)
      <4>1. PICK c \in Nat : c = session.caught
        BY <1>00
      <4>2. MarkReached(c)'
        BY <1>02, <2>3, <3>2, <4>1, MarkStays DEF MarkDue
      <4>3. Top' = c
        BY <1>0, <1>01, <3>2, <4>1, <1>10, TopKept DEF Serve, ReceiveCommit, Serving
      <4> QED BY <4>2, <4>3 DEF MarkReached
    <3> QED BY <3>1, <3>2
  <2>6. Top' = Top
    BY <1>0, <1>10, TopKept DEF Serve, ReceiveCommit, Serving
  <2> QED BY <2>4, <2>5, <2>6 DEF Goal, MarkDue, MarkReached
<1>11. CASE ReceiveCommit
  <2>1. PICK n, ok, seq : CommitServed(n, ok, seq)
    BY <1>0, <1>11, ReceiveCommitEffect
  <2>2. n \in Nat
    BY <1>0, <2>1, CommitNext
  <2>3. due' = TRUE /\ session'.owed = Larger(session.owed, n)
        /\ session'.caught = session.caught
    BY <2>1 DEF CommitServed
  <2>4. session'.owed >= session.owed /\ session'.owed \in Nat
    BY <1>00, <2>2, <2>3, LargerFacts
  <2>5. Live
    BY <1>11, Unchanged DEF Live
  <2>6. CASE session'.owed > session'.caught
    BY <2>3, <2>6 DEF Goal, MarkDue
  <2>7. CASE ~(session'.owed > session'.caught)
    <3>1. session.owed <= session.caught /\ session'.owed <= session'.caught
      BY <1>00, <2>3, <2>4, <2>7
    <3>2. PICK c \in Nat : c = session.caught
      BY <1>00
    <3>3. MarkReached(c)'
      BY <1>00, <1>02, <2>5, <3>1, <3>2, MarkStays DEF MarkDue
    <3>4. MarkReached(session.caught)'
      BY <2>3, <3>2, <3>3
    <3> QED BY <3>1, <3>4 DEF Goal, MarkDue
  <2> QED BY <2>6, <2>7
<1>12. CASE ReceiveAdd \/ ReceiveSet
  <2>1. UNCHANGED <<due, pass, skipped, link>>
    BY <1>12, Unchanged DEF dirtyVars
  <2>2. session'.owed = session.owed /\ session'.caught = session.caught
    BY <1>0, <1>12, ReceiveAddEffect, ReceiveSetEffect DEF AddServed, SetServed
  <2>3. Live
    BY <2>1 DEF Live
  <2>4. PICK c \in Nat : c = session.caught
    BY <1>00
  <2>5. MarkReached(c) => MarkReached(c)'
    BY MarkStays
  <2>6. MarkReached(session.caught) => MarkReached(session.caught)'
    BY <2>2, <2>4, <2>5
  <2>7. Unserved => Unserved'
    BY <2>1 DEF Unserved
  <2> QED BY <1>02, <2>1, <2>2, <2>3, <2>6, <2>7, MarkDueKept DEF Goal
<1>13. CASE ReceiveOpen
  <2>1. PICK f : OpenServed(f)
    BY <1>0, <1>13, ReceiveOpenEffect
  <2>2. /\ f \in DownFrame /\ MarkIn(f) = Top /\ down' = Append(down, f) /\ down \in Seq(DownFrame)
        /\ session'.owed = 0 /\ session'.caught = Top
    BY <1>0, <2>1 DEF OpenServed, Types
  <2>3. Len(down) + 1 \in DOMAIN down' /\ down'[Len(down) + 1] = f
    BY <2>2, AppendFacts
  <2>4. PICK t \in Nat : t = Top
    BY <1>00
  <2>5. \E k \in DOMAIN down' : MarkIn(down'[k]) >= t
    BY <2>2, <2>3, <2>4
  <2>6. MarkReached(session.caught)'
    BY <2>2, <2>4, <2>5 DEF MarkReached, MarkIn
  <2> QED BY <1>00, <2>2, <2>6 DEF Goal, MarkDue
<1> QED BY <1>2, <1>3, <1>4, <1>5, <1>6, <1>7, <1>8, <1>9, <1>10, <1>11, <1>12, <1>13
           DEF Next, Outer, ServerStep

(* Every step keeps the markers.                                           *)
LEMMA MarkStep == ASSUME DeliveryInv, Next PROVE MarkInv'
<1>0. Types /\ LinkInv /\ LogInv /\ OrderInv /\ ValueInv /\ MarkInv
  BY DEF DeliveryInv
<1>00. Top' >= Top /\ Top' \in Nat /\ Top \in Nat /\ marker \in Nat
  BY <1>0, TopGrows, TypeFacts
<1>1. Types'
  BY TypesStep
<1>2. ASSUME NEW k \in DOMAIN down' PROVE MarkIn(down'[k]) <= Top'
  <2>1. MarkIn(down'[k]) <= Top
    <3>1. CASE \E j \in DOMAIN down : down'[k] = down[j]
      BY <1>0, <3>1 DEF MarkInv
    <3> QED BY <3>1, MarksStep
  <2>2. MarkIn(down'[k]) \in Nat
    <3>1. down'[k] \in DownFrame
      BY <1>1 DEF Types
    <3> QED BY <3>1, FrameFacts
  <2> QED BY <1>00, <2>1, <2>2
<1>3. marker' <= Top'
  <2>1. CASE Effect \/ CallAnswered \/ Restored
    <3>1. down # <<>> /\ Absorb(Head(down)) /\ Head(down).type # "verdict"
      BY <2>1 DEF Effect, CallAnswered, Restored, Received
    <3>2. PICK f \in Syncs : f = down[1] /\ 1 \in DOMAIN down /\ Absorb(f)
      BY <1>0, <3>1, DownHead
    <3>3. marker' \in Nat /\ marker' \in {marker, MarkIn(f)}
      BY <1>0, <3>2, AbsorbEffect
    <3>4. marker <= Top /\ MarkIn(f) <= Top
      BY <1>0, <3>2 DEF MarkInv
    <3> QED BY <1>00, <3>3, <3>4
  <2>2. CASE ~(Effect \/ CallAnswered \/ Restored)
    <3>1. marker' = marker
      <4>1. CASE Inner
        BY <1>0, <4>1, InnerFacts DEF ClientKept
      <4>2. CASE ServerStep \/ Serve
        BY <4>2, Unchanged DEF ServerStep, clientVars
      <4>3. CASE ~Inner /\ ~ServerStep /\ ~Serve
        BY <2>2, <4>3 DEF Next, Inner, Commit, Reconnect, Call, Resolve, Settle, RepairTimesOut, Lose, Verdict
      <4> QED BY <4>1, <4>2, <4>3
    <3> QED BY <1>0, <1>00, <3>1 DEF MarkInv
  <2> QED BY <2>1, <2>2
<1>4. Live' => MarkDue'
  <2>1. Lose => ~Live'
    BY DEF Lose, Live
  <2> QED BY <2>1, MarkDueStep
<1> QED BY <1>2, <1>3, <1>4 DEF MarkInv, MarkDue

(* An own set stays recorded where it was.                                 *)
LEMMA OwnSetStays ==
  ASSUME DeliveryInv, Next, NEW n, NEW d, NEW q \in Nat, OwnSet(n, d, q)
  PROVE  OwnSet(n, d, q)' /\ n \in 1..Top
<1>0. Types /\ LogInv /\ OrderInv /\ AnswerInv /\ ValueInv
  BY DEF DeliveryInv
<1>1. n \in DOMAIN mine /\ mine[n].op = "set" /\ mine[n].doc = d /\ RecordedAs(n, q)
  BY DEF OwnSet
<1>2. n \in Nat \ {0} /\ Top \in Nat
  BY <1>0, <1>1, TypeFacts
<1>3. n <= Top
  BY <1>0, <1>1, <1>2, RecordFacts
<1>4. RecordedAs(n, q)'
  BY <1>0, <1>1, <1>2, LogStep DEF Grown
<1>5. CoreKept
  BY <1>0, CoreStep
<1>6. n \in DOMAIN mine' /\ mine'[n].op = "set" /\ mine'[n].doc = d
  BY <1>1, <1>5 DEF CoreKept
<1> QED BY <1>2, <1>3, <1>4, <1>6 DEF OwnSet

(* Every step keeps the origins: a set is the origin of its own seq.       *)
LEMMA OriginStep == ASSUME DeliveryInv, Next PROVE OriginInv'
<1>0. Types /\ LogInv /\ OrderInv /\ AnswerInv /\ ValueInv /\ OriginInv
  BY DEF DeliveryInv
<1>00. /\ \A d \in Docs : origin[d].seq \in Nat /\ pass.origin[d].seq \in Nat
       /\ NoOrigin.op # "set"
  BY <1>0 DEF Types, Batch, Stamp, NoOrigin
<1> DEFINE Good(o, d) == o.op = "set" => \E n, q : q = o.seq /\ OwnSet(n, d, q)'
<1>1. ASSUME NEW d \in Docs, NEW o, o \in {NoOrigin, origin[d], pass.origin[d]} PROVE Good(o, d)
  <2> SUFFICES ASSUME o.op = "set" PROVE \E n, q : q = o.seq /\ OwnSet(n, d, q)'
    OBVIOUS
  <2>1. PICK n : OwnSet(n, d, o.seq)
    BY <1>0, <1>00, <1>1 DEF OriginInv
  <2>2. PICK q \in Nat : q = o.seq
    BY <1>00, <1>1
  <2>3. OwnSet(n, d, q)'
    BY <2>1, <2>2, OwnSetStays
  <2> QED BY <2>2, <2>3
<1> HIDE DEF Good
<1>2. ASSUME \A d \in Docs : Good(origin'[d], d) /\ Good(pass'.origin[d], d)
      PROVE  OriginInv'
  <2>1. ASSUME NEW d \in Docs, origin'[d].op = "set"
        PROVE  (\E n : OwnSet(n, d, origin[d].seq))'
    <3>1. PICK n, q : q = origin'[d].seq /\ OwnSet(n, d, q)'
      BY <1>2, <2>1 DEF Good
    <3> QED BY <3>1 DEF OwnSet, RecordedAs
  <2>2. ASSUME NEW d \in Docs, pass'.origin[d].op = "set"
        PROVE  (\E n : OwnSet(n, d, pass.origin[d].seq))'
    <3>1. PICK n, q : q = pass'.origin[d].seq /\ OwnSet(n, d, q)'
      BY <1>2, <2>2 DEF Good
    <3> QED BY <3>1 DEF OwnSet, RecordedAs
  <2> QED BY <2>1, <2>2 DEF OriginInv
<1>3. ASSUME \A d \in Docs : /\ origin'[d] \in {NoOrigin, origin[d], pass.origin[d]}
                             /\ pass'.origin[d] \in {NoOrigin, origin[d], pass.origin[d]}
      PROVE  OriginInv'
  BY <1>1, <1>2, <1>3
<1>4. \A d \in Docs : NoPass.origin[d] = NoOrigin
  BY DEF NoPass
<1>5. CASE Outer
  BY <1>3, <1>5, OuterFacts
<1>6. ASSUME NEW d \in Docs, ForeignCommit(d) PROVE OriginInv'
  <2>1. \A x \in Docs : origin'[x] \in {NoOrigin, origin[x]}
    BY <1>0, <1>6, ForeignCommitEffect
  <2>2. pass' = pass
    BY <1>6, Unchanged
  <2> QED BY <1>3, <2>1, <2>2
<1>7. CASE StartPass
  BY <1>3, <1>7 DEF StartPass
<1>8. CASE EvaluationFails
  <2>1. origin' = origin /\ pass' = [pass EXCEPT !.served = TRUE]
    BY <1>8 DEF EvaluationFails, Serving, dirtyVars
  <2>2. pass'.origin = pass.origin
    BY <1>0, <2>1 DEF Types, Batch
  <2> QED BY <1>3, <2>1, <2>2
<1>9. CASE EndPass
  BY <1>3, <1>4, <1>9 DEF EndPass, dirtyVars
<1>10. CASE FailPass
  BY <1>0, <1>3, <1>4, <1>10, FailPassEffect
<1>11. CASE Detach
  BY <1>3, <1>11 DEF Detach, dirtyVars
<1>12. CASE SendFails
  BY <1>0, <1>3, <1>12, SendFailsEffect
<1>13. CASE Serve
  <2>1. origin' = origin /\ pass'.origin = pass.origin
    BY <1>0, <1>13, ServeEffect, Unchanged DEF dirtyVars
  <2> QED BY <1>3, <2>1
<1>14. CASE ReceiveAdd \/ ReceiveSet
  BY <1>3, <1>14, Unchanged DEF dirtyVars
<1>15. CASE ReceiveOpen
  <2>1. origin' = origin
    BY <1>15, Unchanged DEF dirtyVars
  <2>2. pass'.origin = pass.origin
    BY <1>0, <1>15, ReceiveOpenEffect DEF OpenServed
  <2> QED BY <1>3, <2>1, <2>2
<1>16. CASE ReceiveCommit
  <2>1. PICK n, ok, seq : CommitServed(n, ok, seq)
    BY <1>0, <1>16, ReceiveCommitEffect
  <2>2. pass' = pass /\ mine' = mine
    BY <1>16, Unchanged DEF clientVars
  <2>3. n \in Nat \ {0} /\ n \in DOMAIN mine /\ seq \in Nat
    BY <1>0, <2>1, CommitNext DEF CommitServed
  <2>4. PICK o : o = [seq |-> seq, op |-> mine[n].op]
    OBVIOUS
  <2>5. /\ \A d \in Docs : d # mine[n].doc => origin'[d] = origin[d]
        /\ \A d \in Docs : d = mine[n].doc =>
             origin'[d] \in {NoOrigin, o} /\ (~ok => origin'[d] = NoOrigin)
    BY <2>1, <2>4 DEF CommitServed
  <2>6. ASSUME ok, mine[n].op = "set", NEW d, d = mine[n].doc PROVE OwnSet(n, d, seq)'
    <3>1. RecordedAs(n, seq)'
      <4>1. CASE seq = SpaceSeq + 1 /\ \E e : Accepted(n, e)
        <5>1. PICK e \in Entry : log' = Append(log, e) /\ e.by = n
          BY <4>1 DEF Accepted
        <5>2. RecordedAs(e.by, seq)'
          BY <1>0, <2>3, <4>1, <5>1, LogGrows
        <5> QED BY <5>1, <5>2
      <4>2. CASE RecordedAs(n, seq)
        BY <1>0, <2>3, <4>2, LogStep DEF Grown
      <4> QED BY <2>1, <2>6, <4>1, <4>2 DEF CommitServed, Answered
    <3> QED BY <2>2, <2>3, <2>6, <3>1 DEF OwnSet
  <2>7. ASSUME NEW d \in Docs PROVE Good(origin'[d], d)
    <3>1. CASE d # mine[n].doc
      BY <1>1, <2>5, <3>1
    <3>2. CASE d = mine[n].doc /\ origin'[d] = NoOrigin
      BY <1>1, <3>2
    <3>3. CASE d = mine[n].doc /\ origin'[d] = o /\ ok
      <4>1. PICK p : p = origin'[d]
        OBVIOUS
      <4>2. p.op = mine[n].op /\ p.seq = seq
        BY <2>4, <3>3, <4>1
      <4>3. p.op = "set" => OwnSet(n, d, seq)'
        BY <2>6, <3>3, <4>2
      <4> QED BY <4>1, <4>2, <4>3 DEF Good
    <3> QED BY <2>5, <3>1, <3>2, <3>3
  <2> QED BY <1>1, <1>2, <2>2, <2>7
<1> QED BY <1>5, <1>6, <1>7, <1>8, <1>9, <1>10, <1>11, <1>12, <1>13, <1>14, <1>15,
           <1>16 DEF Next, Outer, ServerStep
=============================================================================
