------------------------ MODULE WatchReconnectProofs ------------------------
(***************************************************************************)
(* The watches of a session survive the loss of its connections, for any   *)
(* number of calls and losses, in both modes of the mutation chain. The    *)
(* theorems assume Calm, as the run that checks them does.                 *)
(*                                                                         *)
(* The intent of the client and the watches of the server meet only        *)
(* through what is in flight. The invariant says what can be: one request  *)
(* or one answer for a mutation that was sent (InFlight, Apart), one open  *)
(* and no refusal of the loop's own mutation (Asked, Told), and a request  *)
(* that replaces the whole set alone (SetAlone), since it would undo what  *)
(* was promised behind it.                                                 *)
(* Then what has been answered is watched (Served), and at all times but   *)
(* between a fresh open and its restored watches the intent is (Kept).     *)
(***************************************************************************)
EXTENDS WatchReconnect, SequenceTheorems, WellFoundedInduction, TLAPS

(* The records of the chain and of the wire, and the types they make.      *)
Steps == {"queued", "waiting", "sent", "answered", "failed"}
Entry == [id : 0..MaxCalls, op : {"add", "remove", "restore"}, watch : Watches,
          at : Steps, set : SUBSET Watches]
Request == [type : {"open", "add", "set"}, id : 0..MaxCalls, set : SUBSET Watches]
Reply == [type : {"opened", "revoked", "answer"}, id : 0..MaxCalls, ok : BOOLEAN]

Shaped ==
  /\ connected \in BOOLEAN /\ closed \in BOOLEAN /\ concurrent \in BOOLEAN
  /\ known \in BOOLEAN /\ rotated \in BOOLEAN /\ bare \in BOOLEAN
  /\ opened \in {"no", "refused", "yes"}
  /\ loop \in {"none", "delay", "hello", "sign", "open", "rewatch"}
  /\ chain \in Seq(Entry) /\ up \in Seq(Request) /\ down \in Seq(Reply)
  /\ specs \subseteq Watches /\ watching \subseteq Watches
  /\ calls \in 0..MaxCalls /\ losses \in 0..MaxLosses

IsOpen(p) == up[p].type = "open"
IsAnswer(p) == down[p].type = "answer"

(* The loop and the connection.                                            *)
Linked ==
  /\ ~connected => up = <<>> /\ down = <<>> /\ opened = "no"
  /\ loop \in {"delay", "hello"} => ~connected
  /\ loop \in {"none", "sign", "open"} => connected
  /\ loop = "sign" => opened = "no"
  /\ loop = "rewatch" /\ connected => opened = "yes"
  /\ opened # "no" => known

(* One open is asked for on a connection. Calls may be on the wire before  *)
(* it: the client is connected while the open is signed.                   *)
Asked ==
  /\ \A p \in DOMAIN up : IsOpen(p) => opened = "no" /\ loop = "open"
  /\ \A p, q \in DOMAIN up : IsOpen(p) /\ IsOpen(q) => p = q
  /\ connected /\ loop # "sign" /\ opened = "no" => \E p \in DOMAIN up : IsOpen(p)

(* The loop waits for its answer. A mutation is accepted by an open        *)
(* session, and the loop's own is never refused.                           *)
Told ==
  /\ opened = "no" => \A p \in DOMAIN down : IsAnswer(p)
  /\ \A p, q \in DOMAIN down : ~IsAnswer(p) /\ ~IsAnswer(q) => p = q
  /\ \A p \in DOMAIN down : IsAnswer(p) =>
       (down[p].ok => opened = "yes") /\ (down[p].id = 0 => down[p].ok)
  /\ \A p \in DOMAIN down : ~IsAnswer(p) => loop = "open"
  /\ loop = "open" /\ opened # "no" => \E p \in DOMAIN down :
       ~IsAnswer(p) /\ down[p].type = (IF opened = "yes" THEN "opened" ELSE "revoked")

(* A mutation has its identity; the one of the loop has the number 0.      *)
Named ==
  /\ \A i, j \in DOMAIN chain : chain[i].id = chain[j].id => i = j
  /\ \A i \in DOMAIN chain :
       chain[i].id <= calls /\ (chain[i].op = "restore" <=> chain[i].id = 0)

(* The loop's own mutation stands while the loop waits for it.             *)
Restoring ==
  /\ \A i \in DOMAIN chain : chain[i].op = "restore" =>
       loop = "rewatch" /\ (chain[i].at = "failed" <=> ~connected)
  /\ loop = "rewatch" => \E i \in DOMAIN chain : chain[i].op = "restore"
  /\ loop = "rewatch" /\ ~connected =>
       /\ chain # <<>> /\ chain[1].op = "restore"
       /\ \A i \in DOMAIN chain : ~Ready(i)
       /\ known => bare

(* The order in which mutations are issued, and the set each sends.        *)
Issued ==
  \A i \in DOMAIN chain :
    /\ chain[i].at = "queued" => \A j \in DOMAIN chain : i < j => chain[j].at = "queued"
    /\ ~concurrent /\ i > 1 => chain[i].at = "queued"
    /\ chain[i].op # "add" /\ chain[i].at # "queued" => i = 1 /\ specs \subseteq chain[i].set
    /\ chain[i].op = "add" /\ chain[i].at # "queued" => chain[i].set = {chain[i].watch}

(* What may wait for the loop to end, and what a loss leaves.              *)
Waits ==
  \A i \in DOMAIN chain :
    /\ chain[i].op # "add" /\ chain[i].at = "waiting" => ~concurrent
    /\ chain[i].at = "waiting" => known /\ ~FreshOpen /\ loop \notin {"none", "rewatch"}
    /\ concurrent /\ ~connected => ~(chain[i].op = "remove" /\ chain[i].at = "queued")
    /\ ~connected /\ ~known => chain[i].at # "queued"
    /\ chain[i].at = "sent" => connected

(* A request or answer in flight is that of one mutation that was sent.    *)
Asks(p, i) == chain[i].at = "sent" /\ up[p] = Frame(chain[i])
Answers(p, i) == chain[i].at = "sent" /\ chain[i].id = down[p].id

InFlight ==
  /\ \A p \in DOMAIN up : ~IsOpen(p) => \E i \in DOMAIN chain : Asks(p, i)
  /\ \A p \in DOMAIN down : IsAnswer(p) => \E i \in DOMAIN chain : Answers(p, i)

Apart ==
  /\ \A p, q \in DOMAIN up : ~IsOpen(p) /\ ~IsOpen(q) /\ up[p].id = up[q].id => p = q
  /\ \A p, q \in DOMAIN down : IsAnswer(p) /\ IsAnswer(q) /\ down[p].id = down[q].id => p = q
  /\ \A p \in DOMAIN up, q \in DOMAIN down : ~IsOpen(p) /\ IsAnswer(q) => up[p].id # down[q].id

(* A request that replaces the whole set has nothing before it.            *)
SetAlone ==
  \A p \in DOMAIN up : up[p].type = "set" =>
    /\ \A q \in DOMAIN up : q < p => IsOpen(q)
    /\ \A q \in DOMAIN down : ~IsAnswer(q)
    /\ \A i \in DOMAIN chain : chain[i].at # "answered"

(* What was answered is watched.                                           *)
Served ==
  /\ \A i \in DOMAIN chain :
       chain[i].at = "answered" => known /\ chain[i].set \subseteq watching
  /\ \A p \in DOMAIN down : \A i \in DOMAIN chain :
       IsAnswer(p) /\ down[p].ok /\ chain[i].id = down[p].id => chain[i].set \subseteq watching

Kept == known /\ ~bare /\ loop # "rewatch" /\ ~FreshOpen => specs \subseteq watching

ChainInv == Named /\ Restoring /\ Issued /\ Waits
FlightInv == InFlight /\ Apart /\ SetAlone
WatchInv == Shaped /\ Linked /\ Asked /\ Told /\ ChainInv /\ FlightInv /\ Served /\ Kept

(* Induction over a set of naturals, by its least missing member.          *)
LEMMA SetInduction ==
  ASSUME NEW T, 0 \in T, \A n \in Nat : n \in T => n + 1 \in T
  PROVE  \A n \in Nat : n \in T
<1> DEFINE F == {n \in Nat : n \notin T}
<1> DEFINE R == {ss \in Nat \X Nat : ss[1] < ss[2]}
<1>1. IsWellFoundedOn(R, Nat)
  BY NatLessThanWellFounded DEF OpToRel
<1>2. SUFFICES ASSUME F # {} PROVE FALSE
  OBVIOUS
<1>3. PICK x \in F : \A y \in F : ~(<<y, x>> \in R)
  <2>1. F \subseteq Nat
    OBVIOUS
  <2> HIDE DEF F, R
  <2> QED BY <1>1, <1>2, <2>1, WFMin
<1>4. x # 0 /\ x \in Nat
  OBVIOUS
<1>5. x - 1 \in Nat /\ <<x - 1, x>> \in R
  BY <1>4
<1>6. x - 1 \notin F
  BY <1>3, <1>5
<1> QED BY <1>4, <1>5, <1>6

(* Max of a non-empty set of naturals is its greatest member.              *)
LEMMA MaxProperties ==
  ASSUME NEW n \in Nat
  PROVE  \A s \in SUBSET (1..n) : s # {} =>
           Max(s) \in s /\ \A y \in s : Max(s) >= y
<1> DEFINE Top(s) == \E x \in s : \A y \in s : x >= y
           T == {m \in Nat : \A s \in SUBSET (1..m) : s # {} => Top(s)}
<1>1. 0 \in T
  <2>1. \A s \in SUBSET (1..0) : s = {}
    OBVIOUS
  <2> QED BY <2>1
<1>2. ASSUME NEW m \in Nat, m \in T PROVE m + 1 \in T
  <2> SUFFICES ASSUME NEW s \in SUBSET (1..(m + 1)), s # {} PROVE Top(s)
    OBVIOUS
  <2>1. CASE m + 1 \in s
    <3>1. \A y \in s : m + 1 >= y
      OBVIOUS
    <3> QED BY <2>1, <3>1
  <2>2. CASE m + 1 \notin s
    <3>1. s \in SUBSET (1..m)
      BY <2>2
    <3> QED BY <1>2, <3>1
  <2> QED BY <2>1, <2>2
<1> HIDE DEF T
<1>3. \A m \in Nat : m \in T
  BY <1>1, <1>2, SetInduction
<1> QED BY <1>3 DEF T, Max

(* Max of a set that has the upper bound of its interval.                  *)
LEMMA MaxInterval ==
  ASSUME NEW n \in Nat, NEW s \in SUBSET (1..(n + 1)), n + 1 \in s
  PROVE  Max(s) = n + 1
<1>1. \A y \in s : n + 1 >= y
  OBVIOUS
<1>2. \A x \in s : (\A y \in s : x >= y) => x = n + 1
  OBVIOUS
<1> QED BY <1>1, <1>2 DEF Max

(* The frames of the waiting mutations, one mutation after the other.      *)
LateRun(g, n, es) ==
  g = [k \in 0..n |->
        IF k = 0 THEN <<>>
        ELSE IF es[k].at = "waiting" THEN Append(g[k - 1], Frame(es[k]))
        ELSE g[k - 1]]

(* Late is the last value of its run over the chain.                       *)
LEMMA LateIsRun ==
  ASSUME NEW n \in Nat, NEW es, DOMAIN es = 1..n
  PROVE  \E g : LateRun(g, n, es) /\ Late(es) = g[n]
<1> DEFINE Put(b, k) == IF es[k].at = "waiting" THEN Append(b, Frame(es[k])) ELSE b
           Fold(m, g) == g = [s \in SUBSET (1..m) |->
                         IF s = {} THEN <<>> ELSE Put(g[s \ {Max(s)}], Max(s))]
           G == CHOOSE g : Fold(n, g)
<1>1. Late(es) = G[1..n]
  <2>1. Late(es)
          = (CHOOSE g : g = [s \in SUBSET DOMAIN es |->
               IF s = {} THEN <<>>
               ELSE IF es[Max(s)].at = "waiting"
               THEN Append(g[s \ {Max(s)}], Frame(es[Max(s)]))
               ELSE g[s \ {Max(s)}]])[DOMAIN es]
    BY DEF Late, FoldLeft, MapThenFoldSet
  <2> QED BY <2>1
<1>2. \A m \in Nat : \E g : Fold(m, g)
  <2> DEFINE T == {m \in Nat : \E g : Fold(m, g)}
  <2>1. 0 \in T
    <3> DEFINE g == [s \in SUBSET (1..0) |-> <<>>]
    <3>1. Fold(0, g)
      <4>1. \A s \in SUBSET (1..0) : s = {}
        OBVIOUS
      <4> QED BY <4>1
    <3> QED BY <3>1
  <2>2. ASSUME NEW m \in Nat, m \in T PROVE m + 1 \in T
    <3>1. PICK g : Fold(m, g)
      BY <2>2
    <3> DEFINE g1 == [s \in SUBSET (1..(m + 1)) |->
                 IF s = {} THEN <<>>
                 ELSE IF s \in SUBSET (1..m) THEN g[s] ELSE Put(g[s \ {m + 1}], m + 1)]
    <3>2. Fold(m + 1, g1)
      <4>1. ASSUME NEW s \in SUBSET (1..(m + 1)), s # {}
            PROVE  g1[s] = Put(g1[s \ {Max(s)}], Max(s))
        <5>1. CASE s \in SUBSET (1..m)
          <6>1. Max(s) \in s
            BY <4>1, m + 1 \in Nat, MaxProperties
          <6>2. s \ {Max(s)} \in SUBSET (1..m) /\ s \ {Max(s)} \in SUBSET (1..(m + 1))
            BY <5>1
          <6>3. g[{}] = <<>> /\ {} \in SUBSET (1..m)
            BY <3>1
          <6>4. g1[s \ {Max(s)}] = g[s \ {Max(s)}]
            BY <6>2, <6>3
          <6>5. g1[s] = g[s] /\ g[s] = Put(g[s \ {Max(s)}], Max(s))
            BY <3>1, <4>1, <5>1
          <6> HIDE DEF g1, Put
          <6> QED BY <6>4, <6>5
        <5>2. CASE s \notin SUBSET (1..m)
          <6>1. m + 1 \in s /\ Max(s) = m + 1
            BY <5>2, MaxInterval
          <6>2. s \ {m + 1} \in SUBSET (1..m) /\ s \ {m + 1} \in SUBSET (1..(m + 1))
            OBVIOUS
          <6>3. g[{}] = <<>> /\ {} \in SUBSET (1..m)
            BY <3>1
          <6>4. g1[s \ {m + 1}] = g[s \ {m + 1}]
            BY <6>2, <6>3
          <6>5. g1[s] = Put(g[s \ {m + 1}], m + 1)
            BY <4>1, <5>2
          <6> HIDE DEF g1, Put
          <6> QED BY <6>1, <6>4, <6>5
        <5> QED BY <5>1, <5>2
      <4> QED BY <4>1
    <3> HIDE DEF Fold
    <3> QED BY <3>2
  <2> HIDE DEF T
  <2>3. \A m \in Nat : m \in T
    BY <2>1, <2>2, SetInduction
  <2> QED BY <2>3 DEF T
<1>3. Fold(n, G)
  <2>1. \E g : Fold(n, g)
    BY <1>2
  <2> HIDE DEF Fold
  <2> QED BY <2>1
<1> DEFINE h == [k \in 0..n |-> G[1..k]]
<1> HIDE DEF G
<1>4. LateRun(h, n, es)
  <2>1. ASSUME NEW k \in 1..n PROVE G[1..k] = Put(G[1..(k - 1)], k)
    <3>1. k - 1 \in Nat /\ (k - 1) + 1 = k /\ k \in 1..k /\ 1..k \in SUBSET (1..n)
      OBVIOUS
    <3>2. Max(1..k) = k
      BY <3>1, MaxInterval
    <3>3. (1..k) \ {k} = 1..(k - 1)
      OBVIOUS
    <3> HIDE DEF Put
    <3> QED BY <1>3, <3>1, <3>2, <3>3
  <2>2. G[1..0] = <<>>
    BY <1>3
  <2>3. \A k \in 0..n : k # 0 => k \in 1..n /\ k - 1 \in 0..n
    OBVIOUS
  <2> QED BY <2>1, <2>2, <2>3 DEF LateRun
<1>5. h[n] = G[1..n]
  OBVIOUS
<1> QED BY <1>1, <1>4, <1>5

(* Each of these frames is that of a waiting mutation of its own.          *)
FramesOf(fs, es, m, x) ==
  /\ fs \in Seq(Request)
  /\ x \in [DOMAIN fs -> 1..m]
  /\ \A p, q \in DOMAIN fs : x[p] = x[q] => p = q
  /\ \A p \in DOMAIN fs : es[x[p]].at = "waiting" /\ fs[p] = Frame(es[x[p]])

(* A mutation asks for an addition or for the whole set.                   *)
LEMMA FrameIsRequest ==
  ASSUME NEW e \in Entry PROVE Frame(e) \in Request /\ Frame(e).type # "open"
BY DEF Entry, Request, Frame

(* By induction along the chain.                                           *)
LEMMA LateFrames ==
  ASSUME NEW es \in Seq(Entry)
  PROVE  \E x : FramesOf(Late(es), es, Len(es), x)
<1>1. Len(es) \in Nat /\ DOMAIN es = 1..Len(es) /\ \A i \in 1..Len(es) : es[i] \in Entry
  OBVIOUS
<1>2. PICK g : LateRun(g, Len(es), es) /\ Late(es) = g[Len(es)]
  BY <1>1, LateIsRun
<1> DEFINE T == {m \in Nat : m <= Len(es) => \E x : FramesOf(g[m], es, m, x)}
<1>3. 0 \in T
  <2>1. g[0] = <<>>
    BY <1>1, <1>2 DEF LateRun
  <2>2. FramesOf(<<>>, es, 0, <<>>)
    BY EmptySeq DEF FramesOf
  <2> QED BY <2>1, <2>2
<1>4. ASSUME NEW m \in Nat, m \in T PROVE m + 1 \in T
  <2> SUFFICES ASSUME m + 1 <= Len(es) PROVE \E x : FramesOf(g[m + 1], es, m + 1, x)
    OBVIOUS
  <2>1. PICK x : FramesOf(g[m], es, m, x)
    BY <1>1, <1>4
  <2>2. /\ m + 1 \in 1..Len(es) /\ m + 1 \in 0..Len(es) /\ m + 1 # 0 /\ (m + 1) - 1 = m
    BY <1>1
  <2>3. g[m + 1] = IF es[m + 1].at = "waiting" THEN Append(g[m], Frame(es[m + 1])) ELSE g[m]
    BY <1>2, <2>2 DEF LateRun
  <2>4. CASE es[m + 1].at # "waiting"
    <3>1. FramesOf(g[m], es, m + 1, x)
      <4>1. x \in [DOMAIN g[m] -> 1..(m + 1)]
        BY <2>1 DEF FramesOf
      <4> QED BY <2>1, <4>1 DEF FramesOf
    <3> QED BY <2>3, <2>4, <3>1
  <2>5. CASE es[m + 1].at = "waiting"
    <3> DEFINE fs == g[m]
               f == Frame(es[m + 1])
               y == [p \in 1..(Len(fs) + 1) |-> IF p = Len(fs) + 1 THEN m + 1 ELSE x[p]]
    <3>1. fs \in Seq(Request) /\ f \in Request
      BY <1>1, <2>1, <2>2, FrameIsRequest DEF FramesOf
    <3>2. /\ x \in [1..Len(fs) -> 1..m] /\ DOMAIN fs = 1..Len(fs) /\ Len(fs) \in Nat
          /\ \A p, q \in 1..Len(fs) : x[p] = x[q] => p = q
          /\ \A p \in 1..Len(fs) : es[x[p]].at = "waiting" /\ fs[p] = Frame(es[x[p]])
      BY <2>1, <3>1 DEF FramesOf
    <3> HIDE DEF f
    <3>3. /\ Append(fs, f) \in Seq(Request) /\ DOMAIN Append(fs, f) = 1..(Len(fs) + 1)
          /\ Append(fs, f)[Len(fs) + 1] = f
          /\ \A p \in 1..Len(fs) : Append(fs, f)[p] = fs[p]
      BY <3>1
    <3> HIDE DEF fs
    <3>4. y \in [1..(Len(fs) + 1) -> 1..(m + 1)]
      BY <3>2
    <3>5. ASSUME NEW p \in 1..(Len(fs) + 1), NEW q \in 1..(Len(fs) + 1), y[p] = y[q]
          PROVE  p = q
      <4>1. \A r \in 1..Len(fs) : y[r] = x[r] /\ x[r] \in 1..m
        BY <3>2
      <4>2. y[Len(fs) + 1] = m + 1
        BY <3>2
      <4> HIDE DEF y
      <4>3. CASE p \in 1..Len(fs) /\ q \in 1..Len(fs)
        BY <3>2, <3>5, <4>1, <4>3
      <4>4. CASE p = Len(fs) + 1 /\ q # Len(fs) + 1
        <5>1. q \in 1..Len(fs)
          BY <3>2, <4>4
        <5>2. y[q] \in 1..m /\ y[p] = m + 1
          BY <4>1, <4>2, <4>4, <5>1
        <5> QED BY <3>5, <5>2
      <4>5. CASE p # Len(fs) + 1 /\ q = Len(fs) + 1
        <5>1. p \in 1..Len(fs)
          BY <3>2, <4>5
        <5>2. y[p] \in 1..m /\ y[q] = m + 1
          BY <4>1, <4>2, <4>5, <5>1
        <5> QED BY <3>5, <5>2
      <4> QED BY <3>2, <4>3, <4>4, <4>5
    <3>6. \A p \in 1..(Len(fs) + 1) : es[y[p]].at = "waiting" /\ Append(fs, f)[p] = Frame(es[y[p]])
      BY <2>5, <3>2, <3>3 DEF f
    <3>7. FramesOf(Append(fs, f), es, m + 1, y)
      BY <3>3, <3>4, <3>5, <3>6 DEF FramesOf
    <3> QED BY <2>3, <2>5, <3>7 DEF fs, f
  <2> QED BY <2>4, <2>5
<1> HIDE DEF T
<1>5. Len(es) \in T
  BY <1>1, <1>3, <1>4, SetInduction
<1> QED BY <1>1, <1>2, <1>5 DEF T

(* With nothing waiting nothing goes out.                                  *)
LEMMA NoneLate ==
  ASSUME NEW es \in Seq(Entry), \A i \in DOMAIN es : es[i].at # "waiting"
  PROVE  Late(es) = <<>> /\ Released(es) = es
<1>1. PICK x : FramesOf(Late(es), es, Len(es), x)
  BY LateFrames
<1>2. DOMAIN Late(es) = {}
  BY <1>1 DEF FramesOf
<1>3. Late(es) = <<>>
  BY <1>1, <1>2 DEF FramesOf
<1>4. Released(es) = es
  BY DEF Released
<1> QED BY <1>3, <1>4

(* What remains of a sequence when its head is taken.                      *)
LEMMA TailFacts ==
  ASSUME NEW S, NEW s \in Seq(S), s # <<>>
  PROVE  /\ 1 \in DOMAIN s /\ Head(s) = s[1] /\ s[1] \in S
         /\ Tail(s) \in Seq(S)
         /\ \A i \in DOMAIN Tail(s) : /\ i \in Nat \ {0} /\ i + 1 \in DOMAIN s
                                      /\ Tail(s)[i] = s[i + 1]
         /\ \A i \in DOMAIN s : i \in Nat \ {0} /\ (i # 1 => i - 1 \in DOMAIN Tail(s))
OBVIOUS

(* A sequence with one element more.                                       *)
LEMMA AppendFacts ==
  ASSUME NEW S, NEW s \in Seq(S), NEW e \in S
  PROVE  /\ Append(s, e) \in Seq(S)
         /\ Len(s) + 1 \in DOMAIN Append(s, e) /\ Append(s, e)[Len(s) + 1] = e
         /\ \A i \in DOMAIN s : /\ i \in Nat \ {0} /\ i <= Len(s) /\ Len(s) \in Nat
                                /\ i \in DOMAIN Append(s, e) /\ Append(s, e)[i] = s[i]
         /\ \A i \in DOMAIN Append(s, e) : i \in DOMAIN s \/ i = Len(s) + 1
         /\ Append(s, e) # <<>>
         /\ s = <<>> => Len(s) + 1 = 1
OBVIOUS

(* A sequence continued by another.                                        *)
LEMMA ConcatFacts ==
  ASSUME NEW S, NEW s \in Seq(S), NEW t \in Seq(S)
  PROVE  /\ s \o t \in Seq(S)
         /\ \A i \in DOMAIN s : i \in DOMAIN (s \o t) /\ (s \o t)[i] = s[i]
         /\ \A i \in DOMAIN (s \o t) :
              \/ i \in DOMAIN s
              \/ i \notin DOMAIN s /\ i - Len(s) \in DOMAIN t /\ (s \o t)[i] = t[i - Len(s)]
OBVIOUS

(* The mutation is issued: what changes in the chain and on the wire.      *)
Sending(i, e) ==
  /\ DOMAIN chain' = DOMAIN chain /\ chain' \in Seq(Entry)
  /\ chain'[i] = e /\ e \in Entry
  /\ \A j \in DOMAIN chain : j # i => chain'[j] = chain[j]
  /\ e.id = chain[i].id /\ e.op = chain[i].op /\ e.watch = chain[i].watch
  /\ e.at = IF connected THEN "sent" ELSE "waiting"
  /\ e.set = IF e.op = "add" THEN {e.watch} ELSE specs'
  /\ specs' \subseteq specs /\ (e.op # "remove" => specs' = specs)
  /\ up' \in Seq(Request)
  /\ ~connected => up' = up
  /\ \A p \in DOMAIN up : p \in DOMAIN up' /\ up'[p] = up[p]
  /\ \A p \in DOMAIN up' : \/ p \in DOMAIN up
                           \/ /\ connected /\ p = Len(up) + 1
                              /\ up'[p] = Frame(e)
  /\ connected => up' # <<>>

(* The effect of Issue.                                                    *)
LEMMA IssueEffect ==
  ASSUME WatchInv, NEW i \in DOMAIN chain, Issue(i)
  PROVE  \E e : Sending(i, e)
<1> DEFINE kept == IF chain[i].op = "remove" THEN specs \ {chain[i].watch} ELSE specs
           at == IF connected THEN "sent" ELSE "waiting"
           set == IF chain[i].op = "add" THEN {chain[i].watch} ELSE kept
           e == [chain[i] EXCEPT !.at = at, !.set = set]
<1>1. /\ specs' = kept /\ chain' = [chain EXCEPT ![i] = e]
      /\ up' = IF connected THEN Append(up, Frame(e)) ELSE up
  BY DEF Issue
<1>2. /\ chain \in Seq(Entry) /\ up \in Seq(Request) /\ specs \subseteq Watches
      /\ chain[i] \in Entry
  BY DEF WatchInv, Shaped
<1>3. /\ e.id = chain[i].id /\ e.op = chain[i].op /\ e.watch = chain[i].watch
      /\ e.at = at /\ e.set = set
      /\ at \in Steps /\ set \subseteq Watches /\ e \in Entry
  BY <1>2 DEF Entry, Steps
<1>4. kept \subseteq specs /\ (chain[i].op # "remove" => kept = specs)
  OBVIOUS
<1> HIDE DEF e, at, set, kept
<1>5. /\ DOMAIN chain' = DOMAIN chain /\ chain' \in Seq(Entry) /\ chain'[i] = e
      /\ \A j \in DOMAIN chain : j # i => chain'[j] = chain[j]
  BY <1>1, <1>2, <1>3
<1>6. /\ up' \in Seq(Request)
      /\ \A p \in DOMAIN up : p \in DOMAIN up' /\ up'[p] = up[p]
      /\ \A p \in DOMAIN up' : \/ p \in DOMAIN up
                               \/ /\ connected /\ p = Len(up) + 1
                                  /\ up'[p] = Frame(e)
      /\ connected => up' # <<>>
  <2>1. Frame(e) \in Request
    BY <1>3, FrameIsRequest
  <2> QED BY <1>1, <1>2, <2>1, AppendFacts
<1>7. Sending(i, e)
  BY <1>1, <1>3, <1>4, <1>5, <1>6 DEF Sending, at, set
<1> QED BY <1>7

(* A request sent on a live connection is the only one of its mutation;    *)
(* one that waits was not the loop's own, and the server has its session.  *)
LEMMA IssueKeeps ==
  ASSUME Calm, WatchInv, NEW i \in DOMAIN chain, Issue(i)
  PROVE  WatchInv'
<1>1. PICK e : Sending(i, e)
  BY IssueEffect
<1>2. /\ connected' = connected /\ loop' = loop /\ closed' = closed
      /\ concurrent' = concurrent /\ calls' = calls /\ losses' = losses /\ down' = down
      /\ opened' = opened /\ known' = known /\ rotated' = rotated
      /\ watching' = watching /\ bare' = bare
  BY DEF Issue, serverVars
<1>3. chain[i].at = "queued" /\ Ready(i)
  BY DEF Issue, Ready
<1>4. Shaped'
  BY <1>1, <1>2 DEF WatchInv, Shaped, Sending
<1>5. Len(up) \in Nat /\ DOMAIN up = 1..Len(up) /\ Frame(e).type # "open" /\ Frame(e).id = chain[i].id
  BY <1>1, FrameIsRequest DEF WatchInv, Shaped, Sending, Frame
<1>6. /\ connected' => up' # <<>>
      /\ \A p \in DOMAIN up' : IsOpen(p)' => p \in DOMAIN up /\ IsOpen(p)
      /\ up # <<>> => 1 \in DOMAIN up
  BY <1>1, <1>2, <1>5 DEF Sending, IsOpen
<1>7. FreshOpen' = FreshOpen
  BY <1>2 DEF FreshOpen
<1>8. ASSUME ~connected PROVE loop # "rewatch" /\ loop # "none" /\ loop # "sign" /\ known /\ ~FreshOpen
  BY <1>3, <1>8 DEF WatchInv, Linked, Told, FreshOpen, ChainInv, Restoring, Waits
<1>10. Linked'
  BY <1>1, <1>2 DEF WatchInv, Linked, Sending
<1>11. Asked'
  <2>1. \A p \in DOMAIN up : p \in DOMAIN up' /\ (IsOpen(p) => IsOpen(p)')
    BY <1>1 DEF Sending, IsOpen
  <2> QED BY <1>2, <1>6, <2>1 DEF WatchInv, Asked
<1>12. Told'
  BY <1>2 DEF WatchInv, Told, IsAnswer
<1>13. Named'
  BY <1>1, <1>2 DEF WatchInv, ChainInv, Named, Sending
<1>14. Restoring'
  <2>1. chain # <<>> /\ chain' # <<>>
    BY <1>1 DEF Sending, WatchInv, Shaped
  <2> QED BY <1>1, <1>2, <1>3, <1>8, <2>1 DEF WatchInv, ChainInv, Restoring, Sending
<1>15. Issued'
  <2>1. /\ concurrent /\ chain[i].op = "add" => \A j \in 1..(i - 1) : chain[j].at # "queued"
        /\ ~(concurrent /\ chain[i].op = "add") => i = 1
    BY <1>3 DEF Ready
  <2>2. \A j \in DOMAIN chain : j \in Nat \ {0} /\ (j < i => j \in 1..(i - 1))
    BY DEF WatchInv, Shaped
  <2> QED BY <1>1, <1>2, <1>3, <2>1, <2>2 DEF WatchInv, ChainInv, Issued, Sending
<1>16. Waits'
  <2>1. chain[i].op \in {"add", "remove", "restore"}
    <3>1. chain[i] \in Entry
      BY DEF WatchInv, Shaped
    <3> QED BY <3>1 DEF Entry
  <2>2. e.op # "add" /\ ~connected => ~concurrent
    BY <1>1, <1>3, <2>1 DEF WatchInv, ChainInv, Waits, Sending, Restoring
  <2> QED BY <1>1, <1>2, <1>3, <1>7, <1>8, <2>2 DEF WatchInv, ChainInv, Waits, Sending
<1>17. \A p \in DOMAIN up : ~IsOpen(p) => up[p].id # chain[i].id
  BY <1>3 DEF WatchInv, FlightInv, InFlight, Asks, ChainInv, Named, Frame
<1>18. \A p \in DOMAIN down : IsAnswer(p) => down[p].id # chain[i].id
  BY <1>3 DEF WatchInv, FlightInv, InFlight, Answers, ChainInv, Named
<1>19. InFlight'
  <2>1. \A p \in DOMAIN up' : ~IsOpen(p)' => \E j \in DOMAIN chain' : Asks(p, j)'
    BY SMTT(30), <1>1, <1>2, <1>3, <1>6 DEF WatchInv, FlightInv, InFlight, Asks, IsOpen, Sending
  <2>2. \A p \in DOMAIN down' : IsAnswer(p)' => \E j \in DOMAIN chain' : Answers(p, j)'
    BY SMTT(30), <1>1, <1>2, <1>3 DEF WatchInv, FlightInv, InFlight, Answers, IsAnswer, Sending
  <2> QED BY <2>1, <2>2 DEF InFlight
<1>20. Apart'
  <2>1. \A p \in DOMAIN up' : ~IsOpen(p)' =>
          \/ p \in DOMAIN up /\ ~IsOpen(p) /\ up'[p].id = up[p].id
          \/ p = Len(up) + 1 /\ up'[p].id = chain[i].id
    BY <1>1, <1>5 DEF Sending, IsOpen
  <2>2. \A p, q \in DOMAIN up' : ~IsOpen(p)' /\ ~IsOpen(q)' /\ up'[p].id = up'[q].id => p = q
    BY <1>17, <2>1 DEF WatchInv, FlightInv, Apart
  <2>3. \A p \in DOMAIN up', q \in DOMAIN down :
          ~IsOpen(p)' /\ IsAnswer(q) => up'[p].id # down[q].id
    BY <1>18, <2>1 DEF WatchInv, FlightInv, Apart
  <2> QED BY <1>2, <2>2, <2>3 DEF WatchInv, FlightInv, Apart, IsAnswer
<1>21. SetAlone'
  <2> SUFFICES ASSUME NEW p \in DOMAIN up', up'[p].type = "set"
               PROVE  /\ \A q \in DOMAIN up' : q < p => IsOpen(q)'
                      /\ \A q \in DOMAIN down : ~IsAnswer(q)
                      /\ \A j \in DOMAIN chain' : chain'[j].at # "answered"
    BY <1>2 DEF SetAlone, IsAnswer
  <2>1. \A j \in DOMAIN chain' : chain'[j].at = "answered" => chain[j].at = "answered"
    BY <1>1 DEF Sending
  <2>2. CASE p \in DOMAIN up
    <3>1. up[p].type = "set" /\ \A q \in DOMAIN up' : q < p => q \in DOMAIN up /\ up'[q] = up[q]
      BY <1>1, <1>5, <2>2 DEF Sending
    <3> QED BY <1>1, <2>1, <2>2, <3>1 DEF WatchInv, FlightInv, SetAlone, IsOpen, Sending
  <2>3. CASE p \notin DOMAIN up
    <3>1. connected /\ p = Len(up) + 1 /\ chain[i].op # "add"
      BY <1>1, <2>3 DEF Sending, Frame
    <3>2. i = 1
      BY <1>3, <3>1 DEF Ready
    <3>3. \A j \in DOMAIN chain : chain[j].at = "queued"
      <4>1. \A j \in DOMAIN chain : j = 1 \/ 1 < j
        BY DEF WatchInv, Shaped
      <4> QED BY <1>3, <3>2, <4>1 DEF WatchInv, ChainInv, Issued
    <3>4. (\A q \in DOMAIN up : IsOpen(q)) /\ \A q \in DOMAIN down : ~IsAnswer(q)
      BY <3>3 DEF WatchInv, FlightInv, InFlight, Asks, Answers
    <3>5. \A q \in DOMAIN up' : q < p => q \in DOMAIN up /\ up'[q] = up[q]
      BY <1>1, <3>1 DEF Sending
    <3> QED BY <2>1, <3>3, <3>4, <3>5, <1>1 DEF IsOpen, Sending
  <2> QED BY <2>2, <2>3
<1>22. Served'
  BY SMTT(30), <1>1, <1>2, <1>18 DEF WatchInv, Served, IsAnswer, Sending
<1>23. Kept'
  BY <1>1, <1>2, <1>7 DEF WatchInv, Kept, Sending
<1> QED BY <1>4, <1>10, <1>11, <1>12, <1>13, <1>14, <1>15, <1>16, <1>19, <1>20, <1>21, <1>22, <1>23
        DEF WatchInv, ChainInv, FlightInv

(* A settled mutation leaves the chain.                                    *)
Popped ==
  /\ chain # <<>> /\ chain[1].at \in {"answered", "failed"}
  /\ chain' = Tail(chain)
  /\ up' = up /\ down' = down /\ concurrent' = concurrent /\ calls' = calls
  /\ known' = known /\ opened' = opened /\ watching' = watching /\ connected' = connected
  /\ rotated' = rotated /\ bare' = bare /\ losses' = losses /\ closed' = closed
  /\ IF chain[1].op = "restore" THEN loop' \in {"none", "delay"} ELSE loop' = loop

(* The others move up by one place.                                        *)
LEMMA PopChain ==
  ASSUME WatchInv, Popped
  PROVE  /\ 1 \in DOMAIN chain /\ chain[1] \in Entry
         /\ \A i \in DOMAIN chain' : /\ i \in Nat \ {0} /\ i + 1 \in DOMAIN chain
                                     /\ chain'[i] = chain[i + 1]
         /\ \A i \in DOMAIN chain : i \in Nat \ {0} /\ (i # 1 => i - 1 \in DOMAIN chain')
         /\ chain' \in Seq(Entry)
<1> chain \in Seq(Entry)
  BY DEF WatchInv, Shaped
<1> QED BY TailFacts DEF Popped

(* What the departure of a settled mutation keeps, whatever it was.        *)
LEMMA PopKeeps ==
  ASSUME WatchInv, Popped
  PROVE  /\ Named' /\ Issued' /\ Waits' /\ FlightInv' /\ Served'
         /\ Asked' /\ Told'
<1>1. /\ 1 \in DOMAIN chain /\ chain[1] \in Entry
      /\ \A i \in DOMAIN chain' : /\ i \in Nat \ {0} /\ i + 1 \in DOMAIN chain
                                  /\ chain'[i] = chain[i + 1]
      /\ \A i \in DOMAIN chain : i \in Nat \ {0} /\ (i # 1 => i - 1 \in DOMAIN chain')
      /\ chain' \in Seq(Entry)
  BY PopChain
<1>2. Named'
  BY <1>1 DEF WatchInv, ChainInv, Named, Popped
<1>3. Issued'
  <2>1. \A i \in DOMAIN chain' : i + 1 # 1
    BY <1>1
  <2>2. \A i \in DOMAIN chain' : /\ chain'[i].op # "add" => chain'[i].at = "queued"
                                 /\ ~concurrent => chain'[i].at = "queued"
    BY <1>1, <2>1 DEF WatchInv, ChainInv, Issued
  <2>3. \A i, j \in DOMAIN chain' : i < j => i + 1 < j + 1
    BY <1>1
  <2> QED BY <1>1, <2>2, <2>3 DEF WatchInv, ChainInv, Issued, Popped
<1>4. Waits'
  <2>1. FreshOpen' = FreshOpen
    BY DEF FreshOpen, Popped
  <2>2. chain[1].op = "restore" => loop = "rewatch"
    BY <1>1 DEF WatchInv, ChainInv, Restoring
  <2> QED BY <1>1, <2>1, <2>2 DEF WatchInv, ChainInv, Waits, Popped
<1>5. FlightInv'
  <2>1. InFlight'
    <3>1. \A p \in DOMAIN up : ~IsOpen(p) => \E i \in DOMAIN chain' : chain'[i].at = "sent" /\ up[p] = Frame(chain'[i])
      <4> SUFFICES ASSUME NEW p \in DOMAIN up, ~IsOpen(p)
                   PROVE  \E i \in DOMAIN chain' : chain'[i].at = "sent" /\ up[p] = Frame(chain'[i])
        OBVIOUS
      <4>1. PICK i \in DOMAIN chain : Asks(p, i)
        BY DEF WatchInv, FlightInv, InFlight
      <4>2. i # 1 /\ i \in Nat
        BY <1>1, <4>1 DEF Asks, Popped
      <4>3. i - 1 \in DOMAIN chain' /\ chain'[i - 1] = chain[i]
        BY <1>1, <4>2
      <4> QED BY <4>1, <4>3 DEF Asks
    <3>2. \A p \in DOMAIN down : IsAnswer(p) => \E i \in DOMAIN chain' : chain'[i].at = "sent" /\ chain'[i].id = down[p].id
      <4> SUFFICES ASSUME NEW p \in DOMAIN down, IsAnswer(p)
                   PROVE  \E i \in DOMAIN chain' : chain'[i].at = "sent" /\ chain'[i].id = down[p].id
        OBVIOUS
      <4>1. PICK i \in DOMAIN chain : Answers(p, i)
        BY DEF WatchInv, FlightInv, InFlight
      <4>2. i # 1 /\ i \in Nat
        BY <1>1, <4>1 DEF Answers, Popped
      <4>3. i - 1 \in DOMAIN chain' /\ chain'[i - 1] = chain[i]
        BY <1>1, <4>2
      <4> QED BY <4>1, <4>3 DEF Answers
    <3> QED BY <3>1, <3>2 DEF InFlight, Asks, Answers, IsOpen, IsAnswer, Popped
  <2>2. Apart'
    BY DEF WatchInv, FlightInv, Apart, IsOpen, IsAnswer, Popped
  <2>3. SetAlone'
    BY <1>1 DEF WatchInv, FlightInv, SetAlone, IsOpen, IsAnswer, Popped
  <2> QED BY <2>1, <2>2, <2>3 DEF FlightInv
<1>6. Served'
  BY <1>1 DEF WatchInv, Served, IsAnswer, Popped
<1>7. chain[1].op = "restore" => loop = "rewatch"
  BY <1>1 DEF WatchInv, ChainInv, Restoring
<1>8. Asked'
  BY <1>7 DEF WatchInv, Asked, IsOpen, Popped, Linked
<1>9. Told'
  BY <1>7 DEF WatchInv, Told, IsAnswer, Popped, Linked
<1> QED BY <1>2, <1>3, <1>4, <1>5, <1>6, <1>8, <1>9

(* The loop moves on with its own mutation, and only with it.              *)
LEMMA PopRestoring ==
  ASSUME WatchInv, Popped
  PROVE  Restoring'
<1>1. /\ 1 \in DOMAIN chain /\ chain[1] \in Entry
      /\ \A i \in DOMAIN chain' : /\ i \in Nat \ {0} /\ i + 1 \in DOMAIN chain
                                  /\ chain'[i] = chain[i + 1]
      /\ \A i \in DOMAIN chain : i \in Nat \ {0} /\ (i # 1 => i - 1 \in DOMAIN chain')
  BY PopChain
<1>2. \A i \in DOMAIN chain : chain[i].op = "restore" /\ chain[1].op = "restore" => i = 1
  BY <1>1 DEF WatchInv, ChainInv, Named
<1>3. \A i \in DOMAIN chain' : chain'[i].op = "restore" => chain[1].op # "restore"
  <2>1. \A i \in DOMAIN chain' : i + 1 # 1
    BY <1>1
  <2> QED BY <1>1, <1>2, <2>1
<1>4. CASE chain[1].op = "restore"
  BY <1>1, <1>3, <1>4 DEF Restoring, Popped
<1>5. CASE chain[1].op # "restore"
  <2>1. loop' = loop /\ connected' = connected /\ (loop = "rewatch" => connected)
    BY <1>5 DEF WatchInv, ChainInv, Restoring, Popped
  <2>2. ASSUME loop = "rewatch" PROVE \E i \in DOMAIN chain' : chain'[i].op = "restore"
    <3>1. PICK i \in DOMAIN chain : chain[i].op = "restore"
      BY <2>2 DEF WatchInv, ChainInv, Restoring
    <3>2. i - 1 \in DOMAIN chain' /\ (i - 1) + 1 = i
      BY <1>1, <1>5, <3>1
    <3> QED BY <1>1, <3>1, <3>2
  <2> QED BY <1>1, <2>1, <2>2 DEF WatchInv, ChainInv, Restoring
<1> QED BY <1>4, <1>5

(* What an addition applied adds to the intent is watched already          *)
(* (Served), and the set of the loop's own mutation too.                   *)
LEMMA ApplyKeeps ==
  ASSUME WatchInv, ApplyFirst
  PROVE  WatchInv'
<1> DEFINE e == chain[1]
<1>1. chain \in Seq(Entry) /\ specs \subseteq Watches /\ chain # <<>>
  BY DEF WatchInv, Shaped, ApplyFirst, Settled
<1>2. 1 \in DOMAIN chain /\ Head(chain) = e /\ e \in Entry /\ Tail(chain) \in Seq(Entry)
      /\ \A i \in DOMAIN Tail(chain) : i + 1 \in DOMAIN chain /\ Tail(chain)[i] = chain[i + 1]
  BY <1>1, TailFacts
<1>3. e.at = "answered" /\ (e.op = "restore" => loop = "rewatch" /\ connected)
  BY <1>2 DEF ApplyFirst, WatchInv, ChainInv, Restoring
<1>4. e.op = "restore" => Late(Tail(chain)) = <<>> /\ Released(Tail(chain)) = Tail(chain)
  BY <1>2, <1>3, NoneLate DEF WatchInv, ChainInv, Waits
<1>5. Popped /\ (e.op = "restore" => loop' = "none")
  <2>1. CASE e.op = "restore"
    <3>1. up \o Late(Tail(chain)) = up
      BY <1>4, <2>1 DEF WatchInv, Shaped
    <3> QED BY <1>1, <1>2, <1>3, <1>4, <2>1, <3>1 DEF ApplyFirst, EndLoop, Popped, serverVars
  <2>2. CASE e.op # "restore"
    BY <1>1, <1>2, <1>3, <2>2 DEF ApplyFirst, Popped, serverVars
  <2> QED BY <2>1, <2>2
<1>6. specs' = IF e.op = "add" THEN specs \union {e.watch}
               ELSE IF e.op = "restore" THEN e.set ELSE specs
  BY <1>2 DEF ApplyFirst
<1>7. /\ chain' \in Seq(Entry)
      /\ \A i \in DOMAIN chain' : /\ i \in Nat \ {0} /\ i + 1 \in DOMAIN chain
                                  /\ chain'[i] = chain[i + 1]
      /\ \A i \in DOMAIN chain : i \in Nat \ {0} /\ (i # 1 => i - 1 \in DOMAIN chain')
  BY <1>5, PopChain
<1>8. Shaped'
  <2>1. e.watch \in Watches /\ e.set \subseteq Watches
    BY <1>2 DEF Entry
  <2>2. specs' \subseteq Watches
    BY <1>1, <1>6, <2>1
  <2> QED BY <1>5, <1>7, <2>2 DEF Popped, WatchInv, Shaped
<1>9. Linked'
  BY <1>3, <1>5 DEF WatchInv, Linked, Popped, ApplyFirst
<1>10. Restoring'
  BY <1>3, <1>5, PopRestoring
<1>11. Kept'
  <2>1. FreshOpen' = FreshOpen
    BY <1>5 DEF Popped, FreshOpen
  <2>2. e.set \subseteq watching
    BY <1>2, <1>3 DEF WatchInv, Served
  <2>3. e.op = "add" => e.set = {e.watch}
    BY <1>2, <1>3 DEF WatchInv, ChainInv, Issued
  <2> QED BY <1>5, <1>6, <2>1, <2>2, <2>3 DEF WatchInv, Kept, Popped
<1> QED BY <1>5, <1>8, <1>9, <1>10, <1>11, PopKeeps DEF WatchInv, ChainInv

(* The loop's own mutation failed because the connection was lost.         *)
LEMMA FailKeeps ==
  ASSUME WatchInv, FailFirst
  PROVE  WatchInv'
<1> DEFINE e == chain[1]
<1>1. chain \in Seq(Entry) /\ chain # <<>>
  BY DEF WatchInv, Shaped, FailFirst, Settled
<1>2. 1 \in DOMAIN chain /\ Head(chain) = e /\ e \in Entry
  BY <1>1, TailFacts
<1>3. e.at = "failed" /\ (e.op = "restore" => loop = "rewatch" /\ ~connected)
  BY <1>2 DEF FailFirst, WatchInv, ChainInv, Restoring
<1>4. Popped /\ specs' = specs /\ (e.op = "restore" => loop' = "delay")
  <2>1. connected \in BOOLEAN
    BY DEF WatchInv, Shaped
  <2> QED BY <1>1, <1>2, <1>3, <2>1 DEF FailFirst, Popped, serverVars
<1>5. /\ chain' \in Seq(Entry)
      /\ \A i \in DOMAIN chain' : /\ i \in Nat \ {0} /\ i + 1 \in DOMAIN chain
                                  /\ chain'[i] = chain[i + 1]
      /\ \A i \in DOMAIN chain : i \in Nat \ {0} /\ (i # 1 => i - 1 \in DOMAIN chain')
  BY <1>4, PopChain
<1>6. Shaped'
  BY <1>4, <1>5 DEF Popped, WatchInv, Shaped
<1>7. Linked'
  BY <1>3, <1>4 DEF WatchInv, Linked, Popped, FailFirst
<1>8. Restoring'
  BY <1>3, <1>4, PopRestoring
<1>9. Kept'
  <2>1. FreshOpen' = FreshOpen
    BY <1>4 DEF Popped, FreshOpen
  <2> QED BY <1>3, <1>4, <2>1 DEF WatchInv, Kept, Popped, ChainInv, Restoring
<1> QED BY <1>4, <1>6, <1>7, <1>8, <1>9, PopKeeps DEF WatchInv, ChainInv

(* A new mutation queues behind the others.                                *)
Queued(e) ==
  /\ e \in Entry /\ e.at = "queued"
  /\ chain' = Append(chain, e)
  /\ up' = up /\ concurrent' = concurrent
  /\ known' = known /\ opened' = opened /\ watching' = watching /\ connected' = connected
  /\ bare' = bare /\ losses' = losses /\ closed' = closed /\ specs' = specs

(* The others keep their places.                                           *)
LEMMA QueueChain ==
  ASSUME WatchInv, NEW e, Queued(e)
  PROVE  /\ chain' \in Seq(Entry) /\ chain' # <<>> /\ Len(chain) + 1 \in DOMAIN chain'
         /\ \A i \in DOMAIN chain : /\ i \in Nat \ {0} /\ i <= Len(chain) /\ Len(chain) \in Nat
                                    /\ i \in DOMAIN chain' /\ chain'[i] = chain[i]
         /\ \A i \in DOMAIN chain' : i \in DOMAIN chain \/ (i = Len(chain) + 1 /\ chain'[i] = e)
<1> chain \in Seq(Entry)
  BY DEF WatchInv, Shaped
<1> QED BY AppendFacts DEF Queued

(* When all is quiet, a loop that waits for its own mutation has a         *)
(* connection.                                                             *)
LEMMA SettledNotQuiet ==
  ASSUME WatchInv, Quiet, loop = "rewatch" PROVE connected
<1> SUFFICES ASSUME ~connected PROVE FALSE
  BY DEF WatchInv, Shaped
<1>1. chain # <<>> /\ chain[1].op = "restore" /\ chain \in Seq(Entry)
  BY DEF WatchInv, ChainInv, Restoring, Shaped
<1>2. 1 \in DOMAIN chain /\ Head(chain) = chain[1]
  BY <1>1, TailFacts
<1>3. chain[1].at = "failed"
  BY <1>1, <1>2 DEF WatchInv, ChainInv, Restoring
<1> QED BY <1>1, <1>2, <1>3 DEF Quiet, Settled

(* A call comes with a new number; Calm keeps one that would wait for the  *)
(* loop from a session the server has forgotten.                           *)
LEMMA CallKeeps ==
  ASSUME Calm, WatchInv, Call
  PROVE  WatchInv'
<1>1. PICK e : /\ Queued(e) /\ e.id = calls + 1 /\ e.op \in {"add", "remove"}
               /\ (e.op = "remove" => MayRemove)
  <2>1. calls \in Nat /\ MaxCalls \in Nat /\ calls + 1 \in 0..MaxCalls
    BY BoundsAssumption DEF Call, WatchInv, Shaped
  <2>2. \A w \in 0..(calls + 1) : /\ Mutation(calls + 1, "add", w) \in Entry
                                  /\ Mutation(calls + 1, "remove", w) \in Entry
    BY <2>1, BoundsAssumption DEF Mutation, Entry, Watches, Steps
  <2>3. \E e : /\ e \in Entry /\ e.at = "queued" /\ chain' = Append(chain, e)
               /\ e.id = calls + 1 /\ e.op \in {"add", "remove"}
               /\ (e.op = "remove" => MayRemove)
    <3>1. CASE chain' = Append(chain, Mutation(calls + 1, "add", calls + 1))
      <4>1. calls + 1 \in 0..(calls + 1)
        BY <2>1
      <4>2. PICK e : e = Mutation(calls + 1, "add", calls + 1)
        OBVIOUS
      <4>3. e \in Entry /\ e.at = "queued" /\ e.id = calls + 1 /\ e.op = "add"
        BY <2>2, <4>1, <4>2 DEF Mutation
      <4> QED BY <3>1, <4>2, <4>3
    <3>2. CASE MayRemove /\ \E w \in 1..calls : chain' = Append(chain, Mutation(calls + 1, "remove", w))
      <4>1. PICK w \in 1..calls : chain' = Append(chain, Mutation(calls + 1, "remove", w))
        BY <3>2
      <4>2. w \in 0..(calls + 1)
        BY <2>1
      <4>3. PICK e : e = Mutation(calls + 1, "remove", w)
        OBVIOUS
      <4>4. e \in Entry /\ e.at = "queued" /\ e.id = calls + 1 /\ e.op = "remove"
        BY <2>2, <4>2, <4>3 DEF Mutation
      <4> QED BY <3>2, <4>1, <4>3, <4>4
    <3> QED BY <3>1, <3>2 DEF Call
  <2> QED BY <2>3 DEF Queued, Call, serverVars
<1>2. /\ loop' = loop /\ down' = down /\ rotated' = rotated /\ calls' = calls + 1
      /\ (connected \/ known) /\ calls \in Nat /\ calls + 1 \in 0..MaxCalls
      /\ up' = up /\ concurrent' = concurrent
      /\ known' = known /\ opened' = opened /\ watching' = watching /\ connected' = connected
      /\ bare' = bare /\ losses' = losses /\ closed' = closed /\ specs' = specs
  BY BoundsAssumption DEF Call, serverVars, MayCall, WatchInv, Shaped
<1>3. /\ chain' \in Seq(Entry) /\ chain' # <<>>
      /\ \A i \in DOMAIN chain : /\ i \in Nat \ {0} /\ i <= Len(chain) /\ Len(chain) \in Nat
                                 /\ i \in DOMAIN chain' /\ chain'[i] = chain[i]
      /\ \A i \in DOMAIN chain' : i \in DOMAIN chain \/ (i = Len(chain) + 1 /\ chain'[i] = e)
      /\ e.at = "queued"
  BY <1>1, QueueChain DEF Queued
<1>4. FreshOpen' = FreshOpen
  BY <1>2 DEF FreshOpen
<1>5. loop = "rewatch" => connected
  BY SettledNotQuiet DEF Call
<1>6. Shaped'
  BY <1>2, <1>3 DEF WatchInv, Shaped
<1>7. Linked'
  BY <1>2 DEF WatchInv, Linked
<1>8. Asked' /\ Told'
  BY <1>2 DEF WatchInv, Asked, Told, IsOpen, IsAnswer
<1>9. Named'
  <2>1. \A i \in DOMAIN chain : chain[i].id # calls + 1 /\ chain[i].id <= calls + 1
    <3>1. \A i \in DOMAIN chain : chain[i] \in Entry
      BY DEF WatchInv, Shaped
    <3>2. \A i \in DOMAIN chain : chain[i].id \in Int
      BY <3>1, BoundsAssumption DEF Entry
    <3> QED BY <1>2, <3>2 DEF WatchInv, ChainInv, Named
  <2>2. \A i, j \in DOMAIN chain' : chain'[i].id = chain'[j].id => i = j
    BY <1>1, <1>3, <2>1 DEF WatchInv, ChainInv, Named
  <2>3. calls + 1 # 0 /\ calls + 1 <= calls + 1
    BY <1>2
  <2>4. \A i \in DOMAIN chain' : /\ chain'[i].id <= calls + 1
                                 /\ chain'[i].op = "restore" <=> chain'[i].id = 0
    BY <1>1, <1>3, <2>1, <2>3 DEF WatchInv, ChainInv, Named
  <2> QED BY <1>2, <2>2, <2>4 DEF Named
<1>10. Restoring'
  BY <1>1, <1>2, <1>3, <1>5 DEF WatchInv, ChainInv, Restoring
<1>11. Issued'
  BY <1>2, <1>3 DEF WatchInv, ChainInv, Issued
<1>12. Waits'
  BY <1>1, <1>2, <1>3, <1>4 DEF WatchInv, ChainInv, Waits, MayRemove
<1>13. InFlight'
  BY <1>2, <1>3 DEF WatchInv, FlightInv, InFlight, Asks, Answers, IsOpen, IsAnswer
<1>14. Apart'
  BY <1>2 DEF WatchInv, FlightInv, Apart, IsOpen, IsAnswer
<1>15. SetAlone'
  BY <1>2, <1>3 DEF WatchInv, FlightInv, SetAlone, IsOpen, IsAnswer
<1>16. Served'
  <2>1. \A p \in DOMAIN down : IsAnswer(p) => down[p].id # e.id
    BY <1>1, <1>2 DEF WatchInv, FlightInv, InFlight, Answers, ChainInv, Named, Shaped
  <2> QED BY <1>2, <1>3, <2>1 DEF WatchInv, Served, IsAnswer
<1>17. Kept'
  BY <1>2, <1>4 DEF WatchInv, Kept
<1> QED BY <1>6, <1>7, <1>8, <1>9, <1>10, <1>11, <1>12, <1>13, <1>14, <1>15, <1>16, <1>17
        DEF WatchInv, ChainInv, FlightInv

(* What the chain, the replies and the requests say when the loop moves on *)
(* without them.                                                           *)
ChainStill ==
  /\ chain' = chain /\ concurrent' = concurrent /\ calls' = calls /\ specs' = specs
  /\ closed' = closed /\ losses' = losses /\ down' = down
  /\ opened' = opened /\ known' = known /\ rotated' = rotated
  /\ watching' = watching /\ bare' = bare

(* The delay before the next attempt passes.                               *)
LEMMA DelayKeeps ==
  ASSUME WatchInv, DelayOver
  PROVE  WatchInv'
<1>1. ChainStill /\ connected' = connected /\ up' = up /\ loop = "delay" /\ loop' = "hello"
  BY DEF DelayOver, ChainStill, serverVars
<1>2. FreshOpen' = FreshOpen
  BY <1>1 DEF FreshOpen, ChainStill
<1>3. Shaped' /\ Linked'
  BY <1>1 DEF WatchInv, Shaped, Linked, ChainStill
<1>4. Asked' /\ Told'
  BY <1>1 DEF WatchInv, Asked, Told, Linked, IsOpen, IsAnswer, ChainStill
<1>5. ChainInv'
  BY <1>1, <1>2 DEF WatchInv, ChainInv, Named, Restoring, Issued, Waits, ChainStill
<1>6. FlightInv'
  BY <1>1 DEF WatchInv, FlightInv, InFlight, Asks, Answers, Apart, SetAlone, IsOpen, IsAnswer, ChainStill
<1>7. Served' /\ Kept'
  BY <1>1, <1>2 DEF WatchInv, Served, Kept, IsAnswer, ChainStill
<1> QED BY <1>3, <1>4, <1>5, <1>6, <1>7 DEF WatchInv

(* The open goes out behind the calls made while it was signed.            *)
LEMMA OpenSent ==
  ASSUME WatchInv, ChainStill, opened = "no", connected', loop' = "open",
         loop \in {"hello", "sign"}, up' = Append(up, Open)
  PROVE  WatchInv'
<1>1. Open \in Request /\ Open.type = "open" /\ up \in Seq(Request)
  BY BoundsAssumption DEF Open, Request, WatchInv, Shaped
<1>2. /\ up' \in Seq(Request) /\ Len(up) + 1 \in DOMAIN up' /\ up'[Len(up) + 1] = Open
      /\ \A p \in DOMAIN up : /\ p \in Nat \ {0} /\ p <= Len(up) /\ Len(up) \in Nat
                              /\ p \in DOMAIN up' /\ up'[p] = up[p]
      /\ \A p \in DOMAIN up' : p \in DOMAIN up \/ p = Len(up) + 1
      /\ \A p \in DOMAIN up' : p \in Nat
  BY <1>1, AppendFacts
<1>3. FreshOpen' = FreshOpen
  BY DEF FreshOpen, ChainStill
<1>11. /\ \A p \in DOMAIN up : ~IsOpen(p)
       /\ up'[Len(up) + 1].type = "open"
       /\ \A p \in DOMAIN up' : ~IsOpen(p)' => p \in DOMAIN up /\ ~IsOpen(p)
  <2>1. \A p \in DOMAIN up : ~IsOpen(p)
    BY DEF WatchInv, Asked
  <2>2. up'[Len(up) + 1].type = "open"
    BY <1>1, <1>2
  <2>3. \A p \in DOMAIN up' : ~IsOpen(p)' => p \in DOMAIN up
    BY <1>2, <2>2 DEF IsOpen
  <2> QED BY <2>1, <2>2, <2>3
<1>4. Shaped'
  BY <1>2 DEF WatchInv, Shaped, ChainStill
<1>5. Linked'
  BY DEF WatchInv, Linked, ChainStill
<1>6. Asked'
  <2>1. \A p \in DOMAIN up' : IsOpen(p)' => p = Len(up) + 1
    BY <1>2, <1>11 DEF IsOpen
  <2>2. \E p \in DOMAIN up' : IsOpen(p)'
    BY <1>2, <1>11 DEF IsOpen
  <2> QED BY <2>1, <2>2 DEF Asked, ChainStill
<1>12. Told'
  BY DEF WatchInv, Told, IsAnswer, ChainStill
<1>7. Named' /\ Restoring' /\ Issued'
  BY DEF WatchInv, ChainInv, Named, Restoring, Issued, ChainStill
<1>8. Waits'
  BY <1>3 DEF WatchInv, ChainInv, Waits, ChainStill
<1>9. FlightInv'
  <2>1. InFlight' /\ Apart'
    BY <1>2, <1>11 DEF WatchInv, FlightInv, InFlight, Asks, Answers, Apart, IsAnswer, ChainStill
  <2>2. SetAlone'
    <3>1. \A p \in DOMAIN up' : up'[p].type = "set" => p \in DOMAIN up /\ up[p].type = "set"
      BY <1>1, <1>2
    <3>2. \A p \in DOMAIN up, q \in DOMAIN up' : q < p => q \in DOMAIN up
      BY <1>2
    <3>3. \A q \in DOMAIN up : ~IsOpen(q)
      BY <1>11
    <3> QED BY <3>1, <3>2, <3>3 DEF WatchInv, FlightInv, SetAlone, IsAnswer, ChainStill
  <2> QED BY <2>1, <2>2 DEF FlightInv
<1>10. Served' /\ Kept'
  BY <1>3 DEF WatchInv, Served, Kept, IsAnswer, ChainStill
<1> QED BY <1>4, <1>5, <1>6, <1>7, <1>8, <1>9, <1>10, <1>12 DEF WatchInv, ChainInv

(* The new connection has nothing on it: it is opened, or its open signed. *)
LEMMA HelloKeeps ==
  ASSUME WatchInv, HelloOk
  PROVE  WatchInv'
<1>1. ChainStill /\ connected' /\ loop = "hello"
  BY DEF HelloOk, ChainStill, serverVars
<1>2. ~connected /\ up = <<>> /\ down = <<>> /\ opened = "no"
  BY <1>1 DEF WatchInv, Linked
<1>3. CASE ~Signs
  BY <1>1, <1>2, <1>3, OpenSent DEF HelloOk
<1>4. CASE Signs
  <2>1. loop' = "sign" /\ up' = up
    BY <1>4 DEF HelloOk
  <2>2. FreshOpen' = FreshOpen
    BY <1>1 DEF FreshOpen, ChainStill
  <2>3. Shaped' /\ Linked'
    BY <1>1, <1>2, <2>1 DEF WatchInv, Shaped, Linked, ChainStill, HelloOk
  <2>4. Asked' /\ Told'
    BY <1>1, <1>2, <2>1 DEF WatchInv, Asked, Told, IsOpen, IsAnswer, ChainStill
  <2>5. Named' /\ Restoring' /\ Issued'
    BY <1>1, <2>1 DEF WatchInv, ChainInv, Named, Restoring, Issued, ChainStill
  <2>6. Waits'
    BY <1>1, <1>2, <2>1, <2>2 DEF WatchInv, ChainInv, Waits, ChainStill
  <2>7. FlightInv'
    BY <1>1, <2>1 DEF WatchInv, FlightInv, InFlight, Asks, Answers, Apart, SetAlone, IsOpen, IsAnswer, ChainStill
  <2>8. Served' /\ Kept'
    BY <1>1, <2>1, <2>2 DEF WatchInv, Served, Kept, IsAnswer, ChainStill
  <2> QED BY <2>3, <2>4, <2>5, <2>6, <2>7, <2>8 DEF WatchInv, ChainInv
<1> QED BY <1>3, <1>4

(* Calm keeps the connection while the open is signed.                     *)
LEMMA SignedKeeps ==
  ASSUME WatchInv, Signed
  PROVE  WatchInv'
<1>1. ChainStill /\ loop = "sign" /\ connected' = connected
  BY DEF Signed, ChainStill, serverVars
<1>2. connected /\ opened = "no"
  BY <1>1 DEF WatchInv, Linked
<1>3. loop' = "open" /\ up' = Append(up, Open)
  BY <1>2 DEF Signed
<1> QED BY <1>1, <1>2, <1>3, OpenSent

(* A reply is taken from the connection.                                   *)
Taken ==
  /\ down # <<>> /\ 1 \in DOMAIN down /\ down' \in Seq(Reply) /\ down[1] \in Reply
  /\ \A p \in DOMAIN down' : /\ p \in Nat \ {0} /\ p + 1 \in DOMAIN down
                             /\ down'[p] = down[p + 1] /\ p + 1 # 1
  /\ \A p \in DOMAIN down : p \in Nat \ {0} /\ (p # 1 => p - 1 \in DOMAIN down')

(* The reply taken is the first; the others move up.                       *)
LEMMA TailTaken ==
  ASSUME WatchInv, down # <<>>, down' = Tail(down)
  PROVE  Taken /\ Head(down) = down[1]
<1>1. down \in Seq(Reply)
  BY DEF WatchInv, Shaped
<1>2. /\ 1 \in DOMAIN down /\ Head(down) = down[1] /\ down[1] \in Reply
      /\ Tail(down) \in Seq(Reply)
      /\ \A i \in DOMAIN Tail(down) : /\ i \in Nat \ {0} /\ i + 1 \in DOMAIN down
                                      /\ Tail(down)[i] = down[i + 1]
      /\ \A i \in DOMAIN down : i \in Nat \ {0} /\ (i # 1 => i - 1 \in DOMAIN Tail(down))
  BY <1>1, TailFacts
<1>3. \A p \in Nat \ {0} : p + 1 # 1
  OBVIOUS
<1> QED BY <1>2, <1>3 DEF Taken

(* The loop ends: what waited is sent.                                     *)
Releases(x) ==
  /\ chain' \in Seq(Entry) /\ DOMAIN chain' = DOMAIN chain
  /\ \A i \in DOMAIN chain :
       /\ chain'[i].id = chain[i].id /\ chain'[i].op = chain[i].op
       /\ chain'[i].watch = chain[i].watch /\ chain'[i].set = chain[i].set
       /\ chain'[i].at = IF chain[i].at = "waiting" THEN "sent" ELSE chain[i].at
       /\ Frame(chain'[i]) = Frame(chain[i])
  /\ up' \in Seq(Request)
  /\ \A p \in DOMAIN up : /\ p \in DOMAIN up' /\ up'[p] = up[p]
                          /\ \A q \in DOMAIN up' : q < p => q \in DOMAIN up
  /\ \A p \in DOMAIN up' : p \notin DOMAIN up =>
       /\ x[p] \in DOMAIN chain /\ chain[x[p]].at = "waiting"
       /\ up'[p] = Frame(chain[x[p]]) /\ up'[p].type # "open"
       /\ \A q \in DOMAIN up' : q \notin DOMAIN up /\ x[p] = x[q] => p = q

(* The frames released behind those on the wire, by LateFrames.            *)
LEMMA EndLoopEffect ==
  ASSUME WatchInv, chain' = Released(chain), up' = up \o Late(chain)
  PROVE  \E x : Releases(x)
<1>1. chain \in Seq(Entry) /\ up \in Seq(Request)
  BY DEF WatchInv, Shaped
<1>2. PICK y : FramesOf(Late(chain), chain, Len(chain), y)
  BY <1>1, LateFrames
<1> DEFINE x == [p \in DOMAIN up' |-> y[p - Len(up)]]
           s(e) == [e EXCEPT !.at = "sent"]
<1>3. \A i \in DOMAIN chain : chain[i] \in Entry
  BY <1>1
<1>4. \A e \in Entry : /\ s(e) \in Entry /\ s(e).id = e.id /\ s(e).op = e.op
                       /\ s(e).watch = e.watch /\ s(e).set = e.set /\ s(e).at = "sent"
                       /\ Frame(s(e)) = Frame(e)
  BY DEF Entry, Frame, Steps
<1>5. /\ DOMAIN chain' = DOMAIN chain
      /\ \A i \in DOMAIN chain :
           chain'[i] = IF chain[i].at = "waiting" THEN s(chain[i]) ELSE chain[i]
  BY DEF Released
<1> HIDE DEF s
<1>6. /\ \A i \in DOMAIN chain : chain'[i] \in Entry
      /\ \A i \in DOMAIN chain :
           /\ chain'[i].id = chain[i].id /\ chain'[i].op = chain[i].op
           /\ chain'[i].watch = chain[i].watch /\ chain'[i].set = chain[i].set
           /\ chain'[i].at = IF chain[i].at = "waiting" THEN "sent" ELSE chain[i].at
           /\ Frame(chain'[i]) = Frame(chain[i])
  BY <1>3, <1>4, <1>5
<1>7. chain' \in Seq(Entry)
  <2>1. chain' = [i \in 1..Len(chain) |-> chain'[i]] /\ DOMAIN chain = 1..Len(chain) /\ Len(chain) \in Nat
    BY <1>1 DEF Released

  <2> QED BY SMTT(30), <1>6, <2>1
<1>8. /\ up' \in Seq(Request)
      /\ \A p \in DOMAIN up : p \in DOMAIN up' /\ up'[p] = up[p]
      /\ \A p \in DOMAIN up' :
           \/ p \in DOMAIN up
           \/ p \notin DOMAIN up /\ p - Len(up) \in DOMAIN Late(chain) /\ up'[p] = Late(chain)[p - Len(up)]
  BY <1>1, <1>2, ConcatFacts DEF FramesOf
<1>9. \A p \in DOMAIN up : \A q \in DOMAIN up' : q < p => q \in DOMAIN up
  BY <1>1, <1>8
<1>10. ASSUME NEW p \in DOMAIN up', p \notin DOMAIN up
       PROVE  /\ x[p] \in DOMAIN chain /\ chain[x[p]].at = "waiting"
              /\ up'[p] = Frame(chain[x[p]]) /\ up'[p].type # "open"
  <2>1. x[p] = y[p - Len(up)] /\ p - Len(up) \in DOMAIN Late(chain) /\ up'[p] = Late(chain)[p - Len(up)]
    BY <1>8, <1>10
  <2>2. x[p] \in DOMAIN chain /\ chain[x[p]].at = "waiting" /\ up'[p] = Frame(chain[x[p]])
    BY <1>1, <1>2, <2>1 DEF FramesOf
  <2> QED BY <1>3, <2>2, FrameIsRequest
<1>11. \A p, q \in DOMAIN up' : p \notin DOMAIN up /\ q \notin DOMAIN up /\ x[p] = x[q] => p = q
  <2> SUFFICES ASSUME NEW p \in DOMAIN up', NEW q \in DOMAIN up', p \notin DOMAIN up,
                      q \notin DOMAIN up, x[p] = x[q]
               PROVE  p = q
    OBVIOUS
  <2>1. /\ x[p] = y[p - Len(up)] /\ p - Len(up) \in DOMAIN Late(chain)
        /\ x[q] = y[q - Len(up)] /\ q - Len(up) \in DOMAIN Late(chain)
    BY <1>8
  <2>2. p - Len(up) = q - Len(up)
    BY <1>2, <2>1 DEF FramesOf
  <2>3. p \in Int /\ q \in Int /\ Len(up) \in Int
    BY <1>1, <1>8
  <2> QED BY <2>2, <2>3
<1> HIDE DEF x
<1>12. Releases(x)
  BY <1>5, <1>6, <1>7, <1>8, <1>9, <1>10, <1>11 DEF Releases
<1> QED BY <1>12

(* When the loop ends the open has been answered, so the wire has no open, *)
(* and the released frames are of mutations that had none there. One that  *)
(* replaces the set was the only one not queued.                           *)
LEMMA LoopEndKeeps ==
  ASSUME WatchInv, Taken, ~IsAnswer(1), loop' = "none", closed' \in BOOLEAN, rotated' \in BOOLEAN,
         chain' = Released(chain), up' = up \o Late(chain),
         connected' = connected, concurrent' = concurrent, calls' = calls, losses' = losses,
         opened' = opened, known' = known, watching' = watching, bare' = bare,
         specs' = {} \/ (specs' = specs /\ down[1].ok)
  PROVE  WatchInv'
<1>1. PICK x : Releases(x)
  BY EndLoopEffect
<1>20. /\ DOMAIN chain' = DOMAIN chain
       /\ \A i \in DOMAIN chain :
            /\ chain'[i].id = chain[i].id /\ chain'[i].op = chain[i].op
            /\ chain'[i].watch = chain[i].watch /\ chain'[i].set = chain[i].set
  BY <1>1 DEF Releases
<1>21. \A i \in DOMAIN chain :
         chain'[i].at = IF chain[i].at = "waiting" THEN "sent" ELSE chain[i].at
  BY <1>1 DEF Releases
<1>22. \A i \in DOMAIN chain : Frame(chain'[i]) = Frame(chain[i])
  BY <1>1 DEF Releases
<1>23. \A p \in DOMAIN up : /\ p \in DOMAIN up' /\ up'[p] = up[p]
                            /\ \A q \in DOMAIN up' : q < p => q \in DOMAIN up
  BY <1>1 DEF Releases
<1>24. \A p \in DOMAIN up' : p \notin DOMAIN up =>
         x[p] \in DOMAIN chain /\ chain[x[p]].at = "waiting" /\ up'[p] = Frame(chain[x[p]])
  BY <1>1 DEF Releases
<1>25. \A p, q \in DOMAIN up' : p \notin DOMAIN up /\ q \notin DOMAIN up /\ x[p] = x[q] => p = q
  BY <1>1 DEF Releases
<1>26. \A e : Frame(e).id = e.id /\ (Frame(e).type = "set" => e.op # "add")
  BY DEF Frame
<1>27. \A i, j \in DOMAIN chain : chain[i].id = chain[j].id => i = j
  BY DEF WatchInv, ChainInv, Named
<1>28. \A p \in DOMAIN down' : p + 1 \in DOMAIN down /\ down'[p] = down[p + 1]
  BY DEF Taken
<1>2. loop = "open" /\ opened # "no" /\ connected /\ \A p \in DOMAIN up : ~IsOpen(p)
  BY DEF WatchInv, Told, Asked, Linked, Taken
<1>3. \A p \in DOMAIN down' : IsAnswer(p)' /\ IsAnswer(p + 1)
  BY DEF WatchInv, Told, IsAnswer, Taken
<1>4. ~FreshOpen'
  BY <1>3 DEF FreshOpen, IsAnswer
<1>5. down[1].ok => ~FreshOpen
  <2>1. \A p \in DOMAIN down : ~IsAnswer(p) => p = 1
    BY DEF WatchInv, Told, Taken
  <2>2. \A p \in DOMAIN down : down[p].type = "opened" => p = 1
    BY <2>1 DEF IsAnswer
  <2> QED BY <2>2 DEF FreshOpen
<1>6. \A i \in DOMAIN chain : chain[i].op # "restore" /\ i \in Nat \ {0}
  BY <1>2 DEF WatchInv, Shaped, ChainInv, Restoring
<1>7. Shaped'
  BY <1>1 DEF WatchInv, Shaped, Releases, Taken
<1>8. Linked'
  BY <1>2 DEF WatchInv, Linked
<1>9. Asked'
  BY <1>1, <1>2 DEF Asked, IsOpen, Releases
<1>10. Told'
  BY <1>2, <1>3 DEF WatchInv, Told, IsAnswer, Taken
<1>11. Named'
  BY <1>1 DEF WatchInv, ChainInv, Named, Releases
<1>12. Restoring'
  BY <1>1, <1>6 DEF Restoring, Releases
<1>13. Issued'
  BY <1>20, <1>21 DEF WatchInv, ChainInv, Issued
<1>14. Waits'
  BY <1>1, <1>2 DEF WatchInv, ChainInv, Waits, Releases
<1>15. InFlight'
  <2>1. \A p \in DOMAIN up' : ~IsOpen(p)' => \E i \in DOMAIN chain' : Asks(p, i)'
    <3> SUFFICES ASSUME NEW p \in DOMAIN up'
                 PROVE  \E i \in DOMAIN chain' : chain'[i].at = "sent" /\ up'[p] = Frame(chain'[i])
      BY DEF Asks
    <3>1. CASE p \in DOMAIN up
      BY <1>2, <1>20, <1>21, <1>22, <1>23, <3>1 DEF WatchInv, FlightInv, InFlight, Asks
    <3>2. CASE p \notin DOMAIN up
      BY <1>20, <1>21, <1>22, <1>24, <3>2
    <3> QED BY <3>1, <3>2
  <2>2. \A p \in DOMAIN down' : IsAnswer(p)' => \E i \in DOMAIN chain' : Answers(p, i)'
    BY <1>3, <1>20, <1>21, <1>28 DEF WatchInv, FlightInv, InFlight, Answers
  <2> QED BY <2>1, <2>2 DEF InFlight
<1>16. Apart'
  <2>1. \A p \in DOMAIN up : \E i \in DOMAIN chain : chain[i].at = "sent" /\ up[p].id = chain[i].id
    BY <1>2 DEF WatchInv, FlightInv, InFlight, Asks, Frame
  <2>2. \A p \in DOMAIN up' : p \notin DOMAIN up => up'[p].id = chain[x[p]].id
    BY <1>24, <1>26
  <2>3. \A p, q \in DOMAIN up' : up'[p].id = up'[q].id => p = q
    <3> SUFFICES ASSUME NEW p \in DOMAIN up', NEW q \in DOMAIN up', up'[p].id = up'[q].id
                 PROVE  p = q
      OBVIOUS
    <3>1. CASE p \in DOMAIN up /\ q \in DOMAIN up
      BY <1>2, <1>23, <3>1 DEF WatchInv, FlightInv, Apart
    <3>2. CASE p \notin DOMAIN up /\ q \notin DOMAIN up
      <4>1. chain[x[p]].id = chain[x[q]].id /\ x[p] \in DOMAIN chain /\ x[q] \in DOMAIN chain
        BY <1>24, <2>2, <3>2
      <4>2. x[p] = x[q]
        BY <1>27, <4>1
      <4> QED BY <1>25, <3>2, <4>2
    <3>3. CASE p \in DOMAIN up /\ q \notin DOMAIN up
      <4>1. PICK i \in DOMAIN chain : chain[i].at = "sent" /\ up[p].id = chain[i].id
        BY <2>1, <3>3
      <4>2. up'[p] = up[p] /\ up'[q].id = chain[x[q]].id
        BY <1>23, <2>2, <3>3
      <4>3. x[q] \in DOMAIN chain /\ chain[x[q]].at = "waiting"
        BY <1>24, <3>3
      <4>4. i = x[q]
        BY <1>27, <4>1, <4>2, <4>3
      <4> QED BY <4>1, <4>3, <4>4
    <3>4. CASE p \notin DOMAIN up /\ q \in DOMAIN up
      <4>1. PICK i \in DOMAIN chain : chain[i].at = "sent" /\ up[q].id = chain[i].id
        BY <2>1, <3>4
      <4>2. up'[q] = up[q] /\ up'[p].id = chain[x[p]].id
        BY <1>23, <2>2, <3>4
      <4>3. x[p] \in DOMAIN chain /\ chain[x[p]].at = "waiting"
        BY <1>24, <3>4
      <4>4. i = x[p]
        BY <1>27, <4>1, <4>2, <4>3
      <4> QED BY <4>1, <4>3, <4>4
    <3> QED BY <3>1, <3>2, <3>3, <3>4
  <2>4. \A p, q \in DOMAIN down' : down'[p].id = down'[q].id => p = q
    <3>1. \A p, q \in DOMAIN down' : down'[p].id = down'[q].id => p + 1 = q + 1
      BY <1>3 DEF WatchInv, FlightInv, Apart, Taken
    <3>2. \A p, q \in Nat : p + 1 = q + 1 => p = q
      OBVIOUS
    <3> QED BY <3>1, <3>2 DEF Taken
  <2>5. \A p \in DOMAIN up', q \in DOMAIN down' : up'[p].id # down'[q].id
    <3> SUFFICES ASSUME NEW p \in DOMAIN up', NEW q \in DOMAIN down'
                 PROVE  up'[p].id # down'[q].id
      OBVIOUS
    <3>1. /\ IsAnswer(q + 1) /\ q + 1 \in DOMAIN down /\ down'[q] = down[q + 1]
      BY <1>3 DEF Taken
    <3>2. CASE p \in DOMAIN up
      BY <1>2, <1>23, <3>1, <3>2 DEF WatchInv, FlightInv, Apart
    <3>3. CASE p \notin DOMAIN up
      <4>1. PICK i \in DOMAIN chain : chain[i].at = "sent" /\ chain[i].id = down'[q].id
        BY <3>1 DEF WatchInv, FlightInv, InFlight, Answers
      <4> QED BY <1>24, <1>27, <2>2, <3>3, <4>1
    <3> QED BY <3>2, <3>3
  <2> QED BY <2>3, <2>4, <2>5 DEF Apart
<1>17. SetAlone'
  <2> SUFFICES ASSUME NEW p \in DOMAIN up', up'[p].type = "set"
               PROVE  /\ \A q \in DOMAIN up' : q < p => IsOpen(q)'
                      /\ \A q \in DOMAIN down' : ~IsAnswer(q)'
                      /\ \A j \in DOMAIN chain' : chain'[j].at # "answered"
    BY DEF SetAlone
  <2>1. \A j \in DOMAIN chain' : chain'[j].at = "answered" => chain[j].at = "answered"
    BY <1>1 DEF Releases
  <2>2. CASE p \in DOMAIN up
    <3>1. up[p].type = "set" /\ \A q \in DOMAIN up' : q < p => q \in DOMAIN up /\ up'[q] = up[q]
      BY <1>1, <2>2 DEF Releases
    <3>2. \A q \in DOMAIN down' : ~IsAnswer(q + 1)
      BY <2>2, <3>1 DEF WatchInv, FlightInv, SetAlone, Taken
    <3>3. \A j \in DOMAIN chain : chain[j].at # "answered"
      BY <2>2, <3>1 DEF WatchInv, FlightInv, SetAlone
    <3>4. \A q \in DOMAIN up : q < p => IsOpen(q)
      BY <2>2, <3>1 DEF WatchInv, FlightInv, SetAlone
    <3>5. \A q \in DOMAIN up' : q < p => IsOpen(q)'
      BY <3>1, <3>4 DEF IsOpen
    <3>6. \A q \in DOMAIN down' : ~IsAnswer(q)'
      BY <1>3, <3>2
    <3> QED BY <1>20, <2>1, <3>3, <3>5, <3>6
  <2>3. CASE p \notin DOMAIN up
    <3>1. x[p] \in DOMAIN chain /\ chain[x[p]].at = "waiting" /\ chain[x[p]].op # "add"
      BY <1>24, <1>26, <2>3
    <3>2. x[p] = 1 /\ ~concurrent
      BY <3>1 DEF WatchInv, ChainInv, Issued, Waits
    <3>3. \A j \in DOMAIN chain : j # 1 => chain[j].at = "queued"
      BY <1>6, <3>2 DEF WatchInv, ChainInv, Issued
    <3>4. \A j \in DOMAIN chain : chain[j].at # "sent" /\ chain[j].at # "answered"
      BY <3>1, <3>2, <3>3
    <3>5. \A q \in DOMAIN up : IsOpen(q)
      BY <3>4 DEF WatchInv, FlightInv, InFlight, Asks
    <3>6. \A q \in DOMAIN down' : ~IsAnswer(q)'
      BY <1>3, <3>4 DEF WatchInv, FlightInv, InFlight, Answers, Taken
    <3>7. \A q \in DOMAIN up' : q = p
      <4> SUFFICES ASSUME NEW q \in DOMAIN up' PROVE q = p
        OBVIOUS
      <4>1. q \notin DOMAIN up
        BY <1>2, <3>5
      <4>2. x[q] = 1
        BY <1>24, <3>3, <4>1
      <4> QED BY <1>25, <2>3, <3>2, <4>1, <4>2
    <3>8. p \in Int
      BY <1>7 DEF Shaped
    <3>9. \A q \in DOMAIN up' : ~(q < p)
      BY <3>7, <3>8
    <3> QED BY <1>20, <2>1, <3>4, <3>6, <3>9
  <2> QED BY <2>2, <2>3
<1>18. Served'
  BY <1>3, <1>20, <1>21, <1>28 DEF WatchInv, Served, IsAnswer
<1>19. Kept'
  BY <1>2, <1>4, <1>5 DEF WatchInv, Kept
<1> QED BY <1>7, <1>8, <1>9, <1>10, <1>11, <1>12, <1>13, <1>14, <1>15, <1>16, <1>17, <1>18, <1>19
        DEF WatchInv, ChainInv, FlightInv

(* A forgotten session's watches are queued to be set again.               *)
LEMMA RestoreQueued ==
  ASSUME WatchInv, Taken, down[1].type = "opened", ~down[1].ok, loop' = "rewatch",
         chain' = Append(chain, Mutation(0, "restore", 0)), up' = up, rotated' \in BOOLEAN,
         closed' = closed, specs' = specs,
         connected' = connected, concurrent' = concurrent, calls' = calls, losses' = losses,
         opened' = opened, known' = known, watching' = watching, bare' = bare
  PROVE  WatchInv'
<1>1. PICK e : e = Mutation(0, "restore", 0)
  OBVIOUS
<1>2. e \in Entry /\ e.at = "queued" /\ e.id = 0 /\ e.op = "restore"
  BY <1>1, BoundsAssumption DEF Mutation, Entry, Steps, Watches
<1>3. Queued(e)
  BY <1>1, <1>2 DEF Queued
<1>4. /\ chain' \in Seq(Entry) /\ chain' # <<>> /\ Len(chain) + 1 \in DOMAIN chain'
      /\ \A i \in DOMAIN chain : /\ i \in Nat \ {0} /\ i <= Len(chain) /\ Len(chain) \in Nat
                                 /\ i \in DOMAIN chain' /\ chain'[i] = chain[i]
      /\ \A i \in DOMAIN chain' : i \in DOMAIN chain \/ (i = Len(chain) + 1 /\ chain'[i] = e)
  BY <1>3, QueueChain
<1>5. chain'[Len(chain) + 1] = e /\ Len(chain) + 1 \in DOMAIN chain'
  <2>1. Len(chain) + 1 \notin DOMAIN chain
    BY DEF WatchInv, Shaped
  <2> QED BY <1>4, <2>1
<1>6. ~IsAnswer(1)
  BY DEF IsAnswer
<1>7. loop = "open" /\ connected /\ opened = "yes" /\ \A p \in DOMAIN up : ~IsOpen(p)
  BY <1>6 DEF WatchInv, Told, Asked, Linked, Taken, Shaped
<1>8. FreshOpen
  BY DEF FreshOpen, Taken
<1>9. \A p \in DOMAIN down' : IsAnswer(p)' /\ IsAnswer(p + 1)
  BY DEF WatchInv, Told, IsAnswer, Taken
<1>10. \A i \in DOMAIN chain : chain[i].op # "restore" /\ chain[i].id # 0 /\ chain[i].at # "waiting"
  BY <1>7, <1>8 DEF WatchInv, ChainInv, Named, Restoring, Waits
<1>11. Shaped'
  BY <1>4 DEF WatchInv, Shaped, Taken
<1>12. Linked'
  BY <1>7 DEF WatchInv, Linked
<1>13. Asked'
  BY <1>7 DEF Asked, IsOpen
<1>14. Told'
  BY <1>7, <1>9 DEF WatchInv, Told, IsAnswer, Taken
<1>15. Named'
  <2>1. \A i, j \in DOMAIN chain' : chain'[i].id = chain'[j].id => i = j
    BY <1>2, <1>4, <1>10 DEF WatchInv, ChainInv, Named
  <2>2. 0 <= calls
    BY BoundsAssumption DEF WatchInv, Shaped
  <2> QED BY <1>2, <1>4, <2>1, <2>2 DEF WatchInv, ChainInv, Named
<1>16. Restoring'
  BY <1>2, <1>4, <1>5, <1>7, <1>10 DEF Restoring
<1>17. Issued'
  BY <1>2, <1>4 DEF WatchInv, ChainInv, Issued
<1>18. Waits'
  BY <1>2, <1>4, <1>7, <1>10 DEF WatchInv, ChainInv, Waits
<1>19. InFlight'
  <2>1. \A p \in DOMAIN up' : ~IsOpen(p)' => \E i \in DOMAIN chain' : Asks(p, i)'
    BY <1>4 DEF WatchInv, FlightInv, InFlight, Asks, IsOpen
  <2>2. \A p \in DOMAIN down' : IsAnswer(p)' => \E i \in DOMAIN chain' : Answers(p, i)'
    BY SMTT(30), <1>4, <1>9 DEF WatchInv, FlightInv, InFlight, Answers, Taken
  <2> QED BY <2>1, <2>2 DEF InFlight
<1>20. Apart'
  <2>1. \A p, q \in DOMAIN down' : down'[p].id = down'[q].id => p = q
    <3>1. \A p, q \in DOMAIN down' : down'[p].id = down'[q].id => p + 1 = q + 1
      BY <1>9 DEF WatchInv, FlightInv, Apart, Taken
    <3>2. \A p, q \in Nat : p + 1 = q + 1 => p = q
      OBVIOUS
    <3> QED BY <3>1, <3>2 DEF Taken
  <2>2. \A p \in DOMAIN up', q \in DOMAIN down' : ~IsOpen(p) => up[p].id # down'[q].id
    BY <1>9 DEF WatchInv, FlightInv, Apart, Taken
  <2> QED BY <2>1, <2>2 DEF WatchInv, FlightInv, Apart, IsOpen
<1>21. SetAlone'
  BY <1>2, <1>4, <1>9 DEF WatchInv, FlightInv, SetAlone, IsOpen, Taken
<1>22. Served'
  <2>1. \A p \in DOMAIN down' : down'[p].id # 0
    BY <1>9, <1>10 DEF WatchInv, FlightInv, InFlight, Answers, Taken
  <2>2. \A i \in DOMAIN chain' : chain'[i].at = "answered" => known /\ chain'[i].set \subseteq watching
    BY <1>2, <1>4 DEF WatchInv, Served
  <2>3. ASSUME NEW p \in DOMAIN down', NEW i \in DOMAIN chain', down'[p].ok,
               chain'[i].id = down'[p].id
        PROVE  chain'[i].set \subseteq watching
    <3>1. p + 1 \in DOMAIN down /\ down'[p] = down[p + 1] /\ IsAnswer(p + 1)
      BY <1>9 DEF Taken
    <3>2. i \in DOMAIN chain /\ chain'[i] = chain[i]
      BY <1>2, <1>4, <2>1, <2>3
    <3> QED BY <2>3, <3>1, <3>2 DEF WatchInv, Served
  <2> QED BY <2>2, <2>3 DEF Served
<1>23. Kept'
  BY DEF Kept
<1> QED BY <1>11, <1>12, <1>13, <1>14, <1>15, <1>16, <1>17, <1>18, <1>19, <1>20, <1>21, <1>22, <1>23
        DEF WatchInv, ChainInv, FlightInv

(* The open is answered: the loop ends, or has the watches to set again.   *)
LEMMA OpenedKeeps ==
  ASSUME WatchInv, ReceiveOpened
  PROVE  WatchInv'
<1>1. Taken /\ Head(down) = down[1] /\ down[1].type = "opened"
  BY TailTaken DEF ReceiveOpened
<1>2. closed \in BOOLEAN
  BY DEF WatchInv, Shaped
<1>3. CASE down[1].ok \/ specs = {}
  BY <1>1, <1>2, <1>3, LoopEndKeeps DEF ReceiveOpened, EndLoop, IsAnswer
<1>4. CASE ~down[1].ok /\ specs # {}
  BY <1>1, <1>4, RestoreQueued DEF ReceiveOpened
<1> QED BY <1>3, <1>4

(* The open is refused: the client has no intent any more.                 *)
LEMMA RevokedKeeps ==
  ASSUME WatchInv, ReceiveRevoked
  PROVE  WatchInv'
<1>1. Taken /\ Head(down) = down[1] /\ down[1].type = "revoked"
  BY TailTaken DEF ReceiveRevoked
<1>2. rotated \in BOOLEAN
  BY DEF WatchInv, Shaped
<1> QED BY <1>1, <1>2, LoopEndKeeps DEF ReceiveRevoked, EndLoop, IsAnswer, serverVars

(* An answer settles the one mutation it answers.                          *)
LEMMA AnswerKeeps ==
  ASSUME WatchInv, ReceiveAnswer
  PROVE  WatchInv'
<1>1. Taken /\ Head(down) = down[1] /\ IsAnswer(1)
  BY TailTaken DEF ReceiveAnswer, IsAnswer
<1>2. PICK k \in DOMAIN chain : chain[k].at = "sent" /\ chain[k].id = down[1].id
  BY <1>1 DEF WatchInv, FlightInv, InFlight, Answers, Taken
<1>3. PICK at : at = IF down[1].ok THEN "answered" ELSE "failed"
  OBVIOUS
<1>4. /\ connected' = connected /\ loop' = loop /\ specs' = specs /\ closed' = closed
      /\ concurrent' = concurrent /\ calls' = calls /\ losses' = losses /\ up' = up
      /\ opened' = opened /\ known' = known /\ rotated' = rotated
      /\ watching' = watching /\ bare' = bare
  BY DEF ReceiveAnswer, serverVars
<1>5. /\ DOMAIN chain' = DOMAIN chain /\ chain' \in Seq(Entry) /\ chain'[k] = [chain[k] EXCEPT !.at = at]
      /\ \A i \in DOMAIN chain : i # k => chain'[i] = chain[i]
  <2>1. chain \in Seq(Entry) /\ \A i \in DOMAIN chain : chain[i] \in Entry
    BY DEF WatchInv, Shaped
  <2>2. chain' = [i \in DOMAIN chain |-> IF chain[i].id = down[1].id THEN [chain[i] EXCEPT !.at = at]
                                         ELSE chain[i]]
    BY <1>1, <1>3 DEF ReceiveAnswer
  <2>3. \A i \in DOMAIN chain : chain[i].id = down[1].id <=> i = k
    BY <1>2 DEF WatchInv, ChainInv, Named
  <2>4. [chain[k] EXCEPT !.at = at] \in Entry
    BY <1>3, <2>1 DEF Entry, Steps
  <2>5. chain' = [chain EXCEPT ![k] = [chain[k] EXCEPT !.at = at]]
    BY <2>2, <2>3
  <2> QED BY <2>1, <2>4, <2>5
<1>6. \A i \in DOMAIN chain :
        /\ chain'[i].id = chain[i].id /\ chain'[i].op = chain[i].op
        /\ chain'[i].watch = chain[i].watch /\ chain'[i].set = chain[i].set
        /\ chain'[i].at = IF i = k THEN at ELSE chain[i].at
  <2>1. chain[k] \in Entry
    BY DEF WatchInv, Shaped
  <2> QED BY <1>5, <2>1 DEF Entry
<1>7. connected
  BY <1>1 DEF WatchInv, Linked, Taken
<1>8. \A p \in DOMAIN down' : /\ p \in Nat \ {0} /\ p + 1 \in DOMAIN down /\ p + 1 # 1
                              /\ down'[p] = down[p + 1] /\ (IsAnswer(p)' <=> IsAnswer(p + 1))
  BY <1>1 DEF IsAnswer, Taken
<1>27. \A p \in DOMAIN down : ~IsAnswer(p) =>
         /\ p - 1 \in DOMAIN down' /\ down'[p - 1] = down[p] /\ ~IsAnswer(p - 1)'
  <2> SUFFICES ASSUME NEW p \in DOMAIN down, ~IsAnswer(p)
               PROVE  /\ p - 1 \in DOMAIN down' /\ down'[p - 1] = down[p] /\ ~IsAnswer(p - 1)'
    OBVIOUS
  <2>1. p # 1 /\ p \in Nat /\ p - 1 \in DOMAIN down'
    BY <1>1 DEF Taken
  <2>2. (p - 1) + 1 = p
    BY <2>1
  <2> QED BY <1>8, <2>1, <2>2
<1>9. FreshOpen' = FreshOpen
  <2>1. FreshOpen' => FreshOpen
    BY <1>8 DEF FreshOpen
  <2>2. \A p \in DOMAIN down : down[p].type = "opened" => ~IsAnswer(p)
    BY DEF IsAnswer
  <2>3. FreshOpen => FreshOpen'
    BY <1>27, <2>2 DEF FreshOpen
  <2> QED BY <2>1, <2>3 DEF FreshOpen
<1>10. (down[1].ok => known) /\ (down[1].id = 0 => down[1].ok)
  BY <1>1 DEF WatchInv, Told, Linked, Taken
<1>11. Shaped'
  BY <1>1, <1>4, <1>5 DEF WatchInv, Shaped, Taken
<1>12. Linked'
  BY <1>4, <1>7 DEF WatchInv, Linked
<1>13. Asked'
  BY <1>4 DEF WatchInv, Asked, IsOpen
<1>14. Told'
  <2>1. \A p, q \in DOMAIN down' : ~IsAnswer(p)' /\ ~IsAnswer(q)' => p = q
    <3>1. \A p, q \in DOMAIN down' : ~IsAnswer(p)' /\ ~IsAnswer(q)' => p + 1 = q + 1
      BY <1>8 DEF WatchInv, Told
    <3>2. \A p, q \in Nat : p + 1 = q + 1 => p = q
      OBVIOUS
    <3> QED BY <1>8, <3>1, <3>2
  <2>2. opened = "no" => \A p \in DOMAIN down' : IsAnswer(p)'
    BY <1>8 DEF WatchInv, Told
  <2>3. \A p \in DOMAIN down' : IsAnswer(p)' =>
          (down'[p].ok => opened = "yes") /\ (down'[p].id = 0 => down'[p].ok)
    BY <1>8 DEF WatchInv, Told
  <2>4. \A p \in DOMAIN down' : ~IsAnswer(p)' => loop = "open"
    BY <1>8 DEF WatchInv, Told
  <2>5. ASSUME loop = "open", opened # "no"
        PROVE  \E p \in DOMAIN down' :
                 ~IsAnswer(p)' /\ down'[p].type = (IF opened = "yes" THEN "opened" ELSE "revoked")
    <3>1. PICK p \in DOMAIN down :
             ~IsAnswer(p) /\ down[p].type = (IF opened = "yes" THEN "opened" ELSE "revoked")
      BY <2>5 DEF WatchInv, Told
    <3> QED BY <1>27, <3>1
  <2> QED BY <1>4, <2>1, <2>2, <2>3, <2>4, <2>5 DEF Told
<1>15. Named'
  BY <1>4, <1>5, <1>6 DEF WatchInv, ChainInv, Named
<1>16. Restoring'
  <2>1. chain[k].op = "restore" => at # "failed"
    BY <1>2, <1>3, <1>10 DEF WatchInv, ChainInv, Named
  <2> QED BY <1>4, <1>5, <1>6, <1>7, <2>1 DEF WatchInv, ChainInv, Restoring
<1>17. Issued'
  BY <1>2, <1>3, <1>4, <1>5, <1>6 DEF WatchInv, ChainInv, Issued
<1>18. Waits'
  BY <1>2, <1>3, <1>4, <1>5, <1>6, <1>7, <1>9 DEF WatchInv, ChainInv, Waits
<1>19. \A p \in DOMAIN up : ~IsOpen(p) => up[p].id # down[1].id
  BY <1>1 DEF WatchInv, FlightInv, Apart, Taken
<1>20. \A p \in DOMAIN down' : IsAnswer(p)' => down'[p].id # down[1].id
  BY <1>1, <1>8 DEF WatchInv, FlightInv, Apart, Taken
<1>21. InFlight'
  <2>1. \A p \in DOMAIN up : ~IsOpen(p) => \E i \in DOMAIN chain : Asks(p, i) /\ i # k
    BY <1>2, <1>19 DEF WatchInv, FlightInv, InFlight, Asks, Frame
  <2>2. \A p \in DOMAIN down' : IsAnswer(p)' => \E i \in DOMAIN chain : Answers(p + 1, i) /\ i # k
    BY <1>1, <1>2, <1>8, <1>20 DEF WatchInv, FlightInv, InFlight, Answers, Taken
  <2>3. \A p \in DOMAIN up' : ~IsOpen(p)' => \E i \in DOMAIN chain' : Asks(p, i)'
    BY <1>4, <1>5, <2>1 DEF Asks, IsOpen
  <2>4. \A p \in DOMAIN down' : IsAnswer(p)' => \E i \in DOMAIN chain' : Answers(p, i)'
    BY <1>5, <1>8, <2>2 DEF Answers
  <2> QED BY <2>3, <2>4 DEF InFlight
<1>22. Apart'
  <2>1. \A p, q \in DOMAIN down' : IsAnswer(p)' /\ IsAnswer(q)' /\ down'[p].id = down'[q].id => p = q
    <3>1. \A p, q \in DOMAIN down' : IsAnswer(p)' /\ IsAnswer(q)' /\ down'[p].id = down'[q].id => p + 1 = q + 1
      BY <1>1, <1>8 DEF WatchInv, FlightInv, Apart, Taken
    <3>2. \A p, q \in Nat : p + 1 = q + 1 => p = q
      OBVIOUS
    <3> QED BY <1>1, <3>1, <3>2 DEF Taken
  <2>2. \A p \in DOMAIN up, q \in DOMAIN down' : ~IsOpen(p) /\ IsAnswer(q)' => up[p].id # down'[q].id
    BY <1>1, <1>8 DEF WatchInv, FlightInv, Apart, Taken
  <2> QED BY <1>4, <2>1, <2>2 DEF WatchInv, FlightInv, Apart, IsOpen
<1>23. SetAlone'
  <2>1. \A p \in DOMAIN up : up[p].type # "set"
    BY <1>1 DEF WatchInv, FlightInv, SetAlone, Taken
  <2> QED BY <1>4, <2>1 DEF SetAlone
<1>24. Served'
  <2>1. at = "answered" => known /\ chain[k].set \subseteq watching
    BY <1>1, <1>2, <1>3, <1>10 DEF WatchInv, Served, Taken
  <2>2. \A i \in DOMAIN chain' : chain'[i].at = "answered" => known /\ chain'[i].set \subseteq watching
    BY <1>5, <1>6, <2>1 DEF WatchInv, Served
  <2>3. \A p \in DOMAIN down' : \A i \in DOMAIN chain' :
          IsAnswer(p)' /\ down'[p].ok /\ chain'[i].id = down'[p].id => chain'[i].set \subseteq watching
    <3> SUFFICES ASSUME NEW p \in DOMAIN down', NEW i \in DOMAIN chain', IsAnswer(p)', down'[p].ok,
                        chain'[i].id = down'[p].id
                 PROVE  chain'[i].set \subseteq watching
      OBVIOUS
    <3>1. p + 1 \in DOMAIN down /\ down'[p] = down[p + 1] /\ IsAnswer(p + 1)
      BY <1>1, <1>8 DEF Taken
    <3>2. i \in DOMAIN chain /\ chain'[i].id = chain[i].id /\ chain'[i].set = chain[i].set
      BY <1>5, <1>6
    <3> QED BY <3>1, <3>2 DEF WatchInv, Served
  <2> QED BY <1>4, <2>2, <2>3 DEF Served
<1>25. Kept'
  BY <1>4, <1>9 DEF WatchInv, Kept
<1> QED BY <1>11, <1>12, <1>13, <1>14, <1>15, <1>16, <1>17, <1>18, <1>21, <1>22, <1>23, <1>24, <1>25
        DEF WatchInv, ChainInv, FlightInv

(* The server takes the first request; the client does not move.           *)
Serves(r) ==
  /\ up # <<>> /\ 1 \in DOMAIN up /\ up[1] \in Request /\ up' \in Seq(Request)
  /\ \A p \in DOMAIN up' : /\ p \in Nat \ {0} /\ p + 1 \in DOMAIN up /\ up'[p] = up[p + 1]
                           /\ p + 1 # 1
  /\ r \in Reply /\ down' = Append(down, r) /\ down' \in Seq(Reply) /\ down' # <<>>
  /\ \A p \in DOMAIN down : /\ p \in Nat \ {0} /\ p \in DOMAIN down' /\ down'[p] = down[p]
  /\ Len(down) + 1 \in DOMAIN down' /\ down'[Len(down) + 1] = r /\ Len(down) + 1 \notin DOMAIN down
  /\ \A p \in DOMAIN down' : p \in DOMAIN down \/ p = Len(down) + 1
  /\ connected' = connected /\ loop' = loop /\ chain' = chain /\ specs' = specs
  /\ closed' = closed /\ concurrent' = concurrent /\ calls' = calls /\ losses' = losses
  /\ bare' = bare

(* The effect of the server's actions on the two queues.                   *)
LEMMA ServeEffect ==
  ASSUME WatchInv, up # <<>>, up' = Tail(up), NEW r \in Reply, down' = Append(down, r),
         UNCHANGED <<clientVars, calls, losses, bare>>
  PROVE  Serves(r) /\ Head(up) = up[1]
<1>1. up \in Seq(Request) /\ down \in Seq(Reply)
  BY DEF WatchInv, Shaped
<1>2. /\ 1 \in DOMAIN up /\ Head(up) = up[1] /\ up[1] \in Request /\ Tail(up) \in Seq(Request)
      /\ \A i \in DOMAIN Tail(up) : i \in Nat \ {0} /\ i + 1 \in DOMAIN up /\ Tail(up)[i] = up[i + 1]
  BY <1>1, TailFacts
<1>3. /\ Append(down, r) \in Seq(Reply) /\ Append(down, r) # <<>>
      /\ Len(down) + 1 \in DOMAIN Append(down, r) /\ Append(down, r)[Len(down) + 1] = r
      /\ \A i \in DOMAIN down : /\ i \in Nat \ {0} /\ i <= Len(down) /\ Len(down) \in Nat
                                /\ i \in DOMAIN Append(down, r) /\ Append(down, r)[i] = down[i]
      /\ \A i \in DOMAIN Append(down, r) : i \in DOMAIN down \/ i = Len(down) + 1
  BY <1>1, AppendFacts
<1>4. Len(down) + 1 \notin DOMAIN down /\ \A p \in Nat \ {0} : p + 1 # 1
  BY <1>1
<1> QED BY <1>2, <1>3, <1>4 DEF Serves, clientVars

(* The open finds nothing answered on its connection; the client is told   *)
(* whether its session was known.                                          *)
LEMMA ServeOpenKeeps ==
  ASSUME WatchInv, ServeOpen
  PROVE  WatchInv'
<1> DEFINE refused == known /\ rotated
           r == IF refused THEN Answer("revoked", 0, FALSE) ELSE Answer("opened", 0, known)
<1>1. /\ opened' = (IF refused THEN "refused" ELSE "yes") /\ known' = TRUE /\ rotated' \in BOOLEAN
      /\ watching' = watching /\ up # <<>> /\ Head(up).type = "open"
      /\ down' = Append(down, r) /\ UNCHANGED <<clientVars, calls, losses, bare>> /\ up' = Tail(up)
  BY DEF ServeOpen, NextFrame, WatchInv, Shaped
<1>2. /\ r \in Reply /\ r.type = (IF refused THEN "revoked" ELSE "opened")
      /\ (~refused => r.ok = known)
  <2>1. known \in BOOLEAN /\ 0 \in 0..MaxCalls
    BY BoundsAssumption DEF WatchInv, Shaped
  <2>2. \A ok \in BOOLEAN, t \in {"opened", "revoked"} :
          Answer(t, 0, ok) \in Reply /\ Answer(t, 0, ok).type = t /\ Answer(t, 0, ok).ok = ok
    BY <2>1 DEF Reply, Answer
  <2> HIDE DEF refused
  <2> QED BY <2>1, <2>2
<1> HIDE DEF r, refused
<1>3. Serves(r) /\ IsOpen(1)
  BY <1>1, <1>2, ServeEffect DEF IsOpen
<1>4. opened = "no" /\ loop = "open" /\ connected /\ \A p \in DOMAIN down : IsAnswer(p)
  BY <1>3 DEF WatchInv, Asked, Told, Linked, Serves
<1>5. \A p \in DOMAIN down' : down'[p] = r \/ (p \in DOMAIN down /\ down'[p] = down[p])
  BY <1>3 DEF Serves
<1>6. \A p \in DOMAIN up' : ~IsOpen(p)' /\ ~IsOpen(p + 1)
  BY <1>3 DEF WatchInv, Asked, Serves, IsOpen
<1>7. \A p \in DOMAIN down' : IF p \in DOMAIN down THEN IsAnswer(p)' /\ down'[p] = down[p]
                              ELSE p = Len(down) + 1 /\ down'[p] = r /\ ~IsAnswer(p)'
  BY <1>2, <1>3, <1>4 DEF IsAnswer, Serves
<1>8. FreshOpen' => ~known
  BY <1>2, <1>4, <1>5 DEF FreshOpen, IsAnswer
<1>9. ~FreshOpen
  BY <1>4 DEF FreshOpen, IsAnswer
<1>10. Shaped'
  BY <1>1, <1>3 DEF WatchInv, Shaped, Serves
<1>11. Linked'
  BY <1>1, <1>3, <1>4 DEF Linked, Serves
<1>12. Asked'
  BY <1>1, <1>6 DEF Asked
<1>13. Told'
  <2>1. /\ opened' # "no" /\ Len(down) + 1 \in DOMAIN down' /\ down'[Len(down) + 1].type # "answer"
        /\ down'[Len(down) + 1].type = (IF opened' = "yes" THEN "opened" ELSE "revoked")
    <3>1. Len(down) + 1 \in DOMAIN down' /\ down'[Len(down) + 1] = r
      BY <1>3 DEF Serves
    <3>2. down'[Len(down) + 1].type # "answer"
      BY <1>2, <3>1
    <3>3. r.type = (IF opened' = "yes" THEN "opened" ELSE "revoked") /\ opened' # "no"
      BY <1>1, <1>2
    <3> QED BY <3>1, <3>2, <3>3
  <2>2. \A p \in DOMAIN down : ~down[p].ok /\ (down[p].id = 0 => down[p].ok)
    BY <1>4 DEF WatchInv, Told
  <2>3. \A p \in DOMAIN down' : IsAnswer(p)' =>
          (down'[p].ok => opened' = "yes") /\ (down'[p].id = 0 => down'[p].ok)
    BY <1>7, <2>2
  <2>4. loop' = "open"
    BY <1>3, <1>4 DEF Serves
  <2>5. \E p \in DOMAIN down' :
          ~IsAnswer(p)' /\ down'[p].type = (IF opened' = "yes" THEN "opened" ELSE "revoked")
    BY <2>1 DEF IsAnswer
  <2> QED BY <1>7, <2>1, <2>3, <2>4, <2>5 DEF Told
<1>14. Named' /\ Issued'
  BY <1>3 DEF WatchInv, ChainInv, Named, Issued, Serves
<1>15. Restoring'
  BY <1>3, <1>4 DEF WatchInv, ChainInv, Restoring, Serves
<1>16. Waits'
  BY <1>1, <1>3, <1>4, <1>8 DEF WatchInv, ChainInv, Waits, Serves
<1>17. InFlight'
  <2>1. \A p \in DOMAIN up' : \E i \in DOMAIN chain : Asks(p + 1, i)
    BY <1>3, <1>6 DEF WatchInv, FlightInv, InFlight, Serves
  <2>2. \A p \in DOMAIN down' : IsAnswer(p)' => \E i \in DOMAIN chain : Answers(p, i)'
    BY <1>3, <1>4, <1>7 DEF WatchInv, FlightInv, InFlight, Answers, Serves
  <2> QED BY <1>3, <2>1, <2>2 DEF InFlight, Asks, Serves
<1>18. Apart'
  <2>1. \A p, q \in DOMAIN up' : up'[p].id = up'[q].id => p = q
    <3>1. \A p, q \in DOMAIN up' : up'[p].id = up'[q].id => p + 1 = q + 1
      BY <1>3, <1>6 DEF WatchInv, FlightInv, Apart, Serves
    <3>2. \A p, q \in Nat : p + 1 = q + 1 => p = q
      OBVIOUS
    <3> QED BY <1>3, <3>1, <3>2 DEF Serves
  <2>2. \A p \in DOMAIN up' : \A q \in DOMAIN down : up'[p].id # down[q].id
    BY <1>3, <1>4, <1>6 DEF WatchInv, FlightInv, Apart, Serves
  <2>3. \A p, q \in DOMAIN down : down[p].id = down[q].id => p = q
    BY <1>4 DEF WatchInv, FlightInv, Apart
  <2> QED BY <1>7, <2>1, <2>2, <2>3 DEF Apart
<1>19. SetAlone'
  <2> SUFFICES ASSUME NEW p \in DOMAIN up', up'[p].type = "set"
               PROVE  /\ \A q \in DOMAIN up' : q < p => IsOpen(q)'
                      /\ \A q \in DOMAIN down' : ~IsAnswer(q)'
                      /\ \A j \in DOMAIN chain' : chain'[j].at # "answered"
    BY DEF SetAlone
  <2>1. p + 1 \in DOMAIN up /\ up[p + 1].type = "set"
    BY <1>3 DEF Serves
  <2>2. /\ \A q \in DOMAIN up : q < p + 1 => IsOpen(q)
        /\ \A q \in DOMAIN down : ~IsAnswer(q)
        /\ \A j \in DOMAIN chain : chain[j].at # "answered"
    BY <2>1 DEF WatchInv, FlightInv, SetAlone
  <2>3. \A q \in DOMAIN up' : ~(q < p)
    <3>1. \A q \in DOMAIN up' : q < p => q + 1 < p + 1
      BY <1>3 DEF Serves
    <3> QED BY <1>3, <1>6, <2>2, <3>1 DEF Serves
  <2>4. \A q \in DOMAIN down' : ~IsAnswer(q)'
    BY <1>4, <1>7, <2>2
  <2> QED BY <1>3, <2>2, <2>3, <2>4 DEF Serves
<1>20. Served'
  BY <1>1, <1>3, <1>4, <1>7 DEF WatchInv, Served, Serves
<1>21. Kept'
  <2>1. FreshOpen' \/ known
    BY <1>2, <1>3 DEF FreshOpen, WatchInv, Shaped, refused, Serves
  <2> QED BY <1>1, <1>3, <1>9, <2>1 DEF WatchInv, Kept, Serves
<1> QED BY <1>10, <1>11, <1>12, <1>13, <1>14, <1>15, <1>16, <1>17, <1>18, <1>19, <1>20, <1>21
        DEF WatchInv, ChainInv, FlightInv

(* A request that replaces the set is served when no answer is on its way  *)
(* that promised more, and names all the client means to watch.            *)
LEMMA ServeWatchKeeps ==
  ASSUME WatchInv, ServeWatch
  PROVE  WatchInv'
<1> DEFINE r == Answer("answer", up[1].id, opened = "yes")
<1>1. up # <<>> /\ Head(up).type \in {"add", "set"} /\ up' = Tail(up) /\ Head(up) = up[1]
  <2>1. up \in Seq(Request)
    BY DEF WatchInv, Shaped
  <2> QED BY <2>1 DEF ServeWatch, NextFrame
<1>2. up[1] \in Request
  BY <1>1, TailFacts DEF WatchInv, Shaped
<1>3. r \in Reply /\ r.type = "answer" /\ r.id = up[1].id /\ r.ok = (opened = "yes")
  BY <1>2 DEF Reply, Request, Answer
<1>4. /\ down' = Append(down, r) /\ UNCHANGED <<clientVars, calls, losses, bare>>
      /\ opened' = opened /\ known' = known /\ rotated' = rotated
  BY <1>1 DEF ServeWatch
<1>5. watching' = IF opened # "yes" THEN watching
                  ELSE IF up[1].type = "add" THEN watching \union up[1].set ELSE up[1].set
  BY <1>1 DEF ServeWatch
<1> HIDE DEF r
<1>6. Serves(r) /\ ~IsOpen(1)
  BY <1>1, <1>3, <1>4, ServeEffect DEF IsOpen
<1>7. PICK k \in DOMAIN chain : chain[k].at = "sent" /\ up[1] = Frame(chain[k])
  BY <1>6 DEF WatchInv, FlightInv, InFlight, Asks, Serves
<1>13. up[1].id = chain[k].id /\ up[1].set = chain[k].set /\ (up[1].type = "set" <=> chain[k].op # "add")
  BY <1>7 DEF Frame
<1>8. connected /\ loop \notin {"delay", "hello"}
  BY <1>7 DEF WatchInv, Linked, ChainInv, Waits
<1>9. \A p \in DOMAIN up' : IsOpen(p)' <=> IsOpen(p + 1)
  BY <1>6 DEF Serves, IsOpen
<1>26. r.id = 0 => r.ok
  <2>1. r.id = 0 => loop = "rewatch"
    BY <1>3, <1>7, <1>13 DEF WatchInv, ChainInv, Named, Restoring
  <2> QED BY <1>3, <1>8, <2>1 DEF WatchInv, Linked
<1>10. \A p \in DOMAIN up' : up'[p].type # "set"
  <2>1. \A p \in DOMAIN up' : 1 < p + 1
    BY <1>6 DEF Serves
  <2> QED BY <1>6, <2>1 DEF WatchInv, FlightInv, SetAlone, Serves
<1>11. FreshOpen' = FreshOpen
  <2>1. r.type # "opened"
    BY <1>3
  <2> QED BY <1>6, <2>1 DEF FreshOpen, Serves
<1>12. /\ \A p \in DOMAIN down : down'[p] = down[p] /\ (IsAnswer(p)' <=> IsAnswer(p))
       /\ down'[Len(down) + 1].type = "answer"
  <2>1. \A p \in DOMAIN down : down'[p] = down[p]
    BY <1>6 DEF Serves
  <2>2. down'[Len(down) + 1] = r
    BY <1>6 DEF Serves
  <2> QED BY <1>3, <2>1, <2>2 DEF IsAnswer
<1>14. Shaped'
  <2>1. watching' \subseteq Watches
    BY <1>2, <1>5 DEF WatchInv, Shaped, Request
  <2> QED BY <1>4, <1>6, <2>1 DEF WatchInv, Shaped, Serves
<1>15. Linked'
  BY <1>4, <1>6, <1>8 DEF WatchInv, Linked, Serves
<1>16. Asked'
  <2>1. \A p, q \in DOMAIN up' : IsOpen(p)' /\ IsOpen(q)' => p = q
    <3>1. \A p, q \in DOMAIN up' : IsOpen(p)' /\ IsOpen(q)' => p + 1 = q + 1
      BY <1>6, <1>9 DEF WatchInv, Asked, Serves
    <3>2. \A p, q \in Nat : p + 1 = q + 1 => p = q
      OBVIOUS
    <3> QED BY <1>6, <3>1, <3>2 DEF Serves
  <2>2. ASSUME NEW p \in DOMAIN up, IsOpen(p) PROVE \E q \in DOMAIN up' : IsOpen(q)'
    <3>1. p # 1 /\ p \in Nat /\ up \in Seq(Request) /\ p \in 1..Len(up)
      BY <1>6, <2>2 DEF WatchInv, Shaped
    <3>2. up' = Tail(up) /\ p - 1 \in DOMAIN up' /\ (p - 1) + 1 = p
      BY <1>1, <3>1
    <3> QED BY <1>9, <2>2, <3>2
  <2>3. \A p \in DOMAIN up' : IsOpen(p)' => opened = "no" /\ loop = "open"
    BY <1>6, <1>9 DEF WatchInv, Asked, Serves
  <2> QED BY <1>4, <1>6, <2>1, <2>2, <2>3 DEF WatchInv, Asked, Serves
<1>17. Told'
  <2>1. \A p \in DOMAIN down' : p \notin DOMAIN down => down'[p] = r /\ IsAnswer(p)'
    BY <1>3, <1>6 DEF Serves, IsAnswer
  <2>2. \A p \in DOMAIN down' : IsAnswer(p)' =>
          (down'[p].ok => opened = "yes") /\ (down'[p].id = 0 => down'[p].ok)
    BY <1>3, <1>12, <1>26, <2>1 DEF WatchInv, Told
  <2>3. \A p \in DOMAIN down' : ~IsAnswer(p)' => p \in DOMAIN down /\ ~IsAnswer(p)
    BY <1>12, <2>1
  <2>4. \A p \in DOMAIN down : p \in DOMAIN down' /\ down'[p] = down[p]
    BY <1>6 DEF Serves
  <2>5. loop = "open" /\ opened # "no" => \E p \in DOMAIN down' :
          ~IsAnswer(p)' /\ down'[p].type = (IF opened = "yes" THEN "opened" ELSE "revoked")
    BY <1>12, <2>4 DEF WatchInv, Told
  <2>6. opened' = opened /\ loop' = loop
    BY <1>4, <1>6 DEF Serves
  <2> QED BY <2>2, <2>3, <2>5, <2>6 DEF WatchInv, Told
<1>18. Named' /\ Issued'
  BY <1>6 DEF WatchInv, ChainInv, Named, Issued, Serves
<1>19. Restoring'
  BY <1>4, <1>6, <1>8 DEF WatchInv, ChainInv, Restoring, Serves
<1>20. Waits'
  BY <1>4, <1>6, <1>11 DEF WatchInv, ChainInv, Waits, Serves
<1>21. InFlight'
  <2>1. \A p \in DOMAIN up' : ~IsOpen(p)' => \E i \in DOMAIN chain : Asks(p + 1, i)
    BY <1>6, <1>9 DEF WatchInv, FlightInv, InFlight, Serves
  <2>2. \A p \in DOMAIN up' : ~IsOpen(p)' => \E i \in DOMAIN chain' : Asks(p, i)'
    BY <1>6, <2>1 DEF Asks, Serves
  <2>3. ASSUME NEW p \in DOMAIN down', IsAnswer(p)' PROVE \E i \in DOMAIN chain' : Answers(p, i)'
    <3>1. CASE p \in DOMAIN down
      BY <1>6, <1>12, <2>3, <3>1 DEF WatchInv, FlightInv, InFlight, Answers, Serves
    <3>2. CASE p = Len(down) + 1
      BY <1>3, <1>6, <1>7, <1>13, <3>2 DEF Answers, Serves
    <3> QED BY <1>6, <3>1, <3>2 DEF Serves
  <2> QED BY <2>2, <2>3 DEF InFlight
<1>22. Apart'
  <2>1. \A p, q \in DOMAIN up' : ~IsOpen(p)' /\ ~IsOpen(q)' /\ up'[p].id = up'[q].id => p = q
    <3>1. \A p, q \in DOMAIN up' : ~IsOpen(p)' /\ ~IsOpen(q)' /\ up'[p].id = up'[q].id => p + 1 = q + 1
      BY <1>6, <1>9 DEF WatchInv, FlightInv, Apart, Serves
    <3>2. \A p, q \in Nat : p + 1 = q + 1 => p = q
      OBVIOUS
    <3> QED BY <1>6, <3>1, <3>2 DEF Serves
  <2>2. \A p \in DOMAIN up' : ~IsOpen(p)' => up'[p].id # r.id
    BY <1>3, <1>6, <1>9 DEF WatchInv, FlightInv, Apart, Serves
  <2>3. \A p \in DOMAIN down : IsAnswer(p) => down[p].id # r.id
    BY <1>3, <1>6 DEF WatchInv, FlightInv, Apart, Serves
  <2>4. ASSUME NEW p \in DOMAIN up', NEW q \in DOMAIN down', ~IsOpen(p)', IsAnswer(q)'
        PROVE  up'[p].id # down'[q].id
    <3>1. CASE q \in DOMAIN down
      <4>1. p + 1 \in DOMAIN up /\ ~IsOpen(p + 1) /\ up'[p] = up[p + 1] /\ IsAnswer(q) /\ down'[q] = down[q]
        BY <1>6, <1>9, <1>12, <2>4, <3>1 DEF Serves
      <4> QED BY <3>1, <4>1 DEF WatchInv, FlightInv, Apart
    <3>2. CASE q = Len(down) + 1
      BY <1>6, <2>2, <2>4, <3>2 DEF Serves
    <3> QED BY <1>6, <3>1, <3>2 DEF Serves
  <2>5. ASSUME NEW p \in DOMAIN down', NEW q \in DOMAIN down', IsAnswer(p)', IsAnswer(q)',
               down'[p].id = down'[q].id
        PROVE  p = q
    <3>1. /\ p \in DOMAIN down => down'[p] = down[p] /\ IsAnswer(p)
          /\ q \in DOMAIN down => down'[q] = down[q] /\ IsAnswer(q)
      BY <1>12, <2>5
    <3>2. /\ p \notin DOMAIN down => p = Len(down) + 1 /\ down'[p] = r
          /\ q \notin DOMAIN down => q = Len(down) + 1 /\ down'[q] = r
      BY <1>6 DEF Serves
    <3>3. CASE p \in DOMAIN down /\ q \in DOMAIN down
      BY <2>5, <3>1, <3>3 DEF WatchInv, FlightInv, Apart
    <3>4. CASE ~(p \in DOMAIN down /\ q \in DOMAIN down)
      BY <2>3, <2>5, <3>1, <3>2, <3>4
    <3> QED BY <3>3, <3>4
  <2> QED BY <2>1, <2>4, <2>5 DEF Apart
<1>23. SetAlone'
  BY <1>10 DEF SetAlone
<1>24. Served'
  <2>1. up[1].type = "set" => /\ \A q \in DOMAIN down : ~IsAnswer(q)
                              /\ \A i \in DOMAIN chain : chain[i].at # "answered"
    BY <1>6 DEF WatchInv, FlightInv, SetAlone, Serves
  <2>2. up[1].type # "set" => watching \subseteq watching'
    BY <1>1, <1>5
  <2>3. \A i \in DOMAIN chain : chain[i].at = "answered" => known /\ chain[i].set \subseteq watching'
    BY <2>1, <2>2 DEF WatchInv, Served
  <2>4. ASSUME NEW p \in DOMAIN down', NEW i \in DOMAIN chain, IsAnswer(p)', down'[p].ok,
               chain[i].id = down'[p].id
        PROVE  chain[i].set \subseteq watching'
    <3>1. CASE p \in DOMAIN down
      <4>1. IsAnswer(p) /\ down'[p] = down[p] /\ up[1].type # "set"
        BY <1>12, <2>1, <2>4, <3>1
      <4>2. chain[i].set \subseteq watching
        BY <2>4, <3>1, <4>1 DEF WatchInv, Served
      <4> QED BY <2>2, <4>1, <4>2
    <3>2. CASE p \notin DOMAIN down
      <4>1. down'[p] = r
        BY <1>6, <3>2 DEF Serves
      <4>2. i = k /\ opened = "yes"
        BY <1>3, <1>13, <2>4, <4>1 DEF WatchInv, ChainInv, Named
      <4> QED BY <1>1, <1>5, <1>13, <4>2
    <3> QED BY <3>1, <3>2
  <2> QED BY <1>4, <1>6, <2>3, <2>4 DEF Served, Serves
<1>25. Kept'
  <2>1. up[1].type = "set" => specs \subseteq up[1].set
    BY <1>7, <1>13 DEF WatchInv, ChainInv, Issued
  <2>2. specs \subseteq watching => specs \subseteq watching'
    BY <1>1, <1>5, <2>1
  <2> QED BY <1>4, <1>6, <1>11, <2>2 DEF WatchInv, Kept, Serves
<1> QED BY <1>14, <1>15, <1>16, <1>17, <1>18, <1>19, <1>20, <1>21, <1>22, <1>23, <1>24, <1>25
        DEF WatchInv, ChainInv, FlightInv

(* The connection is lost: what was sent has failed, and nothing is on the *)
(* wire.                                                                   *)
LEMMA CloseKeeps ==
  ASSUME Calm, WatchInv, CloseEvent
  PROVE  WatchInv'
<1>1. /\ Quiet /\ (connected \/ loop = "hello") /\ losses < MaxLosses /\ losses' = losses + 1
      /\ connected' = FALSE
      /\ chain' = [i \in DOMAIN chain |->
           IF chain[i].at \in {"sent"} THEN [chain[i] EXCEPT !.at = "failed"] ELSE chain[i]]
      /\ loop' = CASE loop = "none" -> "hello"
                   [] loop \in {"hello", "open"} -> "delay"
                   [] OTHER -> loop
      /\ up' = <<>> /\ down' = <<>> /\ opened' = "no"
      /\ known' \in {known} \union (IF Forgets THEN {FALSE} ELSE {})
      /\ MayLose
      /\ watching' = IF known' THEN watching ELSE {}
      /\ bare' = (known' /\ (bare \/ loop = "rewatch" \/ FreshOpen))
      /\ specs' = specs /\ closed' = closed /\ concurrent' = concurrent /\ calls' = calls
      /\ rotated' = rotated
  BY DEF CloseEvent, Loses
<1>2. /\ chain \in Seq(Entry) /\ \A i \in DOMAIN chain : chain[i] \in Entry /\ i \in Nat \ {0}
      /\ known \in BOOLEAN
  BY DEF WatchInv, Shaped
<1>3. DOMAIN chain' = DOMAIN chain /\ chain' \in Seq(Entry)
  <2>1. \A e \in Entry : [e EXCEPT !.at = "failed"] \in Entry
    BY DEF Entry, Steps
  <2>2. \A i \in DOMAIN chain : chain'[i] \in Entry
    BY <1>1, <1>2, <2>1
  <2>3. chain' = [i \in 1..Len(chain) |-> chain'[i]] /\ DOMAIN chain = 1..Len(chain) /\ Len(chain) \in Nat
    BY <1>1, <1>2
  <2> QED BY <2>2, <2>3
<1>4. \A i \in DOMAIN chain :
        /\ chain'[i].id = chain[i].id /\ chain'[i].op = chain[i].op
        /\ chain'[i].watch = chain[i].watch /\ chain'[i].set = chain[i].set
        /\ chain'[i].at = IF chain[i].at = "sent" THEN "failed" ELSE chain[i].at
  <2>1. \A e \in Entry : LET f == [e EXCEPT !.at = "failed"] IN
          f.id = e.id /\ f.op = e.op /\ f.watch = e.watch /\ f.set = e.set /\ f.at = "failed"
    BY DEF Entry
  <2> QED BY <1>1, <1>2, <2>1
<1>5. loop # "sign" /\ loop # "delay"
  BY <1>1 DEF MayLose, WatchInv, Linked
<1>6. /\ \A i \in DOMAIN chain : chain[i].at = "queued" =>
           chain[i].op # "restore" /\ (concurrent => chain[i].op # "remove")
      /\ known' \/ \A i \in DOMAIN chain : chain[i].at = "sent"
  BY <1>1 DEF MayLose
<1>7. (known' => known) /\ known' \in BOOLEAN
  BY <1>1, <1>2
<1>8. /\ loop' \in {"hello", "delay", "rewatch"} /\ (loop' = "rewatch" <=> loop = "rewatch")
      /\ loop = "rewatch" => connected
  BY <1>1, <1>5 DEF WatchInv, Shaped
<1>9. \A i \in DOMAIN chain : chain[i].op = "restore" => i = 1 /\ chain[i].at = "sent" /\ loop = "rewatch"
  <2> SUFFICES ASSUME NEW i \in DOMAIN chain, chain[i].op = "restore"
               PROVE  i = 1 /\ chain[i].at = "sent" /\ loop = "rewatch"
    OBVIOUS
  <2>1. loop = "rewatch" /\ chain[i].at # "failed" /\ chain[i].at # "queued" /\ chain[i].at # "waiting"
    BY <1>6, <1>8 DEF WatchInv, ChainInv, Restoring, Waits
  <2>2. i = 1
    BY <2>1 DEF WatchInv, ChainInv, Issued
  <2>3. chain[1].at # "answered"
    BY <1>1, <1>2, <2>2, TailFacts DEF Quiet, Settled
  <2> QED BY <1>2, <2>1, <2>2, <2>3 DEF Entry, Steps
<1>10. ~FreshOpen'
  BY <1>1 DEF FreshOpen
<1>11. Shaped'
  <2>1. losses + 1 \in 0..MaxLosses
    BY <1>1, BoundsAssumption DEF WatchInv, Shaped
  <2>2. bare' \in BOOLEAN
    <3>1. bare' = (known' /\ (bare \/ loop = "rewatch" \/ FreshOpen))
      BY <1>1
    <3>2. (known' /\ (bare \/ loop = "rewatch" \/ FreshOpen)) \in BOOLEAN
      BY Zenon
    <3> QED BY <3>1, <3>2, Zenon
  <2>3. <<>> \in Seq(Request) /\ <<>> \in Seq(Reply) /\ watching' \subseteq Watches
    BY <1>1 DEF WatchInv, Shaped
  <2> QED BY <1>1, <1>3, <1>7, <1>8, <2>1, <2>2, <2>3 DEF WatchInv, Shaped
<1>12. Linked'
  BY <1>1, <1>8 DEF Linked
<1>13. Asked' /\ Told'
  BY <1>1 DEF Asked, Told
<1>14. Named'
  BY <1>1, <1>3, <1>4 DEF WatchInv, ChainInv, Named
<1>15. Restoring'
  <2>1. \A i \in DOMAIN chain' : chain'[i].op = "restore" => loop' = "rewatch" /\ chain'[i].at = "failed"
    BY <1>3, <1>4, <1>8, <1>9
  <2>2. ASSUME loop' = "rewatch"
        PROVE  /\ chain' # <<>> /\ chain'[1].op = "restore" /\ 1 \in DOMAIN chain'
    <3>1. PICK i \in DOMAIN chain : chain[i].op = "restore"
      BY <1>8, <2>2 DEF WatchInv, ChainInv, Restoring
    <3> QED BY <1>3, <1>4, <1>9, <3>1
  <2>3. \A i \in DOMAIN chain' : ~Ready(i)'
    <3>1. \A i \in DOMAIN chain : ~Ready(i)
      BY <1>1 DEF Quiet
    <3>2. \A i \in DOMAIN chain : chain'[i].at = "queued" <=> chain[i].at = "queued"
      BY <1>4
    <3>3. ASSUME NEW i \in DOMAIN chain, Ready(i)' PROVE Ready(i)
      <4>1. \A j \in 1..(i - 1) : j \in DOMAIN chain
        BY <1>2
      <4> QED BY <1>1, <1>4, <3>2, <3>3, <4>1 DEF Ready
    <3> QED BY <1>3, <3>1, <3>3
  <2>4. loop' = "rewatch" /\ known' => bare'
    BY <1>1, <1>8
  <2> QED BY <1>1, <2>1, <2>2, <2>3, <2>4 DEF Restoring
<1>16. Issued'
  BY <1>1, <1>3, <1>4 DEF WatchInv, ChainInv, Issued
<1>17. Waits'
  BY <1>1, <1>3, <1>4, <1>6, <1>8, <1>10 DEF WatchInv, ChainInv, Waits
<1>18. FlightInv'
  BY <1>1 DEF FlightInv, InFlight, Apart, SetAlone
<1>19. Served'
  BY <1>1, <1>3, <1>4, <1>6 DEF WatchInv, Served
<1>20. Kept'
  BY <1>1, <1>7, <1>8 DEF WatchInv, Kept
<1> QED BY <1>11, <1>12, <1>13, <1>14, <1>15, <1>16, <1>17, <1>18, <1>19, <1>20
        DEF WatchInv, ChainInv

(* A stuttering step changes nothing.                                      *)
LEMMA StutterKeeps ==
  ASSUME WatchInv, UNCHANGED vars
  PROVE  WatchInv'
<1>1. UNCHANGED <<connected, loop, chain, specs, closed, concurrent, calls, losses, up, down>>
  BY DEF vars, clientVars
<1>2. UNCHANGED <<opened, known, rotated, watching, bare>>
  BY DEF vars, serverVars
<1> USE <1>1, <1>2
<1>3. Shaped' /\ Linked' /\ Asked' /\ Told'
  BY DEF WatchInv, Shaped, Linked, Asked, Told, IsOpen, IsAnswer, Quiet, Settled, Ready
<1>4. Named' /\ Issued'
  BY DEF WatchInv, ChainInv, Named, Issued
<1>5. Restoring'
  BY DEF WatchInv, ChainInv, Restoring, Ready
<1>6. Waits'
  BY DEF WatchInv, ChainInv, Waits, FreshOpen
<1>7. FlightInv'
  BY DEF WatchInv, FlightInv, InFlight, Asks, Answers, Apart, SetAlone, IsOpen, IsAnswer
<1>8. Served' /\ Kept'
  BY DEF WatchInv, Served, Kept, IsAnswer, FreshOpen
<1> QED BY <1>3, <1>4, <1>5, <1>6, <1>7, <1>8 DEF WatchInv, ChainInv

(* The invariant holds initially.                                          *)
LEMMA InitWatches == Init => WatchInv
<1> SUFFICES ASSUME Init PROVE WatchInv
  OBVIOUS
<1>1. Shaped
  <2>1. concurrent \in BOOLEAN /\ 0 \in 0..MaxCalls /\ 0 \in 0..MaxLosses
    BY BoundsAssumption DEF Init
  <2>2. chain \in Seq(Entry) /\ up \in Seq(Request) /\ down \in Seq(Reply)
    BY EmptySeq DEF Init
  <2> QED BY <2>1, <2>2 DEF Init, Shaped
<1>2. Linked /\ Asked /\ Told
  BY DEF Init, Linked, Asked, Told
<1>3. ChainInv
  BY DEF Init, ChainInv, Named, Restoring, Issued, Waits
<1>4. FlightInv /\ Served /\ Kept
  BY DEF Init, FlightInv, InFlight, Apart, SetAlone, Served, Kept
<1> QED BY <1>1, <1>2, <1>3, <1>4 DEF WatchInv

(* Every step keeps the invariant.                                         *)
LEMMA NextWatches ==
  ASSUME Calm PROVE WatchInv /\ [Next]_vars => WatchInv'
<1> SUFFICES ASSUME WatchInv, [Next]_vars PROVE WatchInv'
  OBVIOUS
<1>1. CASE Continuation
  BY <1>1, IssueKeeps, ApplyKeeps, FailKeeps DEF Continuation
<1>2. CASE Call
  BY <1>2, CallKeeps
<1>3. CASE CloseEvent
  BY <1>3, CloseKeeps
<1>4. CASE LoopTask
  BY <1>4, DelayKeeps, HelloKeeps, SignedKeeps, OpenedKeeps, RevokedKeeps DEF LoopTask
<1>5. CASE ReceiveAnswer
  BY <1>5, AnswerKeeps
<1>6. CASE ServeOpen \/ ServeWatch
  BY <1>6, ServeOpenKeeps, ServeWatchKeeps
<1>7. CASE UNCHANGED vars
  BY <1>7, StutterKeeps
<1> QED BY <1>1, <1>2, <1>3, <1>4, <1>5, <1>6, <1>7 DEF Next

(* Every reachable state has its type (TypeOK), and only a loop that waits *)
(* for it has a mutation of its own in the chain, for any number of calls  *)
(* and losses, in both modes, with or without signatures and forgotten     *)
(* sessions.                                                               *)
THEOREM TypeAlwaysOK ==
  ASSUME Calm PROVE Spec => []TypeOK
<1>1. WatchInv => TypeOK
  <2> SUFFICES ASSUME WatchInv PROVE TypeOK
    OBVIOUS
  <2>1. \A i \in DOMAIN chain : chain[i] \in Entry
    BY DEF WatchInv, Shaped
  <2>2. \A i \in DOMAIN chain :
          /\ chain[i].op \in {"add", "remove", "restore"}
          /\ chain[i].at \in {"queued", "waiting", "sent", "answered", "failed"}
          /\ chain[i].set \subseteq Watches
    BY <2>1 DEF Entry, Steps
  <2>3. \A i \in DOMAIN chain : chain[i].op = "restore" => loop = "rewatch"
    BY DEF WatchInv, ChainInv, Restoring
  <2> QED BY <2>2, <2>3 DEF WatchInv, Shaped, TypeOK
<1>2. WatchInv /\ [Next]_vars => WatchInv'
  BY NextWatches
<1> QED BY <1>1, <1>2, InitWatches, PTL DEF Spec

(* The server never refuses the client's own restore of its watches        *)
(* (RewatchHeard), although it refuses the calls that are on the wire      *)
(* before the open of the session.                                         *)
THEOREM RewatchAlwaysHeard ==
  ASSUME Calm PROVE Spec => []RewatchHeard
<1>1. WatchInv => RewatchHeard
  BY DEF WatchInv, ChainInv, Restoring, RewatchHeard
<1>2. WatchInv /\ [Next]_vars => WatchInv'
  BY NextWatches
<1> QED BY <1>1, <1>2, InitWatches, PTL DEF Spec

(* At rest on a restored connection the server watches all that callers    *)
(* were told is watched (IntentServed), whatever was lost with the         *)
(* connections before, in whatever order calls, losses and answers came.   *)
(* Calm leaves out the failures the other run shows.                       *)
THEOREM IntentAlwaysServed ==
  ASSUME Calm PROVE Spec => []IntentServed
<1>1. WatchInv => IntentServed
  <2> SUFFICES ASSUME WatchInv, loop = "none", connected, ~bare
               PROVE  specs \subseteq watching
    BY DEF IntentServed
  <2>1. opened # "no"
    <3> SUFFICES ASSUME opened = "no" PROVE FALSE
      OBVIOUS
    <3>1. PICK p \in DOMAIN up : IsOpen(p)
      BY DEF WatchInv, Asked
    <3> QED BY <3>1 DEF WatchInv, Asked
  <2>2. known
    BY <2>1 DEF WatchInv, Linked
  <2>3. ~FreshOpen
    BY DEF WatchInv, Told, IsAnswer, FreshOpen
  <2> QED BY <2>2, <2>3 DEF WatchInv, Kept
<1>2. WatchInv /\ [Next]_vars => WatchInv'
  BY NextWatches
<1> QED BY <1>1, <1>2, InitWatches, PTL DEF Spec
=============================================================================
