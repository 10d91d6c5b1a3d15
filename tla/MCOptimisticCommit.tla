------------------------- MODULE MCOptimisticCommit -------------------------
(* Two clients of one space.  Stack: one document of two fields, read and   *)
(* written every way by both.  Cascade: one client stacks three commits     *)
(* across two documents while the other overwrites one.  Unwatched: a       *)
(* client increments a document that its view does not cover.               *)
EXTENDS OptimisticCommit, TLC

CONSTANTS a, b, x, y, f, g

Clients == {a, b}

SetOp(d, v) == [doc |-> d, kind |-> "set", field |-> None, val |-> v]
PutOp(d, h, v) == [doc |-> d, kind |-> "put", field |-> h, val |-> v]
AddOp(d, h) == [doc |-> d, kind |-> "add", field |-> h, val |-> 1]

FieldRead(d, h) == [doc |-> d, fields |-> {h}]
RootRead(d) == [doc |-> d, fields |-> Field]

T(op, read) == [op |-> op, read |-> read]

StackTx ==
  [c \in Clients |->
     {T(op, read) : op \in {SetOp(x, 1), PutOp(x, f, 1), AddOp(x, g)},
                    read \in {NoRead, FieldRead(x, f), RootRead(x)}}]
StackMax == (a :> 2) @@ (b :> 1)

CascadeTx ==
  (a :> {T(SetOp(x, 1), FieldRead(x, f)), T(AddOp(y, f), FieldRead(x, f)),
         T(AddOp(x, f), FieldRead(y, f)), T(AddOp(x, f), NoRead)})
  @@ (b :> {T(SetOp(x, 1), NoRead)})
CascadeMax == (a :> 3) @@ (b :> 1)

UnwatchedTx ==
  (a :> {T(AddOp(y, f), NoRead), T(SetOp(x, 1), FieldRead(y, f))})
  @@ (b :> {T(AddOp(y, f), NoRead)})

WatchAll == [c \in Clients |-> Doc]
WatchSome == (a :> {x}) @@ (b :> Doc)
=============================================================================
